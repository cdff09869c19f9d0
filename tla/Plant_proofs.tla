------------------------------ MODULE Plant_proofs ------------------------------
(***************************************************************************)
(* The part queue, one agent's records, the AI dispatcher and the alerts,  *)
(* for every number of threads, parts, claims, heartbeats, records,        *)
(* inferences, providers, retries, nodes and alerts.                       *)
(***************************************************************************)
EXTENDS Fleet, PartFlow, EdgeSync, Dispatcher, FiniteSetTheorems, WellFoundedInduction, TLAPS

\* A set of numbers has a least one.
Minimum == \A S \in SUBSET Nat : S # {} => \E x \in S : \A y \in S : x <= y

\* Every nonempty set of naturals has a least element.
LEMMA LeastNumber == Minimum
<1> SUFFICES ASSUME NEW S \in SUBSET Nat, S # {} PROVE \E x \in S : \A y \in S : x <= y
  BY DEF Minimum
<1>1. PICK x \in S : \A y \in S : <<y, x>> \notin OpToRel(<, Nat)
  BY WFMin, NatLessThanWellFounded, Zenon
<1>2. \A y \in S : ~(y < x) BY <1>1, Zenon DEF OpToRel
<1> QED BY <1>2

\* What Max finds in a set of numbers up to n
Greatest == \A n \in Nat : \A S \in SUBSET (0..n) :
               S # {} => Max(S) \in S /\ \A x \in S : Max(S) >= x

\* Numbers up to n have a greatest one, and Max finds it.
LEMMA GreatestNumber == Greatest
<1> SUFFICES ASSUME NEW n \in Nat, NEW S \in SUBSET (0..n), S # {}
             PROVE  Max(S) \in S /\ \A x \in S : Max(S) >= x
  BY DEF Greatest
<1> DEFINE T == {n - x : x \in S}
<1>1. \A x \in S : x \in Nat /\ x <= n OBVIOUS
<1>2. T \in SUBSET Nat /\ T # {}
  <2>1. \A x \in S : n - x \in Nat BY <1>1
  <2> QED BY <2>1, Zenon
<1>3. PICK y \in T : \A z \in T : y <= z BY <1>2, LeastNumber DEF Minimum
<1>4. PICK m \in S : y = n - m BY <1>3
<1>5. \A x \in S : m >= x
  <2> SUFFICES ASSUME NEW x \in S PROVE m >= x OBVIOUS
  <2>1. n - x \in T OBVIOUS
  <2>2. y <= n - x BY <1>3, <2>1
  <2> QED BY <1>1, <1>4, <2>2
<1> QED BY <1>5 DEF Max

\* The smaller and the larger of two numbers.
LEMMA MinMax ==
    \A a, b \in Int :
       /\ Min({a, b}) \in {a, b} /\ Min({a, b}) <= a /\ Min({a, b}) <= b
       /\ Max({a, b}) \in {a, b} /\ Max({a, b}) >= a /\ Max({a, b}) >= b
<1> SUFFICES ASSUME NEW a \in Int, NEW b \in Int
             PROVE  /\ Min({a, b}) \in {a, b} /\ Min({a, b}) <= a /\ Min({a, b}) <= b
                    /\ Max({a, b}) \in {a, b} /\ Max({a, b}) >= a /\ Max({a, b}) >= b
  OBVIOUS
<1>1. \E x \in {a, b} : \A y \in {a, b} : x <= y
  <2>1. CASE a <= b BY <2>1
  <2>2. CASE b <= a BY <2>2
  <2> QED BY <2>1, <2>2
<1>2. \E x \in {a, b} : \A y \in {a, b} : x >= y
  <2>1. CASE a >= b BY <2>1
  <2>2. CASE b >= a BY <2>2
  <2> QED BY <2>1, <2>2
<1> QED BY <1>1, <1>2 DEF Min, Max

-----------------------------------------------------------------------------
(* The dispatcher *)

Inference ==
    [at : {"none", "provider", "call", "done"}, link : Int, retry : Int, no : Nat, time : Nat,
     usable : SUBSET Providers, failed : SUBSET Providers, late : BOOLEAN,
     answer : Providers \cup {"none", "rules"}, fallback : BOOLEAN]

\* What EndsAsTried says of one inference
Honest(q) ==
    /\ q.answer = "rules" =>
          /\ q.usable \subseteq q.failed
          /\ q.link \notin DOMAIN Chain \/ (q.late /\ q.time >= Overall)
    /\ q.answer \in Providers => /\ q.answer \in q.usable
                                 /\ q.failed # {} => q.fallback

\* Between two providers every usable one has failed; in a call the others have.
Tried(q) ==
    /\ q.at \in {"none", "provider"} => q.usable \subseteq q.failed
    /\ q.at = "call" => /\ q.link \in DOMAIN Chain /\ Chain[q.link] \in q.usable
                        /\ q.usable \subseteq q.failed \cup {Chain[q.link]}
    /\ q.at # "done" => q.answer = "none"

DispatcherInv ==
    /\ vault.no \in Nat
    /\ inference \in [Inferences -> Inference]
    /\ \A i \in Inferences : Honest(inference[i]) /\ Tried(inference[i])

\* No provider is called like the rules, or like nothing.
LEMMA Names == "none" \notin Providers /\ "rules" \notin Providers
BY DispatcherAssumption DEF Providers

\* A step of one inference.
LEMMA OneInference ==
    ASSUME DispatcherInv, UNCHANGED vault
    PROVE  \A i \in Inferences : \A q \in Inference :
              inference' = [inference EXCEPT ![i] = q] /\ Honest(q) /\ Tried(q) => DispatcherInv'
<1> SUFFICES ASSUME NEW i \in Inferences, NEW q \in Inference,
                    inference' = [inference EXCEPT ![i] = q], Honest(q), Tried(q)
             PROVE  DispatcherInv'
  OBVIOUS
<1>1. inference' \in [Inferences -> Inference] BY DEF DispatcherInv
<1>2. \A j \in Inferences : inference'[j] = IF j = i THEN q ELSE inference[j] BY DEF DispatcherInv
<1> QED BY <1>1, <1>2 DEF DispatcherInv

\* The pause before a retry is a natural number.
LEMMA PauseNumber ==
    \A t \in Nat : \A p \in {0, 1} : Min({p, Max({Overall - t, 0})}) \in Nat
<1> SUFFICES ASSUME NEW t \in Nat, NEW p \in {0, 1} PROVE Min({p, Max({Overall - t, 0})}) \in Nat
  OBVIOUS
<1>1. PICK x \in Int : x = Max({Overall - t, 0}) /\ x >= 0
  <2>1. PICK a \in Int : a = Overall - t BY DispatcherAssumption
  <2>2. 0 \in Int OBVIOUS
  <2>3. Max({a, 0}) \in {a, 0} /\ Max({a, 0}) >= 0 BY <2>2, MinMax, Zenon
  <2>4. Max({a, 0}) \in Int BY <2>3
  <2> QED BY <2>1, <2>3, <2>4
<1>2. p \in Int /\ p >= 0 OBVIOUS
<1>3. Min({p, x}) \in {p, x} BY <1>2, MinMax
<1> QED BY <1>1, <1>2, <1>3

\* An inference that falls back on the rules.
LEMMA FallbackHonest ==
    \A q \in Inference :
       LET f == Fallback(q)
       IN  /\ f \in Inference
           /\ q.usable \subseteq q.failed
              /\ (q.link \notin DOMAIN Chain \/ (q.late /\ q.time >= Overall))
              => Honest(f) /\ Tried(f)
<1> SUFFICES ASSUME NEW q \in Inference
             PROVE  LET f == Fallback(q)
                    IN  /\ f \in Inference
                        /\ q.usable \subseteq q.failed
                           /\ (q.link \notin DOMAIN Chain \/ (q.late /\ q.time >= Overall))
                           => Honest(f) /\ Tried(f)
  OBVIOUS
<1>1. LET f == Fallback(q)
      IN  /\ f \in Inference /\ f.at = "done" /\ f.answer = "rules" /\ f.time = q.time
          /\ f.usable = q.usable /\ f.failed = q.failed /\ f.late = q.late /\ f.link = q.link
  BY DEF Fallback, Inference
<1>2. PICK f \in Inference :
         /\ f = Fallback(q) /\ f.at = "done" /\ f.answer = "rules" /\ f.time = q.time
         /\ f.usable = q.usable /\ f.failed = q.failed /\ f.late = q.late /\ f.link = q.link
  BY <1>1
<1>3. q.usable \subseteq q.failed /\ (q.link \notin DOMAIN Chain \/ (q.late /\ q.time >= Overall))
      => Honest(f) /\ Tried(f)
  BY <1>2, Names DEF Honest, Tried
<1> QED BY <1>2, <1>3

\* Each step of the dispatcher.
LEMMA DispatcherStepKeeps == DispatcherInv /\ [DispatcherStep]_dispatcherVars => DispatcherInv'
<1> SUFFICES ASSUME DispatcherInv, [DispatcherStep]_dispatcherVars PROVE DispatcherInv' OBVIOUS
<1>0. /\ \A i \in Inferences : /\ inference[i] \in Inference /\ Honest(inference[i])
                               /\ Tried(inference[i])
      /\ vault.no \in Nat
  BY DEF DispatcherInv
<1>1. CASE UNCHANGED dispatcherVars BY <1>1 DEF dispatcherVars, DispatcherInv
<1>2. ASSUME NEW p \in VaultKinds, Unlock(p) PROVE DispatcherInv'
  <2>1. vault'.no \in Nat /\ UNCHANGED inference BY <1>0, <1>2 DEF Unlock
  <2> QED BY <2>1 DEF DispatcherInv
<1>3. ASSUME NEW i \in Inferences, Begin(i) PROVE DispatcherInv'
  <2>1. PICK q \in Inference : q = inference[i] /\ Honest(q) /\ Tried(q) BY <1>0
  <2>2. LET r == [q EXCEPT !.at = "provider"] IN r \in Inference /\ Honest(r) /\ Tried(r)
    BY <1>3, <2>1, Names DEF Begin, Inference, Honest, Tried
  <2> QED BY <1>3, <2>1, <2>2, OneInference DEF Begin, DispatcherInv
<1>4. ASSUME NEW i \in Inferences, NextProvider(i) PROVE DispatcherInv'
  <2>1. PICK q \in Inference : q = inference[i] /\ Honest(q) /\ Tried(q) BY <1>0
  <2>2. /\ q.at = "provider" /\ q.link \in DOMAIN Chain /\ q.answer = "none" /\ q.link \in Int
        /\ Chain[q.link] \in Providers
    BY <1>4, <2>1 DEF NextProvider, Tried, Providers, Inference
  <2>3. PICK c : c = Config(Chain[q.link]) /\ c.no \in Nat
    <3>1. Config(Chain[q.link]).no \in Nat BY <1>0 DEF Config
    <3> QED BY <3>1
  <2> DEFINE u == q.usable \cup {Chain[q.link]}
             f == q.failed \cup {Chain[q.link]}
  <2>a. PICK l \in Int, z \in Int, k \in Nat : l = q.link + 1 /\ z = 0 /\ k = c.no
    BY <2>2, <2>3
  <2>b. u \in SUBSET Providers /\ f \in SUBSET Providers BY <2>1, <2>2 DEF Inference
  <2> HIDE DEF u, f
  <2>4. PICK a \in Inference :
           a = [q EXCEPT !.link = l] /\ Honest(a) /\ Tried(a)
    <3>1. PICK r : r = [q EXCEPT !.link = l] OBVIOUS
    <3>2. /\ r \in Inference /\ r.at = "provider" /\ r.time = q.time /\ r.answer = "none"
          /\ r.usable = q.usable /\ r.failed = q.failed
      BY <2>1, <2>2, <3>1 DEF Inference
    <3>3. Honest(r) /\ Tried(r) BY <2>1, <2>2, <3>2, Names DEF Honest, Tried
    <3> QED BY <3>1, <3>2, <3>3
  <2>5. PICK b \in Inference :
           b = [q EXCEPT !.link = l, !.failed = f] /\ Honest(b) /\ Tried(b)
    <3>1. PICK r : r = [q EXCEPT !.link = l, !.failed = f] OBVIOUS
    <3>2. /\ r \in Inference /\ r.at = "provider" /\ r.time = q.time /\ r.answer = "none"
          /\ r.usable = q.usable /\ r.failed = f
      BY <2>1, <2>2, <2>b, <3>1 DEF Inference
    <3>3. q.usable \subseteq f BY <2>1, <2>2 DEF Tried, f
    <3>4. Honest(r) /\ Tried(r) BY <2>1, <3>2, <3>3, Names DEF Honest, Tried
    <3> QED BY <3>1, <3>2, <3>4
  <2>6. PICK g \in Inference :
           /\ g = [q EXCEPT !.at = "call", !.retry = z, !.no = k, !.usable = u]
           /\ Honest(g) /\ Tried(g)
    <3>1. PICK r : r = [q EXCEPT !.at = "call", !.retry = z, !.no = k, !.usable = u] OBVIOUS
    <3>2. /\ r \in Inference /\ r.at = "call" /\ r.link = q.link /\ r.usable = u
          /\ r.failed = q.failed /\ r.time = q.time /\ r.answer = "none"
      BY <2>1, <2>2, <2>b, <3>1 DEF Inference
    <3>3. Honest(r) BY <2>1, <3>2, Names DEF Honest
    <3>4. Tried(r) BY <2>1, <2>2, <3>2 DEF Tried, u
    <3> QED BY <3>1, <3>2, <3>3, <3>4
  <2>7. \/ inference' = [inference EXCEPT ![i] = [q EXCEPT !.link = l]]
        \/ inference' = [inference EXCEPT ![i] = [q EXCEPT !.link = l, !.failed = f]]
        \/ inference' = [inference EXCEPT ![i] =
              [q EXCEPT !.at = "call", !.retry = z, !.no = k, !.usable = u]]
    <3>1. /\ [q EXCEPT !.link = @ + 1] = [q EXCEPT !.link = l]
          /\ [[q EXCEPT !.link = @ + 1] EXCEPT !.failed = @ \cup {Chain[q.link]}]
             = [q EXCEPT !.link = l, !.failed = f]
          /\ [q EXCEPT !.at = "call", !.retry = 0, !.no = c.no,
                       !.usable = @ \cup {Chain[q.link]}]
             = [q EXCEPT !.at = "call", !.retry = z, !.no = k, !.usable = u]
      BY <2>1, <2>a DEF Inference, u, f
    <3>2. c = Config(Chain[q.link]) BY <2>3
    <3>3. inference' = [inference EXCEPT ![i] =
             CASE c.use = "unconfigured" -> [q EXCEPT !.link = @ + 1]
               [] ~Allowed(c) -> [[q EXCEPT !.link = @ + 1] EXCEPT !.failed = @ \cup {Chain[q.link]}]
               [] OTHER -> [q EXCEPT !.at = "call", !.retry = 0, !.no = c.no,
                                     !.usable = @ \cup {Chain[q.link]}]]
      BY <1>4, <2>1, <3>2 DEF NextProvider
    <3>4. CASE c.use = "unconfigured"
      <4>1. inference' = [inference EXCEPT ![i] = [q EXCEPT !.link = @ + 1]]
        BY <1>4, <2>1, <3>2, <3>4 DEF NextProvider, Allowed
      <4>2. [q EXCEPT !.link = @ + 1] = [q EXCEPT !.link = l] BY <3>1
      <4> QED BY <4>1, <4>2
    <3>5. CASE c.use # "unconfigured" /\ ~Allowed(c)
      <4>1. inference' = [inference EXCEPT ![i] =
               [[q EXCEPT !.link = @ + 1] EXCEPT !.failed = @ \cup {Chain[q.link]}]]
        BY <3>3, <3>5
      <4> QED BY <3>1, <4>1
    <3>6. CASE c.use # "unconfigured" /\ Allowed(c)
      <4>1. inference' = [inference EXCEPT ![i] =
               [q EXCEPT !.at = "call", !.retry = 0, !.no = c.no,
                         !.usable = @ \cup {Chain[q.link]}]]
        BY <3>3, <3>6
      <4> QED BY <3>1, <4>1
    <3> QED BY <3>4, <3>5, <3>6
  <2>8. UNCHANGED vault BY <1>4 DEF NextProvider
  <2> QED BY <2>4, <2>5, <2>6, <2>7, <2>8, OneInference
<1>5. ASSUME NEW i \in Inferences, Exhausted(i) PROVE DispatcherInv'
  <2>1. PICK q \in Inference : q = inference[i] /\ Honest(q) /\ Tried(q) BY <1>0
  <2>2. /\ q.at = "provider" /\ q.link \notin DOMAIN Chain /\ UNCHANGED vault
        /\ inference' = [inference EXCEPT ![i] = Fallback(q)]
    BY <1>5, <2>1 DEF Exhausted, DispatcherInv
  <2>3. Fallback(q) \in Inference /\ Honest(Fallback(q)) /\ Tried(Fallback(q))
    BY <2>1, <2>2, FallbackHonest DEF Honest, Tried
  <2> QED BY <2>2, <2>3, OneInference
<1>6. ASSUME NEW i \in Inferences, DeadlineOver(i) PROVE DispatcherInv'
  <2>1. PICK q \in Inference : q = inference[i] /\ Honest(q) /\ Tried(q) BY <1>0
  <2>2. /\ q.at = "call" /\ q.time >= Overall /\ UNCHANGED vault
        /\ inference' = [inference EXCEPT ![i] =
              Fallback([q EXCEPT !.late = TRUE, !.failed = @ \cup {Chain[q.link]}])]
    BY <1>6, <2>1 DEF DeadlineOver
  <2>3. Chain[q.link] \in Providers /\ q.usable \subseteq q.failed \cup {Chain[q.link]}
    BY <2>1, <2>2 DEF Tried, Providers
  <2>4. LET r == [q EXCEPT !.late = TRUE, !.failed = @ \cup {Chain[q.link]}]
        IN  /\ r \in Inference /\ r.time = q.time /\ r.usable \subseteq r.failed /\ r.late
    BY <2>1, <2>3 DEF Inference
  <2>5. PICK r \in Inference :
           /\ r = [q EXCEPT !.late = TRUE, !.failed = @ \cup {Chain[q.link]}]
           /\ r.time = q.time /\ r.usable \subseteq r.failed /\ r.late
    BY <2>4
  <2>6. Fallback(r) \in Inference /\ Honest(Fallback(r)) /\ Tried(Fallback(r))
    BY <2>2, <2>5, FallbackHonest
  <2> QED BY <2>2, <2>5, <2>6, OneInference
<1>7. ASSUME NEW i \in Inferences, NEW d \in CallTakes, CallSucceeds(i, d) PROVE DispatcherInv'
  <2>1. PICK q \in Inference : q = inference[i] /\ Honest(q) /\ Tried(q) BY <1>0
  <2>2. /\ q.at = "call" /\ q.time < Overall /\ UNCHANGED vault
        /\ inference' = [inference EXCEPT ![i] =
              [q EXCEPT !.at = "done", !.time = @ + d, !.answer = Chain[q.link],
                        !.fallback = FallbackUsed(q)]]
    BY <1>7, <2>1 DEF CallSucceeds
  <2>3. q.time \in Nat /\ Chain[q.link] \in Providers /\ Chain[q.link] \in q.usable
    BY <2>1, <2>2 DEF Tried, Providers, Inference
  <2>4. q.time + d \in Nat BY <2>3, DispatcherAssumption DEF CallTakes
  <2>5. PICK x \in BOOLEAN : x = FallbackUsed(q) /\ (x <=> q.failed # {})
    BY DEF FallbackUsed
  <2>6. PICK r : r = [q EXCEPT !.at = "done", !.time = @ + d, !.answer = Chain[q.link],
                               !.fallback = x]
    OBVIOUS
  <2>7. r \in Inference BY <2>3, <2>4, <2>6 DEF Inference
  <2>8. /\ r.at = "done" /\ r.time = q.time + d /\ r.answer = Chain[q.link] /\ r.usable = q.usable
        /\ r.failed = q.failed
    BY <2>6 DEF Inference
  <2>9. r.fallback <=> q.failed # {} BY <2>5, <2>6 DEF Inference
  <2>10. Honest(r) /\ Tried(r)
    <3>1. r.answer # "rules" BY <2>3, <2>8, Names
    <3> QED BY <2>3, <2>4, <2>8, <2>9, <3>1 DEF Honest, Tried
  <2>11. inference' = [inference EXCEPT ![i] = r] BY <2>2, <2>5, <2>6
  <2> QED BY <2>2, <2>7, <2>10, <2>11, OneInference
<1>8. ASSUME NEW i \in Inferences, NEW d \in CallTakes, NEW e \in ErrorClasses, NEW p \in 0..1,
             CallFails(i, d, e, p)
      PROVE  DispatcherInv'
  <2>1. PICK q \in Inference : q = inference[i] /\ Honest(q) /\ Tried(q) BY <1>0
  <2> DEFINE f == [q EXCEPT !.time = @ + d, !.failed = @ \cup {Chain[q.link]}]
             s == IF e \in Retriable /\ q.retry < Retries
                  THEN Min({p, Max({Overall - f.time, 0})}) ELSE 0
  <2>2. /\ q.at = "call" /\ q.time < Overall /\ UNCHANGED vault
        /\ inference' = [inference EXCEPT ![i] = AfterFailure([f EXCEPT !.time = @ + s], e)]
    BY <1>8, <2>1 DEF CallFails
  <2>3. /\ q.time \in Nat /\ Chain[q.link] \in Providers /\ q.answer = "none"
        /\ q.usable \subseteq q.failed \cup {Chain[q.link]} /\ q.link \in DOMAIN Chain
        /\ Chain[q.link] \in q.usable
    BY <2>1, <2>2 DEF Tried, Providers, Inference
  <2>4. q.time + d \in Nat /\ Min({p, Max({Overall - (q.time + d), 0})}) \in Nat
    <3>1. p \in {0, 1} OBVIOUS
    <3>2. q.time + d \in Nat BY <2>3, DispatcherAssumption DEF CallTakes
    <3> QED BY <3>1, <3>2, PauseNumber
  <2>5. f.time = q.time + d BY <2>1 DEF Inference
  <2>6. s \in Nat
    <3>1. CASE e \in Retriable /\ q.retry < Retries
      <4>1. s = Min({p, Max({Overall - (q.time + d), 0})}) BY <2>5, <3>1
      <4> QED BY <2>4, <4>1
    <3>2. CASE ~(e \in Retriable /\ q.retry < Retries)
      <4>1. s = 0 BY <3>2
      <4> QED BY <4>1
    <3> QED BY <3>1, <3>2
  <2> HIDE DEF s
  <2>7. PICK r : r = [f EXCEPT !.time = @ + s] OBVIOUS
  <2>8. /\ r \in Inference /\ r.answer = "none" /\ r.at = "call"
        /\ r.usable = q.usable /\ r.failed = q.failed \cup {Chain[q.link]} /\ r.link = q.link
        /\ r.link \in Int /\ r.retry \in Int
    <3>1. PICK t \in Nat : t = q.time + d + s
      BY <2>3, <2>4, <2>6
    <3>2. r = [q EXCEPT !.time = t, !.failed = @ \cup {Chain[q.link]}]
      BY <2>1, <2>7, <3>1 DEF Inference
    <3> QED BY <2>1, <2>2, <2>3, <3>1, <3>2 DEF Inference
  <2> HIDE DEF f
  <2>9. CASE e \in Retriable /\ r.retry < Retries
    <3>1. PICK g : g = [r EXCEPT !.retry = @ + 1] OBVIOUS
    <3>2. /\ g \in Inference /\ g.time = r.time /\ g.answer = "none" /\ g.at = "call"
          /\ g.usable = r.usable /\ g.failed = r.failed /\ g.link = r.link
      BY <2>8, <3>1 DEF Inference
    <3>3. Honest(g) /\ Tried(g) BY <2>3, <2>8, <3>2, Names DEF Honest, Tried
    <3>4. inference' = [inference EXCEPT ![i] = g] BY <2>2, <2>7, <2>9, <3>1 DEF AfterFailure
    <3> QED BY <2>2, <3>2, <3>3, <3>4, OneInference
  <2>10. CASE ~(e \in Retriable /\ r.retry < Retries)
    <3>5. PICK l \in Int : l = r.link + 1 BY <2>8
    <3>6. PICK g : g = [r EXCEPT !.at = "provider", !.link = l] OBVIOUS
    <3>1. g = [r EXCEPT !.at = "provider", !.link = @ + 1] BY <3>5, <3>6
    <3>2. /\ g \in Inference /\ g.time = r.time /\ g.answer = "none" /\ g.at = "provider"
          /\ g.usable = r.usable /\ g.failed = r.failed
      BY <2>8, <3>6 DEF Inference
    <3>3. Honest(g) /\ Tried(g) BY <2>3, <2>8, <3>2, Names DEF Honest, Tried
    <3>4. inference' = [inference EXCEPT ![i] = g] BY <2>2, <2>7, <2>10, <3>1 DEF AfterFailure
    <3> QED BY <2>2, <3>2, <3>3, <3>4, OneInference
  <2> QED BY <2>9, <2>10
<1>9. CASE DispatcherStep
  BY <1>2, <1>3, <1>4, <1>5, <1>6, <1>7, <1>8, <1>9 DEF DispatcherStep
<1> QED BY <1>1, <1>9

\* No inference has tried anything at first.
LEMMA DispatcherBegins == DispatcherInit => DispatcherInv
<1> SUFFICES ASSUME DispatcherInit PROVE DispatcherInv OBVIOUS
<1>1. /\ Waiting \in Inference /\ Waiting.at = "none" /\ Waiting.time = 0
      /\ Waiting.usable = {} /\ Waiting.failed = {} /\ Waiting.answer = "none"
  BY DEF Waiting, Inference
<1>3. Honest(Waiting) /\ Tried(Waiting) BY <1>1, Names DEF Honest, Tried
<1> QED BY <1>1, <1>3 DEF DispatcherInit, DispatcherInv, NoVault

\* _infer of runtime.py: an inference ends as it was tried, for every chain, deadline, number of
\* retries and duration of its calls.
THEOREM InferencesEndAsTried == DispatcherSpec => []EndsAsTried
<1>1. DispatcherInv => EndsAsTried
  BY DEF DispatcherInv, EndsAsTried, Honest
<1> QED BY <1>1, DispatcherBegins, DispatcherStepKeeps, PTL DEF DispatcherSpec

-----------------------------------------------------------------------------
(* The numbers of telemetry batches *)

\* The number s was used for content c: the central API has measured it, a request is under
\* way, or the agent's database or memory holds it.
Said(s, c) ==
    \/ measured[s] = c /\ c # 0
    \/ \E m \in late : m.kind = "telemetry" /\ m.no = s /\ m.of = c
    \/ batches[s] # Unstored /\ batches[s].of = c
    \/ batch.no = s /\ batch.of = c

NumberTypes ==
    /\ beat \in Nat /\ measured \in [Numbers -> Nat] /\ lastSequence \in Int
    /\ batches \in [Numbers -> [of : Nat, synced : {-1, 0, 1}]]
    /\ batch \in [no : Numbers \cup {0}, of : Nat,
                  result : {"none", "synced", "again", "terminal"}]
    /\ \A m \in late : m.kind = "telemetry" => m.no \in Numbers /\ m.of \in Nat

\* A number has one content and is not above what Known returns.
Distinct ==
    \A s \in Numbers : \A c, d \in Nat :
        Said(s, c) => /\ c # 0 /\ s <= Known
                      /\ Said(s, d) => c = d

\* main sends again what its database holds, and what it is about to send is the newest number.
Round ==
    /\ queue \subseteq {s \in Numbers : batches[s] # Unstored}
    /\ pc \in {"store", "reserve"} => beat # 0
    /\ pc \in {"send", "keep"} => batch.no # 0
    /\ batch.no # 0 => lastSequence = batch.no
    /\ batch.result # "terminal"
    /\ \A s \in Numbers : batches[s].synced # -1

NumberInv == NumberTypes /\ (Known \in Int /\ Distinct /\ Round)
NumbersKept == renewed \/ NumberInv

\* A step that uses no number for new content.
LEMMA SaidKept ==
    ASSUME NumberInv, NumberTypes', Known' = Known, Round',
           \A s \in Numbers : \A c \in Nat : Said(s, c)' => Said(s, c)
    PROVE  NumberInv'
BY DEF NumberInv, Distinct

\* Known reads the sequence state and which numbers the database holds.
LEMMA KnownSame ==
    ASSUME UNCHANGED lastSequence,
           \A s \in Numbers : batches'[s] # Unstored <=> batches[s] # Unstored
    PROVE  Known' = Known
<1>1. {s \in Numbers : batches'[s] # Unstored} = {s \in Numbers : batches[s] # Unstored}
  OBVIOUS
<1> QED BY <1>1 DEF Known

\* A call is for content its number was used for already, and is never refused.
LEMMA CallTelemetryKeeps ==
    ASSUME NumberInv, NEW s \in Numbers, NEW c \in Nat, NEW a \in Answers, Said(s, c),
           CallTelemetry(s, c, a)
    PROVE  /\ measured' \in [Numbers -> Nat]
           /\ \A m \in late' : m.kind = "telemetry" => m.no \in Numbers /\ m.of \in Nat
           /\ \A r \in Numbers : \A d \in Nat :
                 \/ measured'[r] = d /\ d # 0
                 \/ \E m \in late' : m.kind = "telemetry" /\ m.no = r /\ m.of = d
                 => Said(r, d)
           /\ Outcome(s, c, a) \in {"again", "synced"}
<1>1. measured \in [Numbers -> Nat] /\ measured[s] \in Nat BY DEF NumberInv, NumberTypes
<1>2. measured[s] = 0 \/ measured[s] = c
  <2>1. measured[s] # 0 => Said(s, measured[s]) BY DEF Said
  <2> QED BY <1>1, <2>1 DEF NumberInv, Distinct
<1>3. Outcome(s, c, a) \in {"again", "synced"} BY <1>2 DEF Outcome, Accepts
<1>4. measured' = measured \/ measured' = [measured EXCEPT ![s] = c]
  BY DEF CallTelemetry, TakeTelemetry
<1>5. measured' \in [Numbers -> Nat] BY <1>1, <1>4
<1>6. late' = late \/ late' = late \cup {Request("telemetry", s, c, <<>>)} BY DEF CallTelemetry
<1>7. \A m \in late' : m.kind = "telemetry" => /\ m.no \in Numbers /\ m.of \in Nat
                                               /\ m \in late \/ (m.no = s /\ m.of = c)
  BY <1>6 DEF Request, NumberInv, NumberTypes
<1>8. ASSUME NEW r \in Numbers, NEW d \in Nat, measured'[r] = d, d # 0 PROVE Said(r, d)
  <2>1. CASE measured[r] = d BY <1>8, <2>1 DEF Said
  <2>2. CASE measured[r] # d
    <3>1. r = s /\ d = c BY <1>1, <1>4, <1>8, <2>2
    <3> QED BY <3>1
  <2> QED BY <2>1, <2>2
<1>9. ASSUME NEW r \in Numbers, NEW d \in Nat,
             \E m \in late' : m.kind = "telemetry" /\ m.no = r /\ m.of = d
      PROVE  Said(r, d)
  <2>1. PICK m \in late' : m.kind = "telemetry" /\ m.no = r /\ m.of = d BY <1>9
  <2>2. CASE m \in late BY <2>1, <2>2 DEF Said
  <2>3. CASE m.no = s /\ m.of = c BY <2>1, <2>3
  <2> QED BY <1>7, <2>1, <2>2, <2>3
<1> QED BY <1>3, <1>5, <1>7, <1>8, <1>9

\* The fields of a late request.
LEMMA RequestFields ==
    \A kind, no, of, body :
        LET m == Request(kind, no, of, body)
        IN  m.kind = kind /\ m.no = no /\ m.of = of /\ m.sent = body
BY DEF Request

\* The steps that concern heartbeats and records only, and the end of a round.
LEMMA BeatsKeepNumbers ==
    ASSUME NumberInv,
           \/ \E a \in Answers, w \in BOOLEAN : SendHeartbeat(a, w) \/ SyncRecords(a, w)
           \/ StoreHeartbeat \/ EndTelemetry \/ Restart
    PROVE  NumberInv'
<1>1. /\ UNCHANGED <<lastSequence, batches, measured>>
      /\ batch' = batch \/ batch' = NoBatch
      /\ queue' = queue \/ queue' = {}
      /\ beat' \in Nat /\ (beat # 0 => beat' # 0)
      /\ pc' \in {"store", "reserve"} => beat' # 0
      /\ pc' \notin {"send", "keep"}
      /\ \A m \in late' : m.kind = "telemetry" => m \in late
  <2>0. beat \in Nat BY DEF NumberInv, NumberTypes
  <2>1. ASSUME NEW a \in Answers, NEW w \in BOOLEAN, SendHeartbeat(a, w)
        PROVE  /\ UNCHANGED <<lastSequence, batches, measured, batch, queue>>
               /\ beat' \in Nat /\ beat' # 0 /\ pc' = "store"
               /\ \A m \in late' : m.kind = "telemetry" => m \in late
    <3>1. late' = late \/ late' = late \cup {Request("beat", beat + 1, 0, <<>>)}
      BY <2>1 DEF SendHeartbeat
    <3> QED BY <2>0, <2>1, <3>1, RequestFields DEF SendHeartbeat
  <2>2. ASSUME NEW a \in Answers, NEW w \in BOOLEAN, SyncRecords(a, w)
        PROVE  /\ UNCHANGED <<lastSequence, batches, measured, batch, queue, beat>>
               /\ pc' = "beat"
               /\ \A m \in late' : m.kind = "telemetry" => m \in late
    <3>1. late' = late \/ \E body : late' = late \cup {Request("records", 0, 0, body)}
      BY <2>2 DEF SyncRecords
    <3>2. \A m \in late' : m.kind = "telemetry" => m \in late
      <4>1. CASE late' = late BY <4>1
      <4>2. CASE late' # late
        <5>1. PICK body : late' = late \cup {Request("records", 0, 0, body)} BY <3>1, <4>2
        <5>2. Request("records", 0, 0, body).kind = "records" BY DEF Request
        <5> QED BY <5>1, <5>2
      <4> QED BY <4>1, <4>2
    <3> QED BY <2>2, <3>2 DEF SyncRecords
  <2>3. CASE StoreHeartbeat
    BY <2>0, <2>3 DEF StoreHeartbeat, centralVars, NumberInv, Round
  <2>4. CASE EndTelemetry BY <2>0, <2>4 DEF EndTelemetry, AfterTelemetry, centralVars
  <2>5. CASE Restart BY <2>0, <2>5 DEF Restart, centralVars
  <2> QED BY <2>0, <2>1, <2>2, <2>3, <2>4, <2>5
<1>2. Known' = Known BY <1>1 DEF Known
<1>3. NoBatch \in [no : Numbers \cup {0}, of : Nat,
                   result : {"none", "synced", "again", "terminal"}]
      /\ NoBatch.no = 0 /\ NoBatch.result = "none"
  BY DEF NoBatch
<1>4. NumberTypes' BY <1>1, <1>3 DEF NumberInv, NumberTypes
<1>5. Round' BY <1>1, <1>3 DEF NumberInv, Round
<1>6. \A s \in Numbers : s # 0 BY EdgeSyncAssumption DEF Numbers
<1>7. \A s \in Numbers : \A c \in Nat : Said(s, c)' => Said(s, c)
  BY <1>1, <1>3, <1>6 DEF Said
<1> QED BY <1>2, <1>4, <1>5, <1>7, SaidKept

\* reserve_telemetry_sequence: the next number was not used before.
LEMMA ReserveKeepsNumbers == ASSUME NumberInv, ReserveSequence PROVE NumberInv'
<1>1. PICK n \in Numbers : n = Known + 1 /\ lastSequence' = n
  BY DEF ReserveSequence, Reserve
<1>2. /\ batch' = [no |-> n, of |-> beat, result |-> "none"]
      /\ UNCHANGED <<beat, batches, queue, late, measured>> /\ pc' = "send" /\ beat # 0
      /\ beat \in Nat
  BY <1>1 DEF ReserveSequence, Reserve, centralVars, NumberInv, Round, NumberTypes
<1>3. n \in Int /\ n >= 1 BY EdgeSyncAssumption DEF Numbers
<1>4. Known' = n BY <1>1, <1>3 DEF Known
<1>5. batch'.no = n /\ batch'.of = beat /\ batch'.result = "none" BY <1>2
<1>6. NumberTypes'
  <2>1. batch' \in [no : Numbers \cup {0}, of : Nat,
                    result : {"none", "synced", "again", "terminal"}]
    BY <1>2
  <2> QED BY <1>1, <1>2, <1>3, <2>1 DEF NumberInv, NumberTypes
<1>7. Round' BY <1>1, <1>2, <1>3, <1>5 DEF NumberInv, Round
<1>8. \A s \in Numbers : \A c \in Nat : Said(s, c)' => Said(s, c) \/ (s = n /\ c = beat)
  BY <1>2, <1>5 DEF Said
<1>9. \A s \in Numbers : s \in Int BY DEF Numbers
<1>10. \A c \in Nat : ~Said(n, c) BY <1>1, <1>3 DEF NumberInv, Distinct
<1>11. Distinct'
  <2> SUFFICES ASSUME NEW s \in Numbers, NEW c \in Nat, NEW d \in Nat, Said(s, c)'
               PROVE  c # 0 /\ s <= Known' /\ (Said(s, d)' => c = d)
    BY DEF Distinct
  <2>1. CASE s = n
    BY <1>2, <1>3, <1>4, <1>8, <1>10, <2>1
  <2>2. CASE s # n
    <3>1. Said(s, c) /\ (Said(s, d)' => Said(s, d)) BY <1>8, <2>2
    <3>2. c # 0 /\ s <= Known /\ (Said(s, d) => c = d) BY <3>1 DEF NumberInv, Distinct
    <3>3. s <= n BY <1>1, <1>3, <1>9, <3>2 DEF NumberInv
    <3> QED BY <1>4, <3>1, <3>2, <3>3
  <2> QED BY <2>1, <2>2
<1> QED BY <1>3, <1>4, <1>6, <1>7, <1>11 DEF NumberInv

\* What a batch in hand was used for.
LEMMA InHand ==
    ASSUME NumberInv, batch.no # 0
    PROVE  /\ batch.no \in Numbers /\ batch.of \in Nat /\ Said(batch.no, batch.of)
           /\ batch.of # 0 /\ lastSequence = batch.no /\ lastSequence \in Nat \ {0}
<1>1. batch.no \in Numbers /\ batch.of \in Nat BY DEF NumberInv, NumberTypes
<1>2. Said(batch.no, batch.of) BY DEF Said
<1>3. batch.of # 0 BY <1>1, <1>2 DEF NumberInv, Distinct
<1> QED BY <1>1, <1>2, <1>3, EdgeSyncAssumption DEF NumberInv, Round, Numbers

\* send_telemetry_batch of the batch in hand.
LEMMA SendKeepsNumbers ==
    ASSUME NumberInv, NEW a \in Answers, SendTelemetry(a)
    PROVE  NumberInv'
<1>1. batch.no # 0 BY DEF SendTelemetry, NumberInv, Round
<1>2. PICK s \in Numbers, c \in Nat : s = batch.no /\ c = batch.of /\ Said(s, c) /\ s # 0
  BY <1>1, InHand
<1>3. /\ CallTelemetry(s, c, a) /\ batch' = [batch EXCEPT !.result = Outcome(s, c, a)]
      /\ pc' = "keep" /\ UNCHANGED <<beat, lastSequence, batches, queue>>
  BY <1>2 DEF SendTelemetry
<1>4. /\ measured' \in [Numbers -> Nat]
      /\ \A m \in late' : m.kind = "telemetry" => m.no \in Numbers /\ m.of \in Nat
      /\ \A r \in Numbers : \A d \in Nat :
            \/ measured'[r] = d /\ d # 0
            \/ \E m \in late' : m.kind = "telemetry" /\ m.no = r /\ m.of = d
            => Said(r, d)
      /\ Outcome(s, c, a) \in {"again", "synced"}
  BY <1>2, <1>3, CallTelemetryKeeps
<1>5. PICK x \in {"again", "synced"} : x = Outcome(s, c, a) BY <1>4
<1>6. /\ batch' \in [no : Numbers \cup {0}, of : Nat,
                     result : {"none", "synced", "again", "terminal"}]
      /\ batch'.no = s /\ batch'.of = c /\ batch'.result = x
  BY <1>2, <1>3, <1>5 DEF NumberInv, NumberTypes
<1>7. Known' = Known BY <1>3 DEF Known
<1>8. NumberTypes' BY <1>3, <1>4, <1>6 DEF NumberInv, NumberTypes
<1>9. Round' BY <1>2, <1>3, <1>6 DEF NumberInv, Round
<1>10. \A r \in Numbers : \A d \in Nat : Said(r, d)' => Said(r, d)
  BY <1>2, <1>3, <1>4, <1>6 DEF Said
<1> QED BY <1>7, <1>8, <1>9, <1>10, SaidKept

\* store_telemetry_batch: the row gets the content the number was sent for.
LEMMA StoreKeepsNumbers == ASSUME NumberInv, StoreTelemetry PROVE NumberInv'
<1>1. batch.no # 0 BY DEF StoreTelemetry, NumberInv, Round
<1>2. PICK s \in Numbers, c \in Nat : /\ s = batch.no /\ c = batch.of /\ Said(s, c) /\ s # 0
                                      /\ c # 0 /\ lastSequence = s /\ s \in Nat
  BY <1>1, InHand
<1>3. PICK k \in [of : Nat, synced : {-1, 0, 1}] :
         /\ batches' = [batches EXCEPT ![s] = k] /\ k.of = c /\ k.synced # -1
  <2>1. batches[s] = Unstored \/ batches[s].of = c
    <3>1. batches[s] # Unstored => Said(s, batches[s].of) BY DEF Said
    <3>2. batches[s].of \in Nat BY DEF NumberInv, NumberTypes
    <3> QED BY <1>2, <3>1, <3>2 DEF NumberInv, Distinct
  <2>2. Stored(batch.result) \in {0, 1}
    BY DEF Stored, NumberInv, NumberTypes, Round
  <2>3. PICK y \in {0, 1} : y = Stored(batch.result) BY <2>2
  <2> DEFINE k == [of |-> IF batches[s] = Unstored THEN batch.of ELSE batches[s].of,
                   synced |-> Stored(batch.result)]
  <2>4. k = [of |-> c, synced |-> y] BY <1>2, <2>1, <2>3
  <2>5. batches' = [batches EXCEPT ![s] = k] BY <1>2 DEF StoreTelemetry
  <2>6. [of |-> c, synced |-> y] \in [of : Nat, synced : {-1, 0, 1}] OBVIOUS
  <2> HIDE DEF k
  <2>7. k \in [of : Nat, synced : {-1, 0, 1}] /\ k.of = c /\ k.synced = y /\ y # -1
    BY <2>4, <2>6
  <2> QED BY <2>5, <2>7
<1>4. k # Unstored BY <1>2, <1>3 DEF Unstored
<1>5. /\ lastSequence' = s /\ batch' = NoBatch /\ pc' \in {"sync", "records", "beat"}
      /\ UNCHANGED <<beat, late, measured>>
      /\ queue' = queue \/ queue' \subseteq {n \in Numbers : batches'[n] # Unstored}
  <2>1. Max({lastSequence, s}) = s
    <3>1. s \in Int BY <1>2
    <3>2. Max({s, s}) \in {s, s} BY <3>1, MinMax, Zenon
    <3> QED BY <1>2, <3>2
  <2>2. lastSequence' = Max({lastSequence, s}) BY <1>2 DEF StoreTelemetry
  <2>3. /\ batch' = NoBatch /\ pc' \in {"sync", "records", "beat"}
        /\ UNCHANGED <<beat, late, measured>>
    BY DEF StoreTelemetry, AfterTelemetry, centralVars
  <2>4. \/ queue' = queue
        \/ queue' = Oldest({n \in Numbers : batches'[n] # Unstored /\ batches'[n].synced = 0})
    BY DEF StoreTelemetry
  <2>5. \A S : Oldest(S) \subseteq S BY DEF Oldest
  <2>6. queue' = queue \/ queue' \subseteq {n \in Numbers : batches'[n] # Unstored}
    BY <2>4, <2>5
  <2> QED BY <2>1, <2>2, <2>3, <2>6
<1>6. /\ batches' \in [Numbers -> [of : Nat, synced : {-1, 0, 1}]]
      /\ \A r \in Numbers : batches'[r] = IF r = s THEN k ELSE batches[r]
  BY <1>3 DEF NumberInv, NumberTypes
<1>7. NoBatch \in [no : Numbers \cup {0}, of : Nat,
                   result : {"none", "synced", "again", "terminal"}]
      /\ NoBatch.no = 0 /\ NoBatch.result = "none"
  BY DEF NoBatch
<1>8. lastSequence' = lastSequence /\ s # -1 BY <1>2, <1>5
<1>9. Known' = Known BY <1>2, <1>8 DEF Known
<1>10. NumberTypes' BY <1>5, <1>6, <1>7, <1>8 DEF NumberInv, NumberTypes
<1>11. Round'
  <2>1. queue' \subseteq {n \in Numbers : batches'[n] # Unstored}
    BY <1>4, <1>5, <1>6 DEF NumberInv, Round
  <2>2. \A r \in Numbers : batches'[r].synced # -1 BY <1>3, <1>6 DEF NumberInv, Round
  <2> QED BY <1>5, <1>7, <2>1, <2>2 DEF Round
<1>12. \A r \in Numbers : r # 0 BY EdgeSyncAssumption DEF Numbers
<1>13. \A r \in Numbers : \A d \in Nat : Said(r, d)' => Said(r, d)
  BY <1>2, <1>3, <1>5, <1>6, <1>7, <1>12 DEF Said
<1> QED BY <1>9, <1>10, <1>11, <1>13, SaidKept

\* sync_pending_telemetry_batches: a stored batch is sent again.
LEMMA SyncKeepsNumbers ==
    ASSUME NumberInv, NEW a \in Answers, SyncTelemetry(a)
    PROVE  NumberInv'
<1>1. PICK s \in queue : s = Min(queue)
  <2>1. queue # {} /\ queue \in SUBSET Nat
    BY EdgeSyncAssumption DEF SyncTelemetry, NumberInv, Round, Numbers
  <2>2. \E x \in queue : \A y \in queue : x <= y BY <2>1, LeastNumber DEF Minimum
  <2> QED BY <2>2 DEF Min
<1>2. s \in Numbers /\ batches[s] # Unstored BY DEF NumberInv, Round
<1>3. PICK c \in Nat : c = batches[s].of /\ Said(s, c)
  <2>1. batches[s].of \in Nat BY <1>2 DEF NumberInv, NumberTypes
  <2> QED BY <1>2, <2>1 DEF Said
<1>4. c # 0 BY <1>2, <1>3 DEF NumberInv, Distinct
<1>5. /\ CallTelemetry(s, c, a) /\ batches' = [batches EXCEPT ![s].synced = Stored(Outcome(s, c, a))]
      /\ queue' \subseteq queue /\ UNCHANGED <<pc, beat, lastSequence, batch>>
  BY <1>1, <1>3 DEF SyncTelemetry
<1>6. /\ measured' \in [Numbers -> Nat]
      /\ \A m \in late' : m.kind = "telemetry" => m.no \in Numbers /\ m.of \in Nat
      /\ \A r \in Numbers : \A d \in Nat :
            \/ measured'[r] = d /\ d # 0
            \/ \E m \in late' : m.kind = "telemetry" /\ m.no = r /\ m.of = d
            => Said(r, d)
      /\ Outcome(s, c, a) \in {"again", "synced"}
  BY <1>2, <1>3, <1>5, CallTelemetryKeeps
<1>7. PICK y \in {0, 1} : y = Stored(Outcome(s, c, a)) BY <1>6 DEF Stored
<1>8. PICK k \in [of : Nat, synced : {-1, 0, 1}] :
         /\ batches' = [batches EXCEPT ![s] = k] /\ k.of = c /\ k.synced # -1
  <2>1. batches[s] \in [of : Nat, synced : {-1, 0, 1}] BY <1>2 DEF NumberInv, NumberTypes
  <2>2. PICK k : k = [batches[s] EXCEPT !.synced = y] OBVIOUS
  <2>3. k \in [of : Nat, synced : {-1, 0, 1}] /\ k.of = c /\ k.synced # -1
    BY <1>3, <2>1, <2>2
  <2>4. batches' = [batches EXCEPT ![s] = k]
    BY <1>2, <1>5, <1>7, <2>2 DEF NumberInv, NumberTypes
  <2> QED BY <2>3, <2>4
<1>9. k # Unstored BY <1>4, <1>8 DEF Unstored
<1>10. /\ batches' \in [Numbers -> [of : Nat, synced : {-1, 0, 1}]]
       /\ \A r \in Numbers : batches'[r] = IF r = s THEN k ELSE batches[r]
  BY <1>8 DEF NumberInv, NumberTypes
<1>11. \A r \in Numbers : batches'[r] # Unstored <=> batches[r] # Unstored
  BY <1>2, <1>9, <1>10
<1>12. Known' = Known BY <1>5, <1>11, KnownSame
<1>13. NumberTypes' BY <1>5, <1>6, <1>10 DEF NumberInv, NumberTypes
<1>14. Round' BY <1>5, <1>8, <1>10, <1>11 DEF NumberInv, Round
<1>15. \A r \in Numbers : \A d \in Nat : Said(r, d)' => Said(r, d)
  BY <1>2, <1>3, <1>5, <1>6, <1>8, <1>10, <1>11 DEF Said
<1> QED BY <1>12, <1>13, <1>14, <1>15, SaidKept

\* A late request is handled.
LEMMA LateKeepsNumbers ==
    ASSUME NumberInv, NEW m \in late, NEW w \in BOOLEAN, HandleLate(m, w)
    PROVE  NumberInv'
<1>1. /\ late' \subseteq late
      /\ UNCHANGED <<pc, beat, lastSequence, batch, batches, queue>>
  BY DEF HandleLate, agentVars
<1>2. measured \in [Numbers -> Nat]
      /\ (m.kind = "telemetry" => m.no \in Numbers /\ m.of \in Nat /\ Said(m.no, m.of))
  BY DEF NumberInv, NumberTypes, Said
<1>3. \/ measured' = measured
      \/ m.kind = "telemetry" /\ measured' = [measured EXCEPT ![m.no] = m.of]
  <2>1. CASE m.kind = "beat" BY <2>1 DEF HandleLate
  <2>2. CASE m.kind = "telemetry" BY <2>2 DEF HandleLate, TakeTelemetry
  <2>3. CASE m.kind \notin {"beat", "telemetry"} BY <2>3 DEF HandleLate
  <2> QED BY <2>1, <2>2, <2>3
<1>4. Known' = Known BY <1>1 DEF Known
<1>5. measured' \in [Numbers -> Nat] BY <1>2, <1>3
<1>6. NumberTypes' BY <1>1, <1>5 DEF NumberInv, NumberTypes
<1>7. Round' BY <1>1 DEF NumberInv, Round
<1>8. ASSUME NEW r \in Numbers, NEW d \in Nat, measured'[r] = d, d # 0 PROVE Said(r, d)
  <2>1. CASE measured[r] = d BY <1>8, <2>1 DEF Said
  <2>2. CASE measured[r] # d BY <1>2, <1>3, <1>8, <2>2
  <2> QED BY <2>1, <2>2
<1>9. \A r \in Numbers : \A d \in Nat : Said(r, d)' => Said(r, d) BY <1>1, <1>8 DEF Said
<1> QED BY <1>4, <1>6, <1>7, <1>9, SaidKept

\* Every step keeps the numbers apart, until the agent loses its database.
LEMMA NumbersStep == NumbersKept /\ [EdgeStep]_edgeVars => NumbersKept'
<1> SUFFICES ASSUME NumbersKept, [EdgeStep]_edgeVars PROVE NumbersKept' OBVIOUS
<1>1. CASE UNCHANGED edgeVars
  <2>1. UNCHANGED <<renewed, pc, beat, batch, batches, lastSequence, queue, late, measured>>
    BY <1>1 DEF edgeVars, agentVars, centralVars
  <2>2. CASE renewed BY <2>1, <2>2 DEF NumbersKept
  <2>3. CASE ~renewed
    <3>1. NumberInv BY <2>3 DEF NumbersKept
    <3>2. Known' = Known BY <2>1 DEF Known
    <3>3. NumberTypes' BY <2>1, <3>1 DEF NumberInv, NumberTypes
    <3>4. Round' BY <2>1, <3>1 DEF NumberInv, Round
    <3>5. \A s \in Numbers : \A c \in Nat : Said(s, c)' => Said(s, c) BY <2>1 DEF Said
    <3>6. NumberInv' BY <3>1, <3>2, <3>3, <3>4, <3>5, SaidKept
    <3> QED BY <3>6 DEF NumbersKept
  <2> QED BY <2>2, <2>3
<1>2. CASE LoseDatabase BY <1>2 DEF LoseDatabase, NumbersKept
<1>3. CASE EdgeStep /\ ~LoseDatabase
  <2>1. renewed' = renewed
    BY <1>3 DEF EdgeStep, StoreHeartbeat, ReserveSequence, StoreTelemetry, EndTelemetry, Restart,
                SendTelemetry, SyncTelemetry, SendHeartbeat, SyncRecords, HandleLate
  <2>2. CASE renewed BY <2>1, <2>2 DEF NumbersKept
  <2>3. CASE ~renewed
    <3>1. NumberInv BY <2>3 DEF NumbersKept
    <3>2. NumberInv'
      BY <1>3, <3>1, BeatsKeepNumbers, ReserveKeepsNumbers, SendKeepsNumbers, StoreKeepsNumbers,
         SyncKeepsNumbers, LateKeepsNumbers
         DEF EdgeStep
    <3> QED BY <3>2 DEF NumbersKept
  <2> QED BY <2>2, <2>3
<1> QED BY <1>1, <1>2, <1>3

\* At first no number was used, or the first one by a version that kept no sequence state.
LEMMA NumbersInitially == EdgeInit => NumbersKept
<1> SUFFICES ASSUME EdgeInit PROVE NumberInv BY DEF NumbersKept
<1>1. NoBatch \in [no : Numbers \cup {0}, of : Nat,
                   result : {"none", "synced", "again", "terminal"}]
      /\ NoBatch.no = 0 /\ NoBatch.result = "none"
  BY DEF NoBatch
<1>2. \A s \in Numbers : s \in Int /\ s >= 1 BY EdgeSyncAssumption DEF Numbers
<1>3. batch = NoBatch /\ queue = {} /\ late = {} /\ lastSequence = -1 /\ pc = "beat"
  BY DEF EdgeInit
<1>4. /\ Unstored \in [of : Nat, synced : {-1, 0, 1}] /\ Unstored.synced = 0
      /\ [of |-> 1, synced |-> 1] \in [of : Nat, synced : {-1, 0, 1}]
      /\ [of |-> 1, synced |-> 1] # Unstored
  BY DEF Unstored
<1>5. CASE /\ beat = 0 /\ batches = [s \in Numbers |-> Unstored]
           /\ measured = [s \in Numbers |-> 0]
  <2>1. NumberTypes BY <1>1, <1>3, <1>4, <1>5 DEF NumberTypes
  <2>2. \A s \in Numbers : \A c : ~Said(s, c) BY <1>1, <1>2, <1>3, <1>5 DEF Said
  <2>3. Round BY <1>1, <1>3, <1>4, <1>5 DEF Round
  <2>4. Known \in Int
    <3>1. {s \in Numbers : batches[s] # Unstored} \cup {0} = {0, 0} BY <1>5
    <3>2. 0 \in Int OBVIOUS
    <3>3. Max({0, 0}) \in {0, 0} BY <3>2, MinMax, Zenon
    <3> QED BY <1>3, <3>1, <3>3 DEF Known
  <2> QED BY <2>1, <2>2, <2>3, <2>4 DEF NumberInv, Distinct
<1>6. CASE /\ beat = 1
           /\ batches = [s \in Numbers |-> IF s = 1 THEN [of |-> 1, synced |-> 1] ELSE Unstored]
           /\ measured = [s \in Numbers |-> IF s = 1 THEN 1 ELSE 0]
  <2>1. NumberTypes BY <1>1, <1>3, <1>4, <1>6 DEF NumberTypes
  <2>2. \A s \in Numbers : \A c : Said(s, c) => s = 1 /\ c = 1
    BY <1>1, <1>2, <1>3, <1>4, <1>6 DEF Said
  <2>3. Round BY <1>1, <1>3, <1>4, <1>6 DEF Round
  <2>4. Known \in Int /\ Known >= 1
    <3>1. 1 \in Numbers BY EdgeSyncAssumption DEF Numbers
    <3>2. {s \in Numbers : batches[s] # Unstored} \cup {0} = {1, 0} BY <1>4, <1>6, <3>1
    <3>3. 0 \in Int /\ 1 \in Int OBVIOUS
    <3>4. Max({1, 0}) \in {1, 0} /\ Max({1, 0}) >= 1 BY <3>3, MinMax, Zenon
    <3>5. -1 # lastSequence <=> FALSE BY <1>3
    <3>6. Known = Max({1, 0}) BY <3>2, <3>5 DEF Known
    <3> QED BY <3>4, <3>6
  <2> QED BY <2>1, <2>2, <2>3, <2>4 DEF NumberInv, Distinct
<1> QED BY <1>5, <1>6 DEF EdgeInit

\* reserve_telemetry_sequence commits a number before it is used: no batch is refused for good,
\* wherever the agent stops, for every number of records and requests under way.
THEOREM NumbersUsedOnce == EdgeSpec => []NumbersNotReused
<1>1. NumbersKept => NumbersNotReused
  BY DEF NumbersKept, NumberInv, Round, NumbersNotReused
<1> QED BY <1>1, NumbersInitially, NumbersStep, PTL DEF EdgeSpec

-----------------------------------------------------------------------------
(* The archive of an agent's records *)

\* Heartbeat b is known by the local id i: the agent's database, a receipt or a request under
\* way says so.
Filed(i, b) ==
    \/ i \in DOMAIN rows /\ rows[i].beat = b
    \/ i \in DOMAIN receipts /\ receipts[i] = b
    \/ \E m \in late : m.kind = "records" /\ i \in DOMAIN m.sent /\ m.sent[i] = b

ArchiveTypes ==
    /\ beat \in Nat /\ rows \in Seq([beat : Nat, synced : BOOLEAN])
    /\ answered \in BOOLEAN /\ replays \in [Beats -> Nat]

\* A heartbeat has one local id, over all databases of the agent, and is not newer than the
\* current one, which has none before it is stored.
FiledOnce ==
    \A i, b : Filed(i, b) =>
        /\ b \in Nat /\ b <= beat /\ (pc = "store" => b # beat)
        /\ \A j : Filed(j, b) => i = j

\* What was written of a heartbeat, or was acknowledged without
Written(b) ==
    \/ b \in live
    \/ \E j \in DOMAIN receipts : receipts[j] = b
    \/ mode = "shadow" /\ b \in swallowed

Truthful ==
    mode # "memory" => /\ answered => Written(beat)
                       /\ \A i \in DOMAIN rows : rows[i].synced => Written(rows[i].beat)

\* An archived heartbeat has a receipt.
ReplayedOnce ==
    \A b \in Beats : replays[b] = 0 \/ (replays[b] = 1 /\ \E j \in DOMAIN receipts : receipts[j] = b)

KnownKinds == \A m \in late : m.kind \in {"beat", "telemetry", "records"}

ArchiveInv == /\ mode \in {"primary", "shadow", "memory"} /\ KnownKinds
              /\ ArchiveTypes /\ FiledOnce /\ Truthful /\ ReplayedOnce

\* Receipts and what was written only grow.
CentralGrows ==
    /\ mode' = mode /\ live \subseteq live' /\ swallowed \subseteq swallowed'
    /\ DOMAIN receipts \subseteq DOMAIN receipts'
    /\ \A j \in DOMAIN receipts : receipts'[j] = receipts[j]

\* What was written stays so.
LEMMA WrittenStays == CentralGrows => \A b : Written(b) => Written(b)'
BY DEF CentralGrows, Written

\* A step that files nothing new.
LEMMA FiledKept ==
    ASSUME FiledOnce, UNCHANGED beat, pc' = "store" => pc = "store",
           \A i, b : Filed(i, b)' => Filed(i, b)
    PROVE  FiledOnce'
<1> SUFFICES ASSUME NEW i, NEW b, Filed(i, b)'
             PROVE  /\ b \in Nat /\ b <= beat' /\ (pc' = "store" => b # beat')
                    /\ \A j : Filed(j, b)' => i = j
  BY DEF FiledOnce
<1>1. Filed(i, b) OBVIOUS
<1>2. b \in Nat /\ b <= beat /\ (pc = "store" => b # beat) /\ \A j : Filed(j, b) => i = j
  BY <1>1 DEF FiledOnce
<1> QED BY <1>2

\* persist_synced_node_records: what is sent was filed, and is archived only without a receipt.
LEMMA TakeRecordsKeeps ==
    ASSUME ArchiveInv, NEW body, NEW w \in BOOLEAN,
           \A i \in DOMAIN body : Filed(i, body[i]), ~Conflict(body), TakeRecords(body, w),
           UNCHANGED <<mode, live>>
    PROVE  /\ CentralGrows
           /\ \A i \in DOMAIN receipts' : i \in DOMAIN receipts \/ i \in DOMAIN body
           /\ \A i \in DOMAIN receipts' : i \notin DOMAIN receipts => receipts'[i] = body[i]
           /\ replays' \in [Beats -> Nat] /\ ReplayedOnce'
           /\ mode # "memory" /\ Acknowledged(w) => \A i \in DOMAIN body : Written(body[i])'
<1> DEFINE new == DOMAIN body \ Received(body)
           arch(b) == {i \in new : mode # "memory" /\ body[i] = b}
<1>0. Received(body) = DOMAIN body \cap DOMAIN receipts BY DEF Received
<1>1. CASE ~w /\ mode # "memory"
  <2>1. /\ swallowed' = IF Acknowledged(w) THEN swallowed \cup {body[i] : i \in new} ELSE swallowed
        /\ UNCHANGED <<receipts, replays>>
    BY <1>1 DEF TakeRecords
  <2>2. CentralGrows BY <2>1 DEF CentralGrows
  <2>3. replays' \in [Beats -> Nat] /\ ReplayedOnce'
    BY <2>1 DEF ArchiveInv, ArchiveTypes, ReplayedOnce
  <2>4. ASSUME Acknowledged(w), NEW i \in DOMAIN body PROVE Written(body[i])'
    <3>1. mode = "shadow" BY <1>1, <2>4 DEF Acknowledged, ArchiveInv
    <3>2. CASE i \in new BY <2>1, <2>4, <3>1, <3>2 DEF Written
    <3>3. CASE i \notin new
      <4>1. i \in DOMAIN receipts /\ receipts[i] = body[i]
        BY <1>0, <1>1, <3>3 DEF Conflict
      <4> QED BY <2>1, <4>1 DEF Written
    <3> QED BY <3>2, <3>3
  <2> QED BY <2>1, <2>2, <2>3, <2>4
<1>2. CASE w \/ mode = "memory"
  <2>1. /\ receipts' = [i \in DOMAIN receipts \cup new |-> IF i \in new THEN body[i] ELSE receipts[i]]
        /\ replays' = [b \in Beats |-> replays[b] + Cardinality(arch(b))]
        /\ UNCHANGED swallowed
    BY <1>2 DEF TakeRecords
  <2>2. /\ DOMAIN receipts' = DOMAIN receipts \cup new
        /\ \A j \in DOMAIN receipts : receipts'[j] = receipts[j]
        /\ \A j \in new : receipts'[j] = body[j] /\ j \notin DOMAIN receipts
    BY <1>0, <2>1
  <2>3. CentralGrows BY <2>1, <2>2 DEF CentralGrows
  <2>4. ASSUME NEW b \in Beats
        PROVE  \/ Cardinality(arch(b)) = 0 /\ replays'[b] = replays[b]
               \/ /\ replays[b] = 0 /\ replays'[b] = 1
                  /\ \E j \in DOMAIN receipts' : receipts'[j] = b
    <3>0. replays[b] \in Nat /\ replays'[b] = replays[b] + Cardinality(arch(b))
      BY <2>1 DEF ArchiveInv, ArchiveTypes
    <3>1. CASE arch(b) = {}
      <4>1. Cardinality(arch(b)) = 0 BY <3>1, FS_EmptySet
      <4> QED BY <3>0, <4>1
    <3>2. CASE arch(b) # {}
      <4>1. PICK k \in new : k \in arch(b) /\ body[k] = b BY <3>2
      <4>2. Filed(k, b) BY <4>1
      <4>3. \A j : Filed(j, b) => j = k BY <4>2 DEF ArchiveInv, FiledOnce
      <4>4. arch(b) = {k} BY <4>1, <4>3
      <4>5. Cardinality(arch(b)) = 1 BY <4>4, FS_Singleton
      <4>6. \A j \in DOMAIN receipts : receipts[j] # b
        <5> SUFFICES ASSUME NEW j \in DOMAIN receipts, receipts[j] = b PROVE FALSE OBVIOUS
        <5>1. Filed(j, b) BY DEF Filed
        <5>2. j = k BY <4>3, <5>1
        <5> QED BY <2>2, <4>1, <5>2
      <4>7. replays[b] = 0 BY <4>6 DEF ArchiveInv, ReplayedOnce
      <4>8. k \in DOMAIN receipts' /\ receipts'[k] = b BY <2>2, <4>1
      <4> QED BY <3>0, <4>5, <4>7, <4>8
    <3> QED BY <3>1, <3>2
  <2>5. replays' \in [Beats -> Nat]
    <3>1. \A b \in Beats : replays[b] \in Nat BY DEF ArchiveInv, ArchiveTypes
    <3>2. ASSUME NEW b \in Beats PROVE replays'[b] \in Nat
      <4>1. replays'[b] = replays[b] \/ replays'[b] = 1 BY <2>4
      <4> QED BY <3>1, <4>1
    <3>3. replays' = [b \in Beats |-> replays'[b]] BY <2>1
    <3> HIDE DEF arch, new
    <3> QED BY <3>2, <3>3
  <2>6. ReplayedOnce'
    <3> SUFFICES ASSUME NEW b \in Beats
                 PROVE  \/ replays'[b] = 0
                        \/ replays'[b] = 1 /\ \E j \in DOMAIN receipts' : receipts'[j] = b
      BY DEF ReplayedOnce, Beats
    <3> QED BY <2>2, <2>4, ZenonT(60) DEF ArchiveInv, ReplayedOnce
  <2>7. ASSUME mode # "memory", NEW i \in DOMAIN body PROVE Written(body[i])'
    <3>1. CASE i \in new BY <2>2, <3>1 DEF Written
    <3>2. CASE i \notin new
      <4>1. i \in DOMAIN receipts /\ receipts[i] = body[i] BY <1>0, <2>7, <3>2 DEF Conflict
      <4> QED BY <2>2, <4>1 DEF Written
    <3> QED BY <3>1, <3>2
  <2> HIDE DEF new
  <2>8. new \subseteq DOMAIN body BY DEF new
  <2> QED BY <2>2, <2>3, <2>5, <2>6, <2>7, <2>8
<1> QED BY <1>1, <1>2

\* A heartbeat that is taken is written, or acknowledged without.
LEMMA TakeHeartbeatKeeps ==
    ASSUME ArchiveInv, NEW b, NEW w \in BOOLEAN, TakeHeartbeat(b, w), UNCHANGED <<mode, receipts>>
    PROVE  /\ CentralGrows
           /\ mode # "memory" /\ Acknowledged(w) => Written(b)'
<1>1. /\ live' = IF w THEN live \cup {b} ELSE live
      /\ swallowed' = IF ~w /\ Acknowledged(w) THEN swallowed \cup {b} ELSE swallowed
  BY DEF TakeHeartbeat
<1>2. CentralGrows BY <1>1 DEF CentralGrows
<1>3. ASSUME mode # "memory", Acknowledged(w) PROVE Written(b)'
  <2>1. CASE w BY <1>1, <2>1 DEF Written
  <2>2. CASE ~w BY <1>1, <1>3, <2>2 DEF Written, Acknowledged, ArchiveInv
  <2> QED BY <2>1, <2>2
<1> QED BY <1>2, <1>3

\* send_heartbeat: the next heartbeat has no local id yet.
LEMMA BeatArchive ==
    ASSUME ArchiveInv, NEW a \in Answers, NEW w \in BOOLEAN, SendHeartbeat(a, w)
    PROVE  ArchiveInv'
<1>1. /\ pc' = "store" /\ beat' = beat + 1 /\ UNCHANGED <<mode, rows, receipts, replays>>
      /\ answered' = (a = "yes" /\ Acknowledged(w))
      /\ IF a = "yes" THEN TakeHeartbeat(beat + 1, w) ELSE UNCHANGED <<live, swallowed>>
      /\ late' = late \/ late' = late \cup {Request("beat", beat + 1, 0, <<>>)}
      /\ beat \in Nat
  BY DEF SendHeartbeat, ArchiveInv, ArchiveTypes
<1>2. PICK n \in Nat : n = beat + 1 BY <1>1
<1>3. CentralGrows /\ (mode # "memory" /\ answered' => Written(n)')
  <2>1. CASE a = "yes"
    <3>1. TakeHeartbeat(n, w) BY <1>1, <1>2, <2>1
    <3>2. CentralGrows /\ (mode # "memory" /\ Acknowledged(w) => Written(n)')
      BY <1>1, <3>1, TakeHeartbeatKeeps
    <3> QED BY <1>1, <3>2
  <2>2. CASE a # "yes" BY <1>1, <2>2 DEF CentralGrows
  <2> QED BY <2>1, <2>2
<1>4. \A i, b : Filed(i, b)' => Filed(i, b)
  <2>1. \A m \in late' : m.kind = "records" => m \in late BY <1>1 DEF Request
  <2> QED BY <1>1, <2>1 DEF Filed
<1>5. FiledOnce'
  <2> SUFFICES ASSUME NEW i, NEW b, Filed(i, b)'
               PROVE  /\ b \in Nat /\ b <= beat' /\ (pc' = "store" => b # beat')
                      /\ \A j : Filed(j, b)' => i = j
    BY DEF FiledOnce
  <2>1. b \in Nat /\ b <= beat /\ \A j : Filed(j, b) => i = j
    BY <1>4 DEF ArchiveInv, FiledOnce
  <2> QED BY <1>1, <1>4, <2>1
<1>6. ArchiveTypes' BY <1>1 DEF ArchiveInv, ArchiveTypes
<1>7. Truthful'
  <2>1. \A b : Written(b) => Written(b)' BY <1>3, WrittenStays
  <2>2. mode' = mode BY <1>1
  <2> QED BY <1>1, <1>2, <1>3, <2>1, <2>2 DEF ArchiveInv, Truthful
<1>8. ReplayedOnce' BY <1>1 DEF ArchiveInv, ReplayedOnce
<1>9. KnownKinds' BY <1>1 DEF ArchiveInv, KnownKinds, Request
<1>10. mode' = mode BY <1>1
<1> QED BY <1>5, <1>6, <1>7, <1>8, <1>9, <1>10 DEF ArchiveInv

\* store_heartbeat: the heartbeat gets its one local id.
LEMMA StoreArchive == ASSUME ArchiveInv, StoreHeartbeat PROVE ArchiveInv'
<1>1. /\ pc = "store" /\ pc' = "reserve" /\ rows' = Append(rows, [beat |-> beat, synced |-> answered])
      /\ UNCHANGED <<mode, beat, answered, late, live, receipts, replays, swallowed>>
  BY DEF StoreHeartbeat, centralVars
<1>2. /\ rows \in Seq([beat : Nat, synced : BOOLEAN]) /\ beat \in Nat /\ answered \in BOOLEAN
      /\ Len(rows) \in Nat /\ DOMAIN rows = 1..Len(rows)
  BY DEF ArchiveInv, ArchiveTypes
<1>3. PICK n \in Nat : n = Len(rows) + 1 BY <1>2
<1>4. PICK r \in [beat : Nat, synced : BOOLEAN] : r = [beat |-> beat, synced |-> answered]
  BY <1>2
<1>5. r.beat = beat /\ r.synced = answered BY <1>4
<1>6. /\ rows' \in Seq([beat : Nat, synced : BOOLEAN]) /\ rows'[n] = r
      /\ DOMAIN rows' = DOMAIN rows \cup {n} /\ n \notin DOMAIN rows
      /\ \A i \in DOMAIN rows : rows'[i] = rows[i]
  <2>1. rows' = Append(rows, r) BY <1>1, <1>4
  <2>2. rows' \in Seq([beat : Nat, synced : BOOLEAN]) /\ Len(rows') = n BY <1>2, <1>3, <2>1
  <2>3. DOMAIN rows' = 1..n BY <2>2
  <2>4. rows'[n] = r /\ \A i \in 1..Len(rows) : rows'[i] = rows[i] BY <1>2, <1>3, <2>1
  <2>5. 1..n = 1..Len(rows) \cup {n} /\ n \notin 1..Len(rows) BY <1>2, <1>3
  <2> QED BY <1>2, <2>2, <2>3, <2>4, <2>5
<1>7. \A i, b : Filed(i, b)' => Filed(i, b) \/ (i = n /\ b = beat) BY <1>1, <1>5, <1>6 DEF Filed
<1>8. \A i : ~Filed(i, beat) BY <1>1 DEF ArchiveInv, FiledOnce
<1>9. FiledOnce'
  <2> SUFFICES ASSUME NEW i, NEW b, Filed(i, b)'
               PROVE  b \in Nat /\ b <= beat /\ \A j : Filed(j, b)' => i = j
    BY <1>1 DEF FiledOnce
  <2>1. CASE b = beat BY <1>2, <1>7, <1>8, <2>1
  <2>2. CASE b # beat BY <1>7, <2>2 DEF ArchiveInv, FiledOnce
  <2> QED BY <2>1, <2>2
<1>10. ArchiveTypes' BY <1>1, <1>2, <1>6 DEF ArchiveInv, ArchiveTypes
<1>11. Truthful'
  <2>1. \A b : Written(b)' <=> Written(b) BY <1>1 DEF Written
  <2> QED BY <1>1, <1>5, <1>6, <2>1 DEF ArchiveInv, Truthful
<1>12. ReplayedOnce' BY <1>1 DEF ArchiveInv, ReplayedOnce
<1>13. KnownKinds' BY <1>1 DEF ArchiveInv, KnownKinds
<1>14. mode' = mode BY <1>1
<1> QED BY <1>9, <1>10, <1>11, <1>12, <1>13, <1>14 DEF ArchiveInv

\* sync_pending_records: only what the answer covers is marked.
LEMMA SyncArchive ==
    ASSUME ArchiveInv, NEW a \in Answers, NEW w \in BOOLEAN, SyncRecords(a, w)
    PROVE  ArchiveInv'
<1>1. PICK ids, body, ok :
         /\ ids \subseteq DOMAIN rows /\ ok \in BOOLEAN
         /\ body = [i \in ids |-> rows[i].beat]
         /\ ok <=> a = "yes" /\ ~Conflict(body) /\ (ids # {} => Acknowledged(w))
         /\ IF a = "yes" /\ ids # {} /\ ~Conflict(body) THEN TakeRecords(body, w)
            ELSE UNCHANGED <<receipts, replays, swallowed>>
         /\ rows' = [i \in DOMAIN rows |->
                       [rows[i] EXCEPT !.synced = @ \/ (i \in ids /\ ok)]]
         /\ late' = late \/ late' = late \cup {Request("records", 0, 0, body)}
  <2> DEFINE ids == Oldest({i \in DOMAIN rows : ~rows[i].synced})
             body == [i \in ids |-> rows[i].beat]
             ok == a = "yes" /\ ~Conflict(body) /\ (ids # {} => Acknowledged(w))
  <2>1. ids \subseteq DOMAIN rows BY DEF Oldest
  <2>2. ok \in BOOLEAN OBVIOUS
  <2>3. /\ IF a = "yes" /\ ids # {} /\ ~Conflict(body) THEN TakeRecords(body, w)
           ELSE UNCHANGED <<receipts, replays, swallowed>>
        /\ rows' = [i \in DOMAIN rows |->
                      [rows[i] EXCEPT !.synced = @ \/ (i \in ids /\ ok)]]
        /\ late' = late \/ late' = late \cup {Request("records", 0, 0, body)}
    BY DEF SyncRecords, Marks
  <2>4. body = [i \in ids |-> rows[i].beat] OBVIOUS
  <2>5. ok <=> a = "yes" /\ ~Conflict(body) /\ (ids # {} => Acknowledged(w)) OBVIOUS
  <2> HIDE DEF ids, body, ok
  <2> QED BY <2>1, <2>2, <2>3, <2>4, <2>5
<1>2. pc' = "beat" /\ UNCHANGED <<mode, beat, answered, live>> BY DEF SyncRecords
<1>3. /\ rows \in Seq([beat : Nat, synced : BOOLEAN]) /\ beat \in Nat /\ answered \in BOOLEAN
      /\ Len(rows) \in Nat /\ DOMAIN rows = 1..Len(rows)
      /\ \A i \in DOMAIN rows : rows[i] \in [beat : Nat, synced : BOOLEAN]
  <2> DEFINE Row == [beat : Nat, synced : BOOLEAN]
  <2>1. rows \in Seq(Row) /\ beat \in Nat /\ answered \in BOOLEAN BY DEF ArchiveInv, ArchiveTypes
  <2> HIDE DEF Row
  <2>2. Len(rows) \in Nat /\ DOMAIN rows = 1..Len(rows) /\ \A i \in 1..Len(rows) : rows[i] \in Row
    BY <2>1
  <2>3. \A i \in DOMAIN rows : rows[i] \in Row BY <2>2
  <2> QED BY <2>1, <2>2, <2>3 DEF Row
<1>4. \A i \in DOMAIN body : Filed(i, body[i]) BY <1>1 DEF Filed
<1>5. /\ CentralGrows
      /\ \A i \in DOMAIN receipts' : i \in DOMAIN receipts \/ i \in DOMAIN body
      /\ \A i \in DOMAIN receipts' : i \notin DOMAIN receipts => receipts'[i] = body[i]
      /\ replays' \in [Beats -> Nat] /\ ReplayedOnce'
      /\ mode # "memory" /\ ok => \A i \in ids : Written(body[i])'
  <2>1. CASE a = "yes" /\ ids # {} /\ ~Conflict(body)
    <3>1. TakeRecords(body, w) BY <1>1, <2>1
    <3>2. DOMAIN body = ids BY <1>1
    <3> QED BY <1>1, <1>2, <1>4, <2>1, <3>1, <3>2, TakeRecordsKeeps
  <2>2. CASE ~(a = "yes" /\ ids # {} /\ ~Conflict(body))
    BY <1>1, <1>2, <2>2 DEF CentralGrows, ArchiveInv, ArchiveTypes, ReplayedOnce
  <2> QED BY <2>1, <2>2
<1>6. ASSUME NEW i \in DOMAIN rows
      PROVE  /\ rows'[i] \in [beat : Nat, synced : BOOLEAN] /\ rows'[i].beat = rows[i].beat
             /\ rows'[i].synced => rows[i].synced \/ (i \in ids /\ ok)
  <2>1. PICK r \in [beat : Nat, synced : BOOLEAN] : r = rows[i] BY <1>3
  <2>2. PICK x \in BOOLEAN : x <=> (r.synced \/ (i \in ids /\ ok)) OBVIOUS
  <2>3. r.synced \in BOOLEAN OBVIOUS
  <2>4. (r.synced \/ (i \in ids /\ ok)) = x BY <2>2
  <2>5. rows'[i] = [r EXCEPT !.synced = x] BY <1>1, <2>1, <2>4
  <2>6. /\ [r EXCEPT !.synced = x] \in [beat : Nat, synced : BOOLEAN]
        /\ [r EXCEPT !.synced = x].beat = r.beat /\ [r EXCEPT !.synced = x].synced = x
    OBVIOUS
  <2> QED BY <2>1, <2>2, <2>5, <2>6
<1>7. rows' \in Seq([beat : Nat, synced : BOOLEAN]) /\ DOMAIN rows' = DOMAIN rows
  <2>1. DOMAIN rows' = 1..Len(rows) BY <1>1, <1>3
  <2>2. rows' \in [1..Len(rows) -> [beat : Nat, synced : BOOLEAN]] BY <1>1, <1>3, <1>6
  <2> QED BY <1>3, <2>1, <2>2
<1>8. \A i, b : Filed(i, b)' => Filed(i, b)
  <2>1. \A m \in late' : m \in late \/ m.sent = body BY <1>1 DEF Request
  <2> SUFFICES ASSUME NEW i, NEW b, Filed(i, b)' PROVE Filed(i, b) OBVIOUS
  <2>2. CASE i \in DOMAIN rows' /\ rows'[i].beat = b BY <1>6, <1>7, <2>2 DEF Filed
  <2>3. CASE i \in DOMAIN receipts' /\ receipts'[i] = b
    <3>1. CASE i \in DOMAIN receipts BY <1>5, <2>3, <3>1 DEF Filed, CentralGrows
    <3>2. CASE i \notin DOMAIN receipts
      <4>1. i \in DOMAIN body /\ body[i] = b BY <1>5, <2>3, <3>2
      <4> QED BY <1>4, <4>1
    <3> QED BY <3>1, <3>2
  <2>4. CASE \E m \in late' : m.kind = "records" /\ i \in DOMAIN m.sent /\ m.sent[i] = b
    <3>1. PICK m \in late' : m.kind = "records" /\ i \in DOMAIN m.sent /\ m.sent[i] = b BY <2>4
    <3>2. CASE m \in late BY <3>1, <3>2 DEF Filed
    <3>3. CASE m.sent = body
      <4>1. i \in DOMAIN body /\ body[i] = b BY <3>1, <3>3
      <4> QED BY <1>4, <4>1
    <3> QED BY <2>1, <3>2, <3>3
  <2> QED BY <2>2, <2>3, <2>4 DEF Filed
<1>9. FiledOnce' BY <1>2, <1>8, FiledKept DEF ArchiveInv
<1>10. ArchiveTypes' BY <1>2, <1>3, <1>5, <1>7 DEF ArchiveTypes
<1>11. Truthful'
  <2>1. \A b : Written(b) => Written(b)' BY <1>5, WrittenStays
  <2>2. ASSUME mode # "memory", NEW i \in DOMAIN rows, rows'[i].synced, NEW b, b = rows[i].beat
        PROVE  Written(b)'
    <3>1. CASE rows[i].synced
      <4>1. Written(b) BY <2>2, <3>1 DEF ArchiveInv, Truthful
      <4> QED BY <2>1, <4>1
    <3>2. CASE i \in ids /\ ok
      <4>1. Written(body[i])' BY <1>5, <2>2, <3>2
      <4>2. body[i] = b BY <1>1, <2>2, <3>2
      <4> QED BY <4>1, <4>2
    <3> QED BY <1>6, <2>2, <3>1, <3>2
  <2>3. mode # "memory" /\ answered' => Written(beat)'
    <3>1. PICK b : b = beat OBVIOUS
    <3>2. mode # "memory" /\ answered => Written(b)' BY <2>1, <3>1 DEF ArchiveInv, Truthful
    <3>3. beat' = b BY <1>2, <3>1
    <3> QED BY <1>2, <3>2, <3>3 DEF Written
  <2>4. ASSUME mode # "memory", NEW i \in DOMAIN rows, rows'[i].synced PROVE Written(rows[i].beat)'
    <3>1. PICK b : b = rows[i].beat OBVIOUS
    <3>2. Written(b)' BY <2>2, <2>4, <3>1
    <3>3. rows'[i].beat = b BY <1>6, <3>1
    <3> QED BY <3>2, <3>3 DEF Written
  <2> QED BY <1>2, <1>7, <2>3, <2>4 DEF Truthful
<1>12. KnownKinds' BY <1>1 DEF ArchiveInv, KnownKinds, Request
<1>13. mode' = mode BY <1>2
<1> QED BY <1>5, <1>9, <1>10, <1>11, <1>12, <1>13 DEF ArchiveInv

\* A late request is handled: what it files was filed.
LEMMA LateArchive ==
    ASSUME ArchiveInv, NEW m \in late, NEW w \in BOOLEAN, HandleLate(m, w)
    PROVE  ArchiveInv'
<1>1. late' \subseteq late /\ UNCHANGED <<mode, pc, beat, answered, rows>>
  BY DEF HandleLate, agentVars
<1>2. /\ CentralGrows
      /\ \A i \in DOMAIN receipts' : i \in DOMAIN receipts \/ Filed(i, receipts'[i])
      /\ replays' \in [Beats -> Nat] /\ ReplayedOnce'
  <2>1. CASE m.kind = "beat"
    <3>1. TakeHeartbeat(m.no, w) /\ UNCHANGED <<receipts, replays>> BY <2>1 DEF HandleLate
    <3>2. CentralGrows BY <1>1, <3>1, TakeHeartbeatKeeps
    <3> QED BY <3>1, <3>2 DEF ArchiveInv, ArchiveTypes, ReplayedOnce
  <2>2. CASE m.kind = "telemetry"
    <3>1. UNCHANGED <<live, swallowed, receipts, replays>> BY <2>2 DEF HandleLate
    <3> QED BY <1>1, <3>1 DEF ArchiveInv, ArchiveTypes, ReplayedOnce, CentralGrows
  <2>3. CASE m.kind \notin {"beat", "telemetry"}
    <3>1. /\ IF Conflict(m.sent) THEN UNCHANGED <<receipts, replays, swallowed>>
             ELSE TakeRecords(m.sent, w)
          /\ UNCHANGED <<live, measured>>
      BY <2>3 DEF HandleLate
    <3>2. CASE Conflict(m.sent)
      BY <1>1, <3>1, <3>2 DEF ArchiveInv, ArchiveTypes, ReplayedOnce, CentralGrows
    <3>3. CASE ~Conflict(m.sent)
      <4>0. m.kind = "records" BY <2>3 DEF ArchiveInv, KnownKinds
      <4>1. \A i \in DOMAIN m.sent : Filed(i, m.sent[i]) BY <4>0 DEF Filed
      <4>2. PICK body : body = m.sent OBVIOUS
      <4>3. /\ \A i \in DOMAIN body : Filed(i, body[i])
            /\ ~Conflict(body) /\ TakeRecords(body, w)
        BY <3>1, <3>3, <4>1, <4>2
      <4> QED BY <1>1, <3>1, <4>3, TakeRecordsKeeps
    <3> QED BY <3>2, <3>3
  <2> QED BY <2>1, <2>2, <2>3
<1>3. \A i, b : Filed(i, b)' => Filed(i, b) BY <1>1, <1>2 DEF Filed, CentralGrows
<1>4. FiledOnce' BY <1>1, <1>3, FiledKept DEF ArchiveInv
<1>5. ArchiveTypes' BY <1>1, <1>2 DEF ArchiveInv, ArchiveTypes
<1>6. Truthful'
  <2>1. \A b : Written(b) => Written(b)' BY <1>2, WrittenStays
  <2> QED BY <1>1, <2>1 DEF ArchiveInv, Truthful
<1> QED BY <1>1, <1>2, <1>4, <1>5, <1>6 DEF ArchiveInv, KnownKinds

\* The steps that concern telemetry only, stops of the agent and the loss of its database.
LEMMA OthersArchive ==
    ASSUME ArchiveInv,
           \/ \E a \in Answers : SendTelemetry(a) \/ SyncTelemetry(a)
           \/ ReserveSequence \/ StoreTelemetry \/ EndTelemetry \/ Restart \/ LoseDatabase
    PROVE  ArchiveInv'
<1>1. /\ UNCHANGED <<mode, beat, live, receipts, replays, swallowed>>
      /\ rows' = rows \/ rows' = <<>>
      /\ answered' = answered \/ answered' = FALSE
      /\ pc' \in {"send", "keep", "sync", "records", "beat"}
      /\ \A m \in late' : m \in late \/ m.kind = "telemetry"
  <2>1. ASSUME NEW s, NEW c, NEW a \in Answers, CallTelemetry(s, c, a)
        PROVE  \A m \in late' : m \in late \/ m.kind = "telemetry"
    BY <2>1 DEF CallTelemetry, Request
  <2>2. ASSUME NEW a \in Answers, SendTelemetry(a)
        PROVE  /\ UNCHANGED <<mode, beat, live, receipts, replays, swallowed, rows, answered>>
               /\ pc' = "keep"
               /\ \A m \in late' : m \in late \/ m.kind = "telemetry"
    BY <2>1, <2>2 DEF SendTelemetry
  <2>3. ASSUME NEW a \in Answers, SyncTelemetry(a)
        PROVE  /\ UNCHANGED <<mode, beat, live, receipts, replays, swallowed, rows, answered>>
               /\ pc' = "sync"
               /\ \A m \in late' : m \in late \/ m.kind = "telemetry"
    BY <2>1, <2>3 DEF SyncTelemetry
  <2>4. CASE ReserveSequence BY <2>4 DEF ReserveSequence, centralVars
  <2>5. CASE StoreTelemetry BY <2>5 DEF StoreTelemetry, centralVars, AfterTelemetry
  <2>6. CASE EndTelemetry BY <2>6 DEF EndTelemetry, centralVars, AfterTelemetry
  <2>7. CASE Restart BY <2>7 DEF Restart, centralVars
  <2>8. CASE LoseDatabase BY <2>8 DEF LoseDatabase, NewDatabase, centralVars
  <2> QED BY <2>2, <2>3, <2>4, <2>5, <2>6, <2>7, <2>8
<1>2. DOMAIN <<>> = {} /\ <<>> \in Seq([beat : Nat, synced : BOOLEAN]) OBVIOUS
<1>3. \A i, b : Filed(i, b)' => Filed(i, b)
  <2>1. \A m \in late' : m.kind = "records" => m \in late BY <1>1
  <2> QED BY <1>1, <1>2, <2>1 DEF Filed
<1>4. FiledOnce' BY <1>1, <1>3, FiledKept DEF ArchiveInv
<1>5. ArchiveTypes' BY <1>1, <1>2 DEF ArchiveInv, ArchiveTypes
<1>6. Truthful'
  <2>1. \A b : Written(b)' <=> Written(b) BY <1>1 DEF Written
  <2> QED BY <1>1, <1>2, <2>1 DEF ArchiveInv, Truthful
<1>7. ReplayedOnce' BY <1>1 DEF ArchiveInv, ReplayedOnce
<1> QED BY <1>1, <1>4, <1>5, <1>6, <1>7 DEF ArchiveInv, KnownKinds

\* Every step keeps the archive.
LEMMA ArchiveStep == ArchiveInv /\ [EdgeStep]_edgeVars => ArchiveInv'
<1> SUFFICES ASSUME ArchiveInv, [EdgeStep]_edgeVars PROVE ArchiveInv' OBVIOUS
<1>1. CASE UNCHANGED edgeVars
  <2>1. UNCHANGED <<mode, beat, answered, rows, pc, late, live, receipts, replays, swallowed>>
    BY <1>1 DEF edgeVars, agentVars, centralVars
  <2>2. FiledOnce'
    <3>1. \A i, b : Filed(i, b)' => Filed(i, b) BY <2>1 DEF Filed
    <3> QED BY <2>1, <3>1, FiledKept DEF ArchiveInv
  <2>3. \A b : Written(b)' <=> Written(b) BY <2>1 DEF Written
  <2>4. Truthful' BY <2>1, <2>3 DEF ArchiveInv, Truthful
  <2>5. ArchiveTypes' /\ ReplayedOnce' BY <2>1 DEF ArchiveInv, ArchiveTypes, ReplayedOnce
  <2> QED BY <2>1, <2>2, <2>4, <2>5 DEF ArchiveInv, KnownKinds
<1>2. CASE EdgeStep
  BY <1>2, BeatArchive, StoreArchive, SyncArchive, LateArchive, OthersArchive DEF EdgeStep
<1> QED BY <1>1, <1>2

\* Nothing is filed at first.
LEMMA ArchiveInitially == EdgeInit => ArchiveInv
<1> SUFFICES ASSUME EdgeInit PROVE ArchiveInv OBVIOUS
<1>1. /\ rows = <<>> /\ receipts = <<>> /\ late = {} /\ beat \in Nat /\ answered = FALSE
      /\ replays = [b \in Beats |-> 0] /\ mode \in {"primary", "shadow", "memory"}
  BY DEF EdgeInit
<1>2. DOMAIN <<>> = {} /\ <<>> \in Seq([beat : Nat, synced : BOOLEAN]) OBVIOUS
<1>3. \A i, b : ~Filed(i, b) BY <1>1, <1>2 DEF Filed
<1> QED BY <1>1, <1>2, <1>3 DEF ArchiveInv, ArchiveTypes, FiledOnce, Truthful, ReplayedOnce, KnownKinds

\* main and persist_synced_node_records: what the agent's database calls synced was written, or
\* acknowledged without by a shadow, and a record that is sent again is archived once, over lost
\* and late answers, stops of the agent and the loss of its database.
THEOREM RecordsArchivedOnce == EdgeSpec => []ArchivedOnce
<1>1. ArchiveInv => ArchivedOnce
  BY DEF ArchiveInv, Truthful, Written, ReplayedOnce, ArchivedOnce
<1> QED BY <1>1, ArchiveInitially, ArchiveStep, PTL DEF EdgeSpec

-----------------------------------------------------------------------------
(* Parts and claims *)

PartStates ==
    [status : {"none", "ready", "claimed", "completed"}, at : Workshops \cup {"none"}, token : Nat]
Copies == [id : Parts, copy : PartStates]
Claims == {Nothing} \cup [id : Parts, token : Nat \ {0}]
Work == [op : {"none", "create", "consume", "claim", "complete"}, at : Workshops \cup {"none"},
         left : Nat, done : Claims, unsaved : SUBSET Copies]

FlowTypes ==
    /\ mark \in Int /\ mark >= -1 /\ count \in Nat /\ sent \in Nat /\ made \in Nat /\ created \in Nat
    /\ last \in Nat /\ \A b \in beats : b.no \in Nat /\ b.count \in Nat

QueueTypes ==
    /\ part \in [Parts -> PartStates] /\ row \in [Parts -> PartStates]
    /\ seq \in Nat /\ token \in Nat /\ born \in [Parts -> Nat]

ThreadTypes == thread \in [Threads -> Work] /\ holds \in [Workshops -> Claims]

PartTypes == FlowTypes /\ QueueTypes /\ ThreadTypes

\* No part has an id that was not given, and only a completed part, which may have left the
\* queue since, has begotten another one.
QueueInv ==
    /\ \A i \in Parts : i > seq => part[i] = NoPart
    /\ \A i \in Parts :
          \/ i \in torn \/ born[i] = 0
          \/ born[i] = 1 /\ i <= seq /\ part[i].status \in {"completed", "none"}

\* What a step that leads to the queue q may do to the parts: a part that is worked on changes
\* only when its claim has run out, when it is set back or cut, or when the holder of token k
\* completes it; and no id is given that a part has had.
ChangesTo(q, k) ==
    \A i \in Parts :
       /\ \/ q[i] = part[i] \/ i \in torn' \/ (q[i] = NoPart /\ i \in cut')
          \/ part[i].status = "ready" \/ i > seq
          \/ part[i].status = "claimed" /\ part[i].token \in expired
          \/ part[i].status = "claimed" /\ part[i].token = k /\ q[i].status = "completed"
       /\ \/ born'[i] = born[i]
          \/ /\ born'[i] = born[i] + 1 /\ part[i].status = "claimed"
             /\ q[i].status \in {"completed", "none"}
       /\ i > seq' => q[i] = NoPart
       /\ i <= seq => i <= seq' \/ i \in torn'

Changes(k) == ChangesTo(part', k)

\* Such a step keeps the queue.
LEMMA ChangesKeepQueue ==
    ASSUME QueueTypes, QueueInv, NEW k, Changes(k), torn \subseteq torn'
    PROVE  QueueInv'
<1> USE DEF Changes
<1>0. NoPart.status = "none" BY DEF NoPart
<1>1. ASSUME NEW i \in Parts
      PROVE  \/ i \in torn' \/ born'[i] = 0
             \/ born'[i] = 1 /\ i <= seq' /\ part'[i].status \in {"completed", "none"}
  <2>1. PICK n \in Nat : n = born[i] BY DEF QueueTypes
  <2>2. i \in torn \/ n = 0 \/ (n = 1 /\ i <= seq /\ part[i].status \in {"completed", "none"})
    BY <2>1 DEF QueueInv
  <2>3. i \in Int /\ seq \in Int BY DEF Parts, QueueTypes
  <2>4. i > seq => part[i].status = "none" BY <1>0 DEF QueueInv
  <2>5. i <= seq => i <= seq' \/ i \in torn' BY DEF ChangesTo
  <2>6. CASE /\ born'[i] = n + 1 /\ part[i].status = "claimed"
             /\ part'[i].status \in {"completed", "none"}
    BY <2>2, <2>3, <2>4, <2>5, <2>6
  <2>7. CASE born'[i] = n
    <3>1. \/ part'[i] = part[i] \/ i \in torn' \/ part'[i].status = "none"
          \/ part[i].status \in {"ready", "claimed"} \/ i > seq
      BY <1>0 DEF ChangesTo
    <3> QED BY <2>2, <2>3, <2>5, <2>7, <3>1
  <2> QED BY <2>1, <2>6, <2>7 DEF ChangesTo
<1>2. \A i \in Parts : i > seq' => part'[i] = NoPart BY DEF ChangesTo
<1> QED BY <1>1, <1>2 DEF QueueInv

\* Parts that leave q on the way.
LEMMA LeaveChanges ==
    ASSUME NEW k, NEW q, NEW out, NEW th, ChangesTo(q, k), Leave(q, th, out)
    PROVE  Changes(k)
<1>0. NoPart.status = "none" BY DEF NoPart
<1>1. \A i \in Parts : part'[i] = q[i] \/ (part'[i] = NoPart /\ i \in cut') BY DEF Leave
<1>2. ASSUME NEW i \in Parts, part'[i] = NoPart, i \in cut'
      PROVE  /\ \/ born'[i] = born[i]
                \/ /\ born'[i] = born[i] + 1 /\ part[i].status = "claimed"
                   /\ part'[i].status \in {"completed", "none"}
             /\ i <= seq => i <= seq' \/ i \in torn'
  BY <1>0, <1>2 DEF ChangesTo
<1>3. ASSUME NEW i \in Parts
      PROVE  /\ \/ part'[i] = part[i] \/ i \in torn' \/ (part'[i] = NoPart /\ i \in cut')
                \/ part[i].status = "ready" \/ i > seq
                \/ part[i].status = "claimed" /\ part[i].token \in expired
                \/ part[i].status = "claimed" /\ part[i].token = k /\ part'[i].status = "completed"
             /\ \/ born'[i] = born[i]
                \/ /\ born'[i] = born[i] + 1 /\ part[i].status = "claimed"
                   /\ part'[i].status \in {"completed", "none"}
             /\ i > seq' => part'[i] = NoPart
             /\ i <= seq => i <= seq' \/ i \in torn'
  <2>1. CASE part'[i] = q[i] BY <2>1 DEF ChangesTo
  <2>2. CASE part'[i] = NoPart /\ i \in cut' BY <1>2, <2>2
  <2> QED BY <1>1, <2>1, <2>2
<1> QED BY <1>3 DEF Changes, ChangesTo

\* Objects that leave the queue stay with the requests, which change in nothing else.
LEMMA DetachedWork ==
    ASSUME NEW q \in [Parts -> PartStates], NEW th \in [Threads -> Work], NEW out,
           NEW r \in Threads
    PROVE  /\ Detached(th, q, out)[r] \in Work
           /\ Detached(th, q, out)[r].op = th[r].op /\ Detached(th, q, out)[r].at = th[r].at
           /\ Detached(th, q, out)[r].left = th[r].left
           /\ Detached(th, q, out)[r].done = th[r].done
<1>1. PICK g \in Work : g = th[r] OBVIOUS
<1>2. PICK u : u = {IF h.copy = NoPart /\ h.id \in out THEN [h EXCEPT !.copy = q[h.id]] ELSE h :
                       h \in g.unsaved}
  OBVIOUS
<1>3. u \in SUBSET Copies
  <2>1. ASSUME NEW h \in g.unsaved
        PROVE  (IF h.copy = NoPart /\ h.id \in out THEN [h EXCEPT !.copy = q[h.id]] ELSE h) \in Copies
    <3>1. PICK c \in Copies : c = h BY DEF Work
    <3>2. [c EXCEPT !.copy = q[c.id]] \in Copies BY DEF Copies
    <3> QED BY <3>1, <3>2
  <2> QED BY <1>2, <2>1
<1>4. Detached(th, q, out)[r] = [g EXCEPT !.unsaved = u] BY <1>1, <1>2 DEF Detached
<1> QED BY <1>1, <1>3, <1>4 DEF Work

\* The types after parts have left the queue.
LEMMA LeaveTypes ==
    ASSUME NEW q \in [Parts -> PartStates], NEW th \in [Threads -> Work], NEW out, Leave(q, th, out)
    PROVE  /\ part' \in [Parts -> PartStates] /\ thread' \in [Threads -> Work]
           /\ \A r \in Threads :
                 /\ thread'[r].op = th[r].op /\ thread'[r].at = th[r].at
                 /\ thread'[r].left = th[r].left /\ thread'[r].done = th[r].done
<1>1. NoPart \in PartStates BY DEF NoPart, PartStates
<1>2. part' \in [Parts -> PartStates] BY <1>1 DEF Leave
<1>3. thread' = Detached(th, q, out) BY DEF Leave
<1>4. thread' = [r \in Threads |-> thread'[r]] BY <1>3 DEF Detached
<1>5. \A r \in Threads :
         /\ thread'[r] \in Work
         /\ thread'[r].op = th[r].op /\ thread'[r].at = th[r].at
         /\ thread'[r].left = th[r].left /\ thread'[r].done = th[r].done
  BY <1>3, DetachedWork
<1> QED BY <1>2, <1>4, <1>5

\* A step that leaves the parts alone.
LEMMA PartsAlone ==
    ASSUME QueueInv, UNCHANGED <<part, seq, born>>
    PROVE  \A k : Changes(k)
BY DEF Changes, ChangesTo, QueueInv

\* _release_expired_part_claims_locked releases only claims that have run out.
LEMMA Releases ==
    ASSUME QueueTypes
    PROVE  /\ Released \in [Parts -> PartStates]
           /\ \A i \in Parts :
                 \/ Released[i] = part[i]
                 \/ part[i].status = "claimed" /\ part[i].token \in expired /\ Released[i].status = "ready"
<1>1. ASSUME NEW i \in Parts
      PROVE  /\ Released[i] \in PartStates
             /\ \/ Released[i] = part[i]
                \/ part[i].status = "claimed" /\ part[i].token \in expired /\ Released[i].status = "ready"
  <2>1. PICK p \in PartStates : p = part[i] BY DEF QueueTypes
  <2>2. PICK q : q = [p EXCEPT !.status = "ready", !.token = 0] OBVIOUS
  <2>3. q \in PartStates /\ q.status = "ready" BY <2>2 DEF PartStates
  <2>4. Released[i] = IF i \in Lapsed THEN q ELSE p BY <2>1, <2>2 DEF Released
  <2>5. i \in Lapsed => p.status = "claimed" /\ p.token \in expired BY <2>1 DEF Lapsed
  <2> QED BY <2>1, <2>3, <2>4, <2>5
<1>2. Released = [i \in Parts |-> Released[i]] BY DEF Released
<1>3. Released \in [Parts -> PartStates] BY <1>1, <1>2
<1> QED BY <1>1, <1>3

\* A claim takes a ready part of the workshop.
LEMMA ClaimChanges ==
    ASSUME QueueTypes, QueueInv, NEW w, NEW i, i = Min(Claimable(Released, w)),
           Claimable(Released, w) # {}, token' = token + 1, UNCHANGED <<row, seq, born>>,
           part' = [Released EXCEPT ![i].status = "claimed", ![i].token = token + 1]
    PROVE  /\ i \in Parts /\ QueueTypes' /\ \A k : Changes(k)
           /\ part'[i].status = "claimed" /\ part'[i].token = token + 1
<1>1. i \in Claimable(Released, w)
  <2>1. Claimable(Released, w) \in SUBSET Nat BY DEF Claimable, Parts
  <2>2. \E x \in Claimable(Released, w) : \A y \in Claimable(Released, w) : x <= y
    BY <2>1, LeastNumber DEF Minimum
  <2> QED BY <2>2 DEF Min
<1>2. i \in Parts /\ Released[i].status = "ready" BY <1>1 DEF Claimable
<1>3. PICK n \in Nat : n = token + 1 BY DEF QueueTypes
<1>4. PICK p \in PartStates : p = Released[i] BY <1>2, Releases
<1>5. PICK c : c = [p EXCEPT !.status = "claimed", !.token = n] OBVIOUS
<1>6. c \in PartStates /\ c.status = "claimed" /\ c.token = n BY <1>5 DEF PartStates
<1>7. part' = [Released EXCEPT ![i] = c] BY <1>2, <1>3, <1>4, <1>5, Releases
<1>8. \A j \in Parts : part'[j] = IF j = i THEN c ELSE Released[j] BY <1>7, Releases
<1>9. QueueTypes'
  <2>1. part' \in [Parts -> PartStates] BY <1>6, <1>7, Releases
  <2> QED BY <1>3, <2>1 DEF QueueTypes
<1>10. ASSUME NEW k, NEW j \in Parts
       PROVE  /\ \/ part'[j] = part[j] \/ part[j].status = "ready"
                 \/ part[j].status = "claimed" /\ part[j].token \in expired
              /\ j > seq' => part'[j] = NoPart
  <2>1. \/ Released[j] = part[j]
        \/ part[j].status = "claimed" /\ part[j].token \in expired /\ Released[j].status = "ready"
    BY Releases
  <2>2. j > seq => part[j] = NoPart BY DEF QueueInv
  <2>3. NoPart.status = "none" BY DEF NoPart
  <2> QED BY <1>2, <1>8, <2>1, <2>2, <2>3
<1> QED BY <1>2, <1>3, <1>6, <1>8, <1>9, <1>10 DEF Changes, ChangesTo

\* What a request has left to save are parts of the queue.
LEMMA Owns == \A i \in Parts : Own(i) \in Copies
<1>1. NoPart \in PartStates BY DEF NoPart, PartStates
<1> QED BY <1>1 DEF Own, Copies

\* The part that is appended for the next workshop.
LEMMA NextParts ==
    \A w \in Workshops \cup {"none"} :
       [status |-> "ready", at |-> NextWorkshop(w), token |-> 0] \in PartStates
BY DEF PartStates, NextWorkshop, Workshops

\* A completed part and the part for the next workshop
LEMMA CompleteChanges ==
    ASSUME QueueTypes, QueueInv, ThreadTypes, NEW i \in Parts, NEW w \in Workshops \cup {"none"},
           NEW k, Completable(i, w, k), NEW r \in Threads, NEW t \in Work,
           UNCHANGED <<row, token>>, torn' = torn, Complete(r, i, w, t)
    PROVE  /\ QueueTypes' /\ Changes(k) /\ cut \subseteq cut' /\ thread' \in [Threads -> Work]
           /\ \A p \in Threads :
                 /\ thread'[p].op = IF p = r THEN t.op ELSE thread[p].op
                 /\ thread'[p].at = IF p = r THEN t.at ELSE thread[p].at
                 /\ thread'[p].left = IF p = r THEN t.left ELSE thread[p].left
                 /\ thread'[p].done = IF p = r THEN t.done ELSE thread[p].done
<1>1. PICK p \in PartStates : p = part[i] BY DEF QueueTypes
<1>2. p.status = "claimed" /\ p.token = k BY <1>1 DEF Completable
<1>3. PICK c : c = [p EXCEPT !.status = "completed"] OBVIOUS
<1>4. c \in PartStates /\ c.status = "completed" BY <1>3 DEF PartStates
<1>5. PICK q : q = [part EXCEPT ![i].status = "completed"] OBVIOUS
<1>6. q \in [Parts -> PartStates] /\ \A j \in Parts : q[j] = IF j = i THEN c ELSE part[j]
  <2>1. q = [part EXCEPT ![i] = c] BY <1>1, <1>3, <1>5 DEF QueueTypes
  <2> QED BY <1>4, <2>1 DEF QueueTypes
<1>7. \A j \in Parts : j > seq => part[j] = NoPart BY DEF QueueInv
<1>8. NoPart.status = "none" BY DEF NoPart
<1>9. \A j \in Parts : j \in Nat /\ j <= MaxParts BY PartFlowAssumption DEF Parts
<1>10. seq \in Nat /\ i <= seq BY <1>1, <1>2, <1>7, <1>8, <1>9 DEF QueueTypes
<1>11. ASSUME NEW u \in SUBSET Copies, NEW th, th = [thread EXCEPT ![r] = [t EXCEPT !.unsaved = u]]
       PROVE  /\ th \in [Threads -> Work]
              /\ \A s \in Threads :
                    /\ th[s].op = IF s = r THEN t.op ELSE thread[s].op
                    /\ th[s].at = IF s = r THEN t.at ELSE thread[s].at
                    /\ th[s].left = IF s = r THEN t.left ELSE thread[s].left
                    /\ th[s].done = IF s = r THEN t.done ELSE thread[s].done
  <2>1. PICK v : v = [t EXCEPT !.unsaved = u] OBVIOUS
  <2>2. v \in Work /\ v.op = t.op /\ v.at = t.at /\ v.left = t.left /\ v.done = t.done
    BY <2>1 DEF Work
  <2>3. \A s \in Threads : th[s] = IF s = r THEN v ELSE thread[s]
    BY <1>11, <2>1 DEF ThreadTypes
  <2> QED BY <1>11, <2>1, <2>2, <2>3 DEF ThreadTypes
<1>12. CASE NextWorkshop(w) = "none"
  <2>1. /\ part' = q /\ UNCHANGED <<seq, born, cut>>
        /\ thread' = [thread EXCEPT ![r] = [t EXCEPT !.unsaved = {Own(i)}]]
    BY <1>5, <1>12 DEF Complete
  <2>2. {Own(i)} \in SUBSET Copies BY Owns
  <2>3. QueueTypes' BY <1>6, <2>1 DEF QueueTypes
  <2>4. Changes(k)
    BY <1>1, <1>2, <1>4, <1>6, <1>7, <1>8, <1>10, <2>1 DEF Changes, ChangesTo
  <2>5. PICK th : th = thread' OBVIOUS
  <2>6. th = [thread EXCEPT ![r] = [t EXCEPT !.unsaved = {Own(i)}]] BY <2>1, <2>5
  <2> QED BY <1>11, <2>1, <2>2, <2>3, <2>4, <2>5, <2>6
<1>13. CASE NextWorkshop(w) # "none"
  <2>1. PICK n : n = [status |-> "ready", at |-> NextWorkshop(w), token |-> 0] OBVIOUS
  <2>2. n \in PartStates BY <2>1, NextParts
  <2>3. PICK longer : longer = [q EXCEPT ![seq + 1] = n] OBVIOUS
  <2>4. PICK u : u = {Own(i), Own(seq + 1)} OBVIOUS
  <2>5. PICK th : th = [thread EXCEPT ![r] = [t EXCEPT !.unsaved = u]] OBVIOUS
  <2>6. /\ seq < MaxParts /\ seq' = seq + 1 /\ born' = [born EXCEPT ![i] = @ + 1]
        /\ Leave(longer, th, Parts \ Retained(longer))
    BY <1>5, <1>13, <2>1, <2>3, <2>4, <2>5 DEF Complete
  <2>7. PICK s \in Parts : s = seq + 1 BY <1>10, <2>6, PartFlowAssumption DEF Parts
  <2>8. u \in SUBSET Copies BY <2>4, <2>7, Owns
  <2>9. longer \in [Parts -> PartStates] /\ \A j \in Parts : longer[j] = IF j = s THEN n ELSE q[j]
    BY <1>6, <2>2, <2>3, <2>7
  <2>10. s > seq /\ s # i /\ seq' = s /\ s \in Nat BY <1>9, <1>10, <2>6, <2>7
  <2>11. PICK b \in Nat : b = born[i] BY DEF QueueTypes
  <2>12. born' \in [Parts -> Nat] /\ born'[i] = b + 1 /\ \A j \in Parts : j # i => born'[j] = born[j]
    BY <2>6, <2>11 DEF QueueTypes
  <2>13. ASSUME NEW j \in Parts
         PROVE  /\ \/ longer[j] = part[j] \/ j > seq
                   \/ part[j].status = "claimed" /\ part[j].token = k /\ longer[j].status = "completed"
                /\ \/ born'[j] = born[j]
                   \/ /\ born'[j] = born[j] + 1 /\ part[j].status = "claimed"
                      /\ longer[j].status \in {"completed", "none"}
                /\ j > seq' => longer[j] = NoPart
                /\ j <= seq => j <= seq'
    <3>1. CASE j = i BY <1>1, <1>2, <1>4, <1>6, <1>9, <1>10, <2>9, <2>10, <2>11, <2>12, <3>1
    <3>2. CASE j = s BY <1>9, <1>10, <2>10, <2>12, <3>2
    <3>3. CASE j # i /\ j # s BY <1>6, <1>7, <1>9, <1>10, <2>7, <2>9, <2>10, <2>12, <3>3
    <3> QED BY <3>1, <3>2, <3>3
  <2>14. ChangesTo(longer, k) BY <2>13 DEF ChangesTo
  <2>15. Changes(k) BY <2>6, <2>14, LeaveChanges
  <2>16. /\ th \in [Threads -> Work]
         /\ \A x \in Threads :
               /\ th[x].op = IF x = r THEN t.op ELSE thread[x].op
               /\ th[x].at = IF x = r THEN t.at ELSE thread[x].at
               /\ th[x].left = IF x = r THEN t.left ELSE thread[x].left
               /\ th[x].done = IF x = r THEN t.done ELSE thread[x].done
    BY <1>11, <2>5, <2>8, ZenonT(60)
  <2>17. /\ part' \in [Parts -> PartStates] /\ thread' \in [Threads -> Work]
         /\ \A x \in Threads :
               /\ thread'[x].op = th[x].op /\ thread'[x].at = th[x].at
               /\ thread'[x].left = th[x].left /\ thread'[x].done = th[x].done
    BY <2>6, <2>9, <2>16, LeaveTypes
  <2>18. QueueTypes' BY <2>10, <2>12, <2>17 DEF QueueTypes
  <2>19. cut \subseteq cut' BY <2>6 DEF Leave
  <2> QED BY <2>15, <2>16, <2>17, <2>18, <2>19
<1> QED BY <1>12, <1>13

\* What an agent works on, or is about to be told of
HeldClaim(d) == \/ \E w \in Workshops : holds[w] = d /\ d # Nothing
           \/ \E r \in Threads : thread[r].op = "claim" /\ thread[r].done = d

\* It is claimed with this token, or something that ClaimKept allows has happened.
Good(d) == \/ part[d.id].status = "claimed" /\ part[d.id].token = d.token
           \/ d.token \in expired \/ d.id \in torn \cup cut \cup unanswered

Busy(r) == thread[r].done # Nothing

\* A token is held once: by an agent, by a request that claims or consumes, or by an agent and
\* the request that completes its part.
TokensUnique ==
    /\ \A w \in Workshops : holds[w] # Nothing => holds[w].token <= token
    /\ \A r \in Threads : Busy(r) => thread[r].done.token <= token
    /\ \A w, v \in Workshops :
          holds[w] # Nothing /\ holds[v] # Nothing /\ holds[w].token = holds[v].token => w = v
    /\ \A r, q \in Threads :
          Busy(r) /\ Busy(q) /\ thread[r].done.token = thread[q].done.token => r = q
    /\ \A r \in Threads, w \in Workshops :
          Busy(r) /\ holds[w] # Nothing /\ thread[r].done.token = holds[w].token =>
             thread[r].op = "complete" /\ thread[r].at = w

ClaimInv ==
    /\ TokensUnique
    /\ \A w \in Workshops : holds[w] # Nothing =>
          Good(holds[w]) \/ \E r \in Threads : thread[r].op = "complete" /\ thread[r].done = holds[w]
    /\ \A r \in Threads : thread[r].op = "claim" => Busy(r) /\ Good(thread[r].done)

\* Claims that run out, parts set back or cut and answers lost are not forgotten.
HistoryGrows ==
    /\ expired \subseteq expired' /\ torn \subseteq torn' /\ cut \subseteq cut'
    /\ unanswered \subseteq unanswered'

\* The fields of a claim.
LEMMA ClaimFields ==
    \A d \in Claims : d # Nothing =>
       d.id \in Parts /\ d.token \in Nat /\ d.token # 0 /\ d = [id |-> d.id, token |-> d.token]
BY DEF Claims

\* What is held is a claim.
LEMMA HeldClaims ==
    ASSUME ThreadTypes, ClaimInv
    PROVE  \A d : HeldClaim(d) => d \in Claims /\ d # Nothing
BY DEF ThreadTypes, ClaimInv, HeldClaim, Work, Busy

\* Only the holder of token k loses its part.
LEMMA GoodStays ==
    ASSUME QueueTypes, QueueInv, ThreadTypes, ClaimInv, NEW k, Changes(k), HistoryGrows
    PROVE  \A d : HeldClaim(d) /\ Good(d) /\ d.token # k => Good(d)'
<1> SUFFICES ASSUME NEW d, HeldClaim(d), Good(d), d.token # k PROVE Good(d)'
  OBVIOUS
<1>1. PICK i \in Parts : i = d.id BY HeldClaims, ClaimFields
<1>2. CASE part[i].status = "claimed" /\ part[i].token = d.token
  <2>1. ~(i > seq) BY <1>2 DEF QueueInv, NoPart
  <2>2. \/ part'[i] = part[i] \/ i \in torn' \/ i \in cut'
        \/ part[i].token \in expired
    BY <1>2, <2>1 DEF Changes, ChangesTo
  <2> QED BY <1>1, <1>2, <2>2 DEF Good, HistoryGrows
<1>3. CASE d.token \in expired \/ i \in torn \cup cut \cup unanswered
  BY <1>1, <1>3 DEF Good, HistoryGrows
<1> QED BY <1>1, <1>2, <1>3 DEF Good

\* Requests that are answered, or have no part in claims
Idle(r) ==
    \/ /\ thread'[r].op = thread[r].op /\ thread'[r].at = thread[r].at
       /\ thread'[r].done = thread[r].done
    \/ /\ thread[r].op # "complete" /\ thread'[r].op \notin {"claim", "complete"}
       /\ thread'[r].done = Nothing

\* Such requests change nothing about claims.
LEMMA IdleKeeps ==
    ASSUME ClaimInv, UNCHANGED <<holds, token>>, \A r \in Threads : Idle(r),
           \A d : HeldClaim(d) /\ Good(d) => Good(d)'
    PROVE  ClaimInv'
<1>1. \A r \in Threads :
         Busy(r)' => /\ Busy(r) /\ thread'[r].op = thread[r].op /\ thread'[r].at = thread[r].at
                     /\ thread'[r].done = thread[r].done
  BY DEF Idle, Busy
<1>2. TokensUnique' BY <1>1 DEF ClaimInv, TokensUnique
<1>3. ASSUME NEW w \in Workshops, holds[w] # Nothing
      PROVE  \/ Good(holds[w])'
             \/ \E r \in Threads : thread'[r].op = "complete" /\ thread'[r].done = holds[w]
  <2>1. CASE Good(holds[w])
    <3>1. PICK d : d = holds[w] OBVIOUS
    <3>2. HeldClaim(d) BY <1>3, <3>1 DEF HeldClaim
    <3>3. Good(d)' BY <2>1, <3>1, <3>2
    <3> QED BY <3>1, <3>3 DEF Good
  <2>2. CASE \E r \in Threads : thread[r].op = "complete" /\ thread[r].done = holds[w]
    BY <2>2 DEF Idle
  <2> QED BY <1>3, <2>1, <2>2 DEF ClaimInv
<1>4. ASSUME NEW r \in Threads, thread'[r].op = "claim"
      PROVE  Busy(r)' /\ Good(thread[r].done)' /\ thread'[r].done = thread[r].done
  <2>1. thread[r].op = "claim" /\ thread'[r].done = thread[r].done BY <1>4 DEF Idle
  <2>2. PICK d : d = thread[r].done OBVIOUS
  <2>3. HeldClaim(d) /\ Good(d) BY <2>1, <2>2 DEF HeldClaim, ClaimInv
  <2>4. Good(d)' BY <2>3
  <2>5. Busy(r)' BY <2>1 DEF ClaimInv, Busy
  <2> QED BY <2>1, <2>2, <2>4, <2>5 DEF Good
<1> QED BY <1>2, <1>3, <1>4 DEF ClaimInv

\* A claim gets a token of its own.
LEMMA TakeKeeps ==
    ASSUME PartTypes, ClaimInv, NEW r \in Threads, NEW t \in Work,
           thread' = [thread EXCEPT ![r] = t], thread[r].op # "complete",
           t.op \in {"claim", "consume"}, t.done # Nothing, t.done.token = token + 1,
           token' = token + 1, UNCHANGED holds,
           \A d : HeldClaim(d) /\ Good(d) => Good(d)', Good(t.done)'
    PROVE  ClaimInv'
<1>1. \A q \in Threads : thread'[q] = IF q = r THEN t ELSE thread[q]
  BY DEF PartTypes, ThreadTypes
<1>2. PICK n \in Nat : n = token BY DEF PartTypes, QueueTypes
<1>3. \A w \in Workshops : holds[w] # Nothing => holds[w].token \in Nat /\ holds[w].token <= n
  BY <1>2, ClaimFields DEF PartTypes, ThreadTypes, ClaimInv, TokensUnique
<1>4. \A q \in Threads : Busy(q) => thread[q].done.token \in Nat /\ thread[q].done.token <= n
  BY <1>2, ClaimFields DEF PartTypes, ThreadTypes, ClaimInv, TokensUnique, Work, Busy
<1>5. TokensUnique'
  <2>1. \A w \in Workshops : holds[w] # Nothing => holds[w].token <= n + 1 /\ holds[w].token # n + 1
    BY <1>3
  <2>2. \A q \in Threads : Busy(q) => thread[q].done.token <= n + 1 /\ thread[q].done.token # n + 1
    BY <1>4
  <2>3. n + 1 <= n + 1 OBVIOUS
  <2>4. t.done.token = n + 1 /\ token' = n + 1 BY <1>2
  <2>5. \A q \in Threads : Busy(q)' <=> q = r \/ Busy(q) BY <1>1 DEF Busy
  <2> HIDE DEF Busy
  <2> QED BY <1>1, <2>1, <2>2, <2>3, <2>4, <2>5 DEF ClaimInv, TokensUnique
<1>6. ASSUME NEW w \in Workshops, holds[w] # Nothing
      PROVE  \/ Good(holds[w])'
             \/ \E q \in Threads : thread'[q].op = "complete" /\ thread'[q].done = holds[w]
  <2>1. CASE Good(holds[w])
    <3>1. PICK d : d = holds[w] OBVIOUS
    <3>2. HeldClaim(d) BY <1>6, <3>1 DEF HeldClaim
    <3>3. Good(d)' BY <2>1, <3>1, <3>2
    <3> QED BY <3>1, <3>3 DEF Good
  <2>2. CASE \E q \in Threads : thread[q].op = "complete" /\ thread[q].done = holds[w]
    BY <1>1, <2>2
  <2> QED BY <1>6, <2>1, <2>2 DEF ClaimInv
<1>7. ASSUME NEW q \in Threads, thread'[q].op = "claim"
      PROVE  Busy(q)' /\ Good(thread[q].done)'
  <2>1. CASE q = r
    <3>1. thread'[q].done = t.done BY <1>1, <2>1
    <3> QED BY <3>1 DEF Busy, Good
  <2>2. CASE q # r
    <3>1. thread'[q] = thread[q] BY <1>1, <2>2
    <3>2. PICK d : d = thread[q].done OBVIOUS
    <3>3. HeldClaim(d) /\ Good(d) /\ d # Nothing BY <1>7, <3>1, <3>2 DEF HeldClaim, ClaimInv, Busy
    <3>4. Good(d)' BY <3>3
    <3> QED BY <3>1, <3>2, <3>3, <3>4 DEF Good, Busy
  <2> QED BY <2>1, <2>2
<1> QED BY <1>5, <1>6, <1>7 DEF ClaimInv

\* An answer to the agent ends a request, with or without reaching it.
LEMMA AnswerKeeps ==
    ASSUME PartTypes, ClaimInv, NEW r \in Threads, NEW x \in BOOLEAN,
           AgentClaimed(r, x) \/ AgentCompleted(r, x)
    PROVE  ClaimInv' /\ ThreadTypes' /\ UNCHANGED <<queueVars, flowVars, born, torn, cut>>
<1>1. /\ thread' = [thread EXCEPT ![r] = Free] /\ UNCHANGED <<queueVars, flowVars, born, torn, cut>>
      /\ unanswered \subseteq unanswered'
  BY DEF AgentClaimed, AgentCompleted
<1>2. Free \in Work /\ Free.op = "none" /\ Free.done = Nothing BY DEF Free, Work, Claims
<1>3. \A q \in Threads : thread'[q] = IF q = r THEN Free ELSE thread[q]
  BY <1>1 DEF PartTypes, ThreadTypes
<1>4. \A w \in Workshops : holds'[w] \in {holds[w], thread[r].done, Nothing}
  BY DEF AgentClaimed, AgentCompleted, PartTypes, ThreadTypes
<1>5. ThreadTypes'
  <2>1. thread[r].done \in Claims /\ Nothing \in Claims
    BY DEF PartTypes, ThreadTypes, Work, Claims
  <2>2. \A w \in Workshops : holds'[w] \in Claims BY <1>4, <2>1 DEF PartTypes, ThreadTypes
  <2>3. holds' = [w \in Workshops |-> holds'[w]]
    BY DEF AgentClaimed, AgentCompleted, PartTypes, ThreadTypes
  <2> QED BY <1>1, <1>2, <2>2, <2>3 DEF PartTypes, ThreadTypes
<1>6. UNCHANGED <<part, token, expired, torn, cut>> BY <1>1 DEF queueVars
<1>7. \A d : Good(d) => Good(d)' BY <1>1, <1>6 DEF Good
<1>8. \A q \in Threads : Busy(q)' => q # r /\ Busy(q) /\ thread'[q] = thread[q]
  BY <1>2, <1>3 DEF Busy
<1>9. ASSUME NEW q \in Threads, thread'[q].op = "claim"
      PROVE  Busy(q)' /\ Good(thread[q].done)'
  <2>1. thread'[q] = thread[q] BY <1>2, <1>3, <1>9
  <2>2. PICK d : d = thread[q].done OBVIOUS
  <2>3. Good(d) /\ d # Nothing BY <1>9, <2>1, <2>2 DEF ClaimInv, Busy
  <2>4. Good(d)' BY <1>7, <2>3
  <2> QED BY <2>1, <2>2, <2>3, <2>4 DEF Good, Busy
<1>10. CASE AgentClaimed(r, x)
  <2>1. /\ thread[r].op = "claim" /\ Busy(r) /\ Good(thread[r].done)
        /\ \A w \in Workshops : holds'[w] \in {holds[w], thread[r].done}
    BY <1>10 DEF AgentClaimed, ClaimInv, PartTypes, ThreadTypes
  <2>2. \A w \in Workshops : holds'[w] # holds[w] => x /\ w = thread[r].at /\ holds'[w] = thread[r].done
    BY <1>10 DEF AgentClaimed, PartTypes, ThreadTypes
  <2>3. TokensUnique'
    <3>1. \A w \in Workshops : holds'[w] # Nothing => holds'[w].token <= token
      BY <2>1, <2>2 DEF ClaimInv, TokensUnique
    <3>2. \A w, v \in Workshops :
             holds'[w] # Nothing /\ holds'[v] # Nothing /\ holds'[w].token = holds'[v].token => w = v
      BY <2>1, <2>2 DEF ClaimInv, TokensUnique
    <3>3. ASSUME NEW q \in Threads, NEW w \in Workshops, Busy(q)', holds'[w] # Nothing,
                 thread'[q].done.token = holds'[w].token
          PROVE  thread'[q].op = "complete" /\ thread'[q].at = w
      <4>1. q # r /\ Busy(q) /\ thread'[q] = thread[q] BY <1>8, <3>3
      <4>2. CASE holds'[w] = holds[w] BY <3>3, <4>1, <4>2 DEF ClaimInv, TokensUnique
      <4>3. CASE holds'[w] # holds[w]
        <5>1. holds'[w] = thread[r].done BY <2>2, <4>3
        <5>2. thread[q].done.token = thread[r].done.token BY <3>3, <4>1, <5>1
        <5> QED BY <2>1, <4>1, <5>2 DEF ClaimInv, TokensUnique
      <4> QED BY <4>2, <4>3
    <3>4. \A q, p \in Threads :
             Busy(q)' /\ Busy(p)' /\ thread'[q].done.token = thread'[p].done.token => q = p
      BY <1>8 DEF ClaimInv, TokensUnique
    <3>5. \A q \in Threads : Busy(q)' => thread'[q].done.token <= token
      BY <1>8 DEF ClaimInv, TokensUnique
    <3> QED BY <1>6, <3>1, <3>2, <3>3, <3>4, <3>5 DEF TokensUnique
  <2>4. ASSUME NEW w \in Workshops, holds'[w] # Nothing
        PROVE  \/ Good(holds[w])'
               \/ \E q \in Threads : thread'[q].op = "complete" /\ thread'[q].done = holds'[w]
    <3>1. PICK d : d = holds'[w] OBVIOUS
    <3>2. CASE d = thread[r].done
      <4>1. Good(d) BY <2>1, <3>2
      <4>2. Good(d)' BY <1>7, <4>1
      <4> QED BY <3>1, <4>2 DEF Good
    <3>3. CASE d = holds[w] /\ Good(d)
      <4>1. Good(d)' BY <1>7, <3>3
      <4> QED BY <3>1, <4>1 DEF Good
    <3>4. CASE d = holds[w] /\ \E q \in Threads : thread[q].op = "complete" /\ thread[q].done = d
      BY <1>3, <2>1, <3>1, <3>4
    <3> QED BY <2>1, <2>4, <3>1, <3>2, <3>3, <3>4 DEF ClaimInv
  <2>5. ClaimInv' BY <1>9, <2>3, <2>4 DEF ClaimInv
  <2> QED BY <1>1, <1>5, <2>5
<1>11. CASE AgentCompleted(r, x)
  <2>1. /\ thread[r].op = "complete"
        /\ \A w \in Workshops : holds'[w] # Nothing => holds'[w] = holds[w] /\ (w = thread[r].at => ~x)
        /\ ~x => thread[r].done.id \in unanswered'
    BY <1>11 DEF AgentCompleted, PartTypes, ThreadTypes
  <2>2. TokensUnique' BY <1>6, <1>8, <2>1 DEF ClaimInv, TokensUnique
  <2>3. ASSUME NEW w \in Workshops, holds'[w] # Nothing
        PROVE  \/ Good(holds[w])'
               \/ \E q \in Threads : thread'[q].op = "complete" /\ thread'[q].done = holds'[w]
    <3>1. PICK d : d = holds'[w] /\ d = holds[w] BY <2>1, <2>3
    <3>2. Good(d) => Good(d)' BY <1>7
    <3>3. ASSUME NEW q \in Threads, thread[q].op = "complete", thread[q].done = d
          PROVE  \/ Good(d)'
                 \/ \E p \in Threads : thread'[p].op = "complete" /\ thread'[p].done = d
      <4>1. CASE q # r BY <1>3, <3>3, <4>1
      <4>2. CASE q = r
        <5>1. w = thread[r].at BY <2>3, <3>1, <3>3, <4>2 DEF ClaimInv, TokensUnique, Busy
        <5>2. d.id \in unanswered' BY <2>1, <2>3, <3>3, <4>2, <5>1
        <5> QED BY <5>2 DEF Good
      <4> QED BY <4>1, <4>2
    <3>4. Good(d) \/ \E q \in Threads : thread[q].op = "complete" /\ thread[q].done = d
      BY <2>3, <3>1 DEF ClaimInv
    <3>5. Good(d)' \/ \E p \in Threads : thread'[p].op = "complete" /\ thread'[p].done = d
      BY <3>2, <3>3, <3>4
    <3> QED BY <3>1, <3>5 DEF Good
  <2>4. ClaimInv' BY <1>9, <2>2, <2>3 DEF ClaimInv
  <2> QED BY <1>1, <1>5, <2>4
<1> QED BY <1>1, <1>5, <1>10, <1>11

\* A restarted agent holds nothing; the others keep what they hold.
LEMMA AgentRestartKeeps ==
    ASSUME PartTypes, ClaimInv, NEW v \in Workshops, AgentRestarts(v)
    PROVE  ClaimInv' /\ PartTypes' /\ UNCHANGED <<queueVars, born, torn, cut>>
<1>1. UNCHANGED <<queueVars, thread, flowVars, born, torn, cut, unanswered>> BY DEF AgentRestarts
<1>2. holds' = [holds EXCEPT ![v] = Nothing] BY DEF AgentRestarts
<1>3. \A w \in Workshops : holds'[w] # Nothing => holds'[w] = holds[w]
  BY <1>2 DEF PartTypes, ThreadTypes
<1>4. UNCHANGED <<part, row, seq, token, expired>> BY <1>1 DEF queueVars
<1>5. PartTypes'
  <2>1. ThreadTypes' BY <1>1, <1>2 DEF PartTypes, ThreadTypes, Claims
  <2>2. FlowTypes' BY <1>1 DEF PartTypes, FlowTypes, flowVars
  <2>3. QueueTypes' BY <1>1, <1>4 DEF PartTypes, QueueTypes
  <2> QED BY <2>1, <2>2, <2>3 DEF PartTypes
<1>6. TokensUnique' BY <1>1, <1>3, <1>4 DEF ClaimInv, TokensUnique, Busy
<1>7. \A d : Good(d)' <=> Good(d) BY <1>1, <1>4 DEF Good
<1>8. ASSUME NEW w \in Workshops, holds'[w] # Nothing
      PROVE  \/ Good(holds[w])'
             \/ \E q \in Threads : thread'[q].op = "complete" /\ thread'[q].done = holds'[w]
  <2>1. holds'[w] = holds[w] BY <1>3, <1>8
  <2> QED BY <1>1, <1>4, <1>8, <2>1 DEF ClaimInv, Good
<1>9. \A q \in Threads : thread'[q].op = "claim" => Busy(q)' /\ Good(thread[q].done)'
  BY <1>1, <1>4 DEF ClaimInv, Busy, Good
<1> QED BY <1>1, <1>5, <1>6, <1>8, <1>9 DEF ClaimInv

PartInv == PartTypes /\ QueueInv /\ ClaimInv

\* A step without a claim, an answer to an agent or a completion
LEMMA IdleStep ==
    ASSUME PartInv, FlowTypes', QueueTypes', ThreadTypes', HistoryGrows, UNCHANGED <<holds, token>>,
           \A r \in Threads : Idle(r), Changes(0)
    PROVE  PartInv'
<1>1. QueueInv' BY ChangesKeepQueue DEF PartInv, PartTypes, HistoryGrows
<1>2. \A d : HeldClaim(d) => d.token # 0 BY HeldClaims, ClaimFields DEF PartInv, PartTypes
<1>3. \A d : HeldClaim(d) /\ Good(d) => Good(d)' BY <1>2, GoodStays DEF PartInv, PartTypes
<1>4. ClaimInv' BY <1>3, IdleKeeps DEF PartInv
<1> QED BY <1>1, <1>4 DEF PartInv, PartTypes

\* One request moves.
LEMMA IdleThread ==
    ASSUME ThreadTypes, UNCHANGED holds, NEW r \in Threads, NEW t \in Work,
           thread' = [thread EXCEPT ![r] = t],
           \/ t.op = thread[r].op /\ t.at = thread[r].at /\ t.done = thread[r].done
           \/ thread[r].op # "complete" /\ t.op \notin {"claim", "complete"} /\ t.done = Nothing
    PROVE  ThreadTypes' /\ \A q \in Threads : Idle(q)
<1>1. \A q \in Threads : thread'[q] = IF q = r THEN t ELSE thread[q] BY DEF ThreadTypes
<1>2. ThreadTypes' BY DEF ThreadTypes
<1> QED BY <1>1, <1>2 DEF Idle

\* A request that is free.
LEMMA FreeWork ==
    /\ Free \in Work /\ Free.op = "none" /\ Free.at = "none" /\ Free.left = 0 /\ Free.done = Nothing
    /\ Free.unsaved = {}
BY DEF Free, Work, Claims

\* The number of parts of a heartbeat of turning.
LEMMA DeltaNumber ==
    ASSUME FlowTypes, NEW f \in Nat
    PROVE  /\ Delta(f) \in Nat
           /\ Delta(f) # 0 => mark >= 0 /\ Delta(f) <= f - mark
<1>1. CASE mark = -1 \/ f <= mark BY <1>1 DEF Delta
<1>2. CASE ~(mark = -1 \/ f <= mark)
  <2>1. PICK a \in Int : a = f - mark BY DEF FlowTypes
  <2>2. MaxDelta \in Int /\ MaxDelta >= 1 BY PartFlowAssumption
  <2>3. Min({a, MaxDelta}) \in {a, MaxDelta} /\ Min({a, MaxDelta}) <= a BY <2>1, <2>2, MinMax, Zenon
  <2>4. Delta(f) = Min({a, MaxDelta}) BY <1>2, <2>1 DEF Delta
  <2>5. a >= 1 /\ mark >= 0 BY <1>2, <2>1 DEF FlowTypes
  <2>6. PICK n : n = Min({a, MaxDelta}) OBVIOUS
  <2>7. n \in Nat /\ n <= a BY <2>2, <2>3, <2>5, <2>6
  <2> QED BY <2>1, <2>4, <2>5, <2>6, <2>7
<1> QED BY <1>1, <1>2

\* Heartbeats of turning are sent and handled, a request ends, a workshop's heartbeat begins.
LEMMA BeatsKeepParts ==
    ASSUME PartInv,
           \/ MakePiece \/ SendBeat \/ RestartTurning
           \/ \E r \in Threads : \/ \E b \in beats : TurningBeat(r, b)
                                 \/ EndBeat(r)
                                 \/ \E w \in Workshops, delta \in 1..MaxDelta : WorkshopBeat(r, w, delta)
    PROVE  PartInv'
<1>1. UNCHANGED <<part, row, seq, token, expired, holds, born, torn, cut, unanswered>>
  BY DEF MakePiece, SendBeat, RestartTurning, TurningBeat, EndBeat, WorkshopBeat, queueVars
<1>2. QueueTypes' BY <1>1 DEF PartInv, PartTypes, QueueTypes
<1>3. Changes(0) /\ HistoryGrows BY <1>1, PartsAlone DEF PartInv, HistoryGrows
<1>4. FlowTypes /\ ThreadTypes /\ \A q \in Threads : thread[q] \in Work
  BY DEF PartInv, PartTypes, ThreadTypes
<1>5. FlowTypes' /\ ThreadTypes' /\ \A q \in Threads : Idle(q)
  <2>1. CASE MakePiece \/ SendBeat \/ RestartTurning
    <3>1. UNCHANGED thread BY <2>1 DEF MakePiece, SendBeat, RestartTurning
    <3>2. ASSUME MakePiece PROVE FlowTypes' BY <1>4, <3>2 DEF FlowTypes, MakePiece
    <3>3. ASSUME SendBeat PROVE FlowTypes'
      <4>1. PICK n \in Nat : n = sent + 1 BY <1>4 DEF FlowTypes
      <4>2. PICK b : b = [no |-> n, count |-> count] OBVIOUS
      <4>3. b.no \in Nat /\ b.count \in Nat BY <1>4, <4>2 DEF FlowTypes
      <4>4. beats' = beats \cup {b} /\ sent' = n BY <3>3, <4>1, <4>2 DEF SendBeat
      <4> QED BY <1>4, <3>3, <4>1, <4>3, <4>4 DEF FlowTypes, SendBeat
    <3>4. ASSUME RestartTurning PROVE FlowTypes' BY <1>4, <3>4 DEF FlowTypes, RestartTurning
    <3>5. FlowTypes' BY <2>1, <3>2, <3>3, <3>4
    <3> QED BY <1>1, <1>4, <3>1, <3>5 DEF Idle, ThreadTypes
  <2>2. ASSUME NEW r \in Threads, NEW b \in beats, TurningBeat(r, b)
        PROVE  FlowTypes' /\ ThreadTypes' /\ \A q \in Threads : Idle(q)
    <3>1. b.no \in Nat /\ b.count \in Nat BY <1>4 DEF FlowTypes
    <3>2. PICK D \in Nat : D = Delta(b.count) BY <1>4, <3>1, DeltaNumber
    <3>3. PICK c : c = [Free EXCEPT !.op = "create", !.left = D] OBVIOUS
    <3>4. c \in Work /\ c.op = "create" /\ c.done = Nothing
      <4>1. c = [op |-> "create", at |-> "none", left |-> D, done |-> Nothing, unsaved |-> {}]
        BY <3>3 DEF Free
      <4> QED BY <4>1 DEF Work, Claims
    <3>5. PICK t : t = IF D = 0 THEN Free ELSE c OBVIOUS
    <3>6. t \in Work /\ t.op \in {"none", "create"} /\ t.done = Nothing BY <3>4, <3>5, FreeWork
    <3>7. thread' = [thread EXCEPT ![r] = t] /\ thread[r] = Free
      BY <2>2, <3>2, <3>3, <3>5 DEF TurningBeat
    <3>8. ThreadTypes' /\ \A q \in Threads : Idle(q)
      BY <1>1, <1>4, <3>6, <3>7, FreeWork, IdleThread
    <3>9. last' \in Nat
      <4>1. PICK a \in Int : a = last /\ a \in Nat BY <1>4 DEF FlowTypes
      <4>2. PICK n \in Int : n = b.no /\ n \in Nat BY <3>1
      <4>3. Max({a, n}) \in {a, n} BY MinMax, Zenon
      <4> QED BY <2>2, <4>1, <4>2, <4>3 DEF TurningBeat
    <3>10. mark' = b.count /\ beats' \subseteq beats /\ UNCHANGED <<count, sent, made, created>>
      BY <2>2 DEF TurningBeat
    <3>11. FlowTypes' BY <1>4, <3>1, <3>9, <3>10 DEF FlowTypes
    <3> QED BY <3>8, <3>11
  <2>3. ASSUME NEW r \in Threads, EndBeat(r)
        PROVE  FlowTypes' /\ ThreadTypes' /\ \A q \in Threads : Idle(q)
    <3>1. thread' = [thread EXCEPT ![r] = Free] /\ thread[r].op # "complete" /\ UNCHANGED flowVars
      BY <2>3 DEF EndBeat
    <3>2. FlowTypes' BY <1>4, <3>1 DEF FlowTypes, flowVars
    <3> QED BY <1>1, <1>4, <3>1, <3>2, FreeWork, IdleThread
  <2>4. ASSUME NEW r \in Threads, NEW w \in Workshops, NEW delta \in 1..MaxDelta, WorkshopBeat(r, w, delta)
        PROVE  FlowTypes' /\ ThreadTypes' /\ \A q \in Threads : Idle(q)
    <3>1. PICK t : t = [Free EXCEPT !.op = "consume", !.at = w, !.left = delta] OBVIOUS
    <3>2. thread' = [thread EXCEPT ![r] = t] /\ thread[r] = Free /\ UNCHANGED flowVars
      BY <2>4, <3>1 DEF WorkshopBeat
    <3>3. t = [op |-> "consume", at |-> w, left |-> delta, done |-> Nothing, unsaved |-> {}]
      BY <3>1 DEF Free
    <3>4. delta \in Nat BY PartFlowAssumption
    <3>5. t \in Work /\ t.op = "consume" /\ t.done = Nothing BY <3>3, <3>4 DEF Work, Claims
    <3>6. FlowTypes' BY <1>4, <3>2 DEF FlowTypes, flowVars
    <3> QED BY <1>1, <1>4, <3>2, <3>5, <3>6, FreeWork, IdleThread
  <2> QED BY <2>1, <2>2, <2>3, <2>4
<1> QED BY <1>1, <1>2, <1>3, <1>5, IdleStep

\* create_ready_part appends.
LEMMA CreateKeepsParts == ASSUME PartInv, NEW r \in Threads, CreatePart(r) PROVE PartInv'
<1>1. PICK s \in Parts : s = seq + 1
  BY PartFlowAssumption DEF CreatePart, PartInv, PartTypes, QueueTypes, Parts
<1>2. PICK n \in PartStates : n = [status |-> "ready", at |-> "milling", token |-> 0]
  BY DEF PartStates, Workshops
<1>3. PICK u : u \in Copies /\ u = Own(s) BY Owns
<1>4. PICK q : q = [part EXCEPT ![s] = n] OBVIOUS
<1>5. PICK th : th = [thread EXCEPT ![r].left = @ - 1, ![r].unsaved = {u}] OBVIOUS
<1>6. /\ Leave(q, th, Parts \ Retained(q)) /\ seq' = s /\ created' = created + 1
      /\ UNCHANGED <<row, token, expired, holds, born, torn, unanswered>>
      /\ UNCHANGED <<mark, count, beats, sent, made, last>>
  BY <1>1, <1>2, <1>3, <1>4, <1>5 DEF CreatePart
<1>7. q \in [Parts -> PartStates] /\ \A i \in Parts : q[i] = IF i = s THEN n ELSE part[i]
  BY <1>4 DEF PartInv, PartTypes, QueueTypes
<1>8. \A i \in Parts : i \in Nat BY DEF Parts
<1>9. FlowTypes' BY <1>6 DEF PartInv, PartTypes, FlowTypes
<1>10. ChangesTo(q, 0)
  <2>1. seq \in Nat /\ s > seq
    BY <1>1, <1>8 DEF PartInv, PartTypes, QueueTypes
  <2>2. \A i \in Parts : i > seq => part[i] = NoPart BY DEF PartInv, QueueInv
  <2>3. ASSUME NEW i \in Parts
        PROVE  /\ i > s => q[i] = NoPart
               /\ q[i] = part[i] \/ i > seq
               /\ i <= seq => i <= s
    BY <1>1, <1>7, <1>8, <2>1, <2>2
  <2> QED BY <1>6, <2>3 DEF ChangesTo
<1>11. Changes(0) BY <1>6, <1>10, LeaveChanges
<1>12. PICK t : t = [thread[r] EXCEPT !.left = @ - 1, !.unsaved = {u}] OBVIOUS
<1>13. th = [thread EXCEPT ![r] = t]
  BY <1>5, <1>12 DEF PartInv, PartTypes, ThreadTypes
<1>14. t \in Work /\ t.op = thread[r].op /\ t.at = thread[r].at /\ t.done = thread[r].done
  <2>1. PICK g \in Work : g = thread[r] BY DEF PartInv, PartTypes, ThreadTypes
  <2>2. g.left > 0 /\ g.left \in Nat BY <2>1 DEF CreatePart, Work
  <2>3. PICK l \in Nat : l = g.left - 1 BY <2>2
  <2>4. t = [g EXCEPT !.left = l, !.unsaved = {u}] BY <1>12, <2>1, <2>3
  <2>5. {u} \in SUBSET Copies BY <1>3
  <2> QED BY <2>1, <2>4, <2>5 DEF Work
<1>15. th \in [Threads -> Work] /\ \A p \in Threads : th[p] = IF p = r THEN t ELSE thread[p]
  BY <1>13, <1>14 DEF PartInv, PartTypes, ThreadTypes
<1>16. /\ part' \in [Parts -> PartStates] /\ thread' \in [Threads -> Work]
       /\ \A p \in Threads :
             /\ thread'[p].op = th[p].op /\ thread'[p].at = th[p].at
             /\ thread'[p].left = th[p].left /\ thread'[p].done = th[p].done
  BY <1>6, <1>7, <1>15, LeaveTypes
<1>17. QueueTypes' BY <1>6, <1>8, <1>16 DEF PartInv, PartTypes, QueueTypes
<1>18. ThreadTypes' BY <1>6, <1>16 DEF PartInv, PartTypes, ThreadTypes
<1>19. \A p \in Threads : Idle(p) BY <1>14, <1>15, <1>16 DEF Idle
<1>20. HistoryGrows BY <1>6 DEF HistoryGrows, Leave
<1> QED BY <1>6, <1>9, <1>11, <1>17, <1>18, <1>19, <1>20, IdleStep

\* The object that is saved is a part.
LEMMA Objects == ASSUME QueueTypes PROVE \A h \in Copies : h.id \in Parts /\ Object(h) \in PartStates
BY DEF QueueTypes, Copies, Object

\* persist_part_queue_item changes rows only.
LEMMA SaveKeepsParts ==
    ASSUME PartInv, NEW r \in Threads, NEW written \in SUBSET thread[r].unsaved, Save(r, written)
    PROVE  PartInv'
<1>1. PICK g \in Work : g = thread[r] BY DEF PartInv, PartTypes, ThreadTypes
<1>2. written \subseteq Copies BY <1>1 DEF Work
<1>3. row' \in [Parts -> PartStates]
  <2>1. row' = [i \in Parts |-> IF \E h \in written : h.id = i
                                THEN Object(CHOOSE h \in written : h.id = i) ELSE row[i]]
    BY DEF Save
  <2>2. ASSUME NEW i \in Parts PROVE row'[i] \in PartStates
    <3>1. CASE \E h \in written : h.id = i
      <4>1. PICK c : c = CHOOSE h \in written : h.id = i OBVIOUS
      <4>2. c \in written BY <3>1, <4>1
      <4>3. row'[i] = Object(c) BY <2>1, <3>1, <4>1
      <4> QED BY <1>2, <4>2, <4>3, Objects DEF PartInv, PartTypes
    <3>2. CASE ~\E h \in written : h.id = i
      <4>1. row'[i] = row[i] BY <2>1, <3>2
      <4> QED BY <4>1 DEF PartInv, PartTypes, QueueTypes
    <3> QED BY <3>1, <3>2
  <2>3. row' = [i \in Parts |-> row'[i]] BY <2>1
  <2> QED BY <2>2, <2>3
<1>4. UNCHANGED <<part, seq, token, expired, holds, flowVars, born, torn, cut, unanswered>> BY DEF Save
<1>5. PICK t : t = [g EXCEPT !.unsaved = {}] OBVIOUS
<1>6. thread' = [thread EXCEPT ![r] = t] BY <1>1, <1>5 DEF Save, PartInv, PartTypes, ThreadTypes
<1>7. t \in Work /\ t.op = g.op /\ t.at = g.at /\ t.done = g.done BY <1>5 DEF Work
<1>8. QueueTypes' BY <1>3, <1>4 DEF PartInv, PartTypes, QueueTypes
<1>9. FlowTypes' BY <1>4 DEF PartInv, PartTypes, FlowTypes, flowVars
<1>10. Changes(0) /\ HistoryGrows BY <1>4, PartsAlone DEF PartInv, HistoryGrows
<1> QED BY <1>1, <1>4, <1>6, <1>7, <1>8, <1>9, <1>10, IdleThread, IdleStep DEF PartInv, PartTypes

\* claim_expires_at passes.
LEMMA ExpireKeepsParts == ASSUME PartInv, NEW k, ExpireClaim(k) PROVE PartInv'
<1>1. /\ expired \subseteq expired'
      /\ UNCHANGED <<part, row, seq, token, thread, holds, flowVars, born, torn, cut, unanswered>>
  BY DEF ExpireClaim
<1>2. QueueTypes' BY <1>1 DEF PartInv, PartTypes, QueueTypes
<1>3. FlowTypes' BY <1>1 DEF PartInv, PartTypes, FlowTypes, flowVars
<1>4. ThreadTypes' BY <1>1 DEF PartInv, PartTypes, ThreadTypes
<1>5. Changes(0) /\ HistoryGrows BY <1>1, PartsAlone DEF PartInv, HistoryGrows
<1> QED BY <1>1, <1>2, <1>3, <1>4, <1>5, IdleStep DEF Idle

\* Claims that have run out are released.
LEMMA ReleaseKeepsParts == ASSUME PartInv, NEW r \in Threads, ReleaseExpired(r) PROVE PartInv'
<1>1. /\ part' = Released /\ thread[r] = Free
      /\ UNCHANGED <<row, seq, token, expired, holds, flowVars, born, torn, cut, unanswered>>
  BY DEF ReleaseExpired
<1>2. /\ Released \in [Parts -> PartStates]
      /\ \A i \in Parts :
            \/ Released[i] = part[i]
            \/ part[i].status = "claimed" /\ part[i].token \in expired /\ Released[i].status = "ready"
  BY Releases DEF PartInv, PartTypes
<1>3. QueueTypes' BY <1>1, <1>2 DEF PartInv, PartTypes, QueueTypes
<1>4. FlowTypes' BY <1>1 DEF PartInv, PartTypes, FlowTypes, flowVars
<1>5. Changes(0)
  <2>1. NoPart.status = "none" BY DEF NoPart
  <2> QED BY <1>1, <1>2, <2>1 DEF PartInv, QueueInv, Changes, ChangesTo
<1>6. PICK u : u \subseteq Copies /\ u = {Own(j) : j \in Lapsed} BY Owns DEF Lapsed
<1>7. PICK t : t = [Free EXCEPT !.op = "consume", !.unsaved = u] OBVIOUS
<1>8. thread' = [thread EXCEPT ![r] = t] BY <1>6, <1>7 DEF ReleaseExpired
<1>9. t \in Work /\ t.op = "consume" /\ t.done = Nothing
  <2>1. t = [op |-> "consume", at |-> "none", left |-> 0, done |-> Nothing, unsaved |-> u]
    BY <1>7 DEF Free
  <2> QED BY <1>6, <2>1 DEF Work, Claims
<1>10. HistoryGrows BY <1>1 DEF HistoryGrows
<1> QED BY <1>1, <1>3, <1>4, <1>5, <1>8, <1>9, <1>10, FreeWork, IdleThread, IdleStep DEF PartInv, PartTypes

\* No row is newer than the newest.
LEMMA NewestRow == Newest \in Nat /\ \A i \in Parts : i > Newest => row[i] = NoPart
<1> DEFINE S == {i \in Parts : row[i] # NoPart} \cup {0}
<1>1. S \in SUBSET (0..MaxParts) /\ S # {} BY PartFlowAssumption DEF Parts
<1>2. Newest \in S /\ \A x \in S : Newest >= x
  BY <1>1, GreatestNumber, PartFlowAssumption DEF Greatest, Newest
<1>3. PICK n \in Nat : n = Newest BY <1>1, <1>2
<1>4. ASSUME NEW i \in Parts, i > n, row[i] # NoPart PROVE FALSE
  <2>1. i \in S BY <1>4
  <2>2. n >= i BY <1>2, <1>3, <2>1
  <2> QED BY <1>4, <2>2 DEF Parts
<1>5. \A i \in Parts : i > Newest => row[i] = NoPart BY <1>3, <1>4
<1> QED BY <1>3, <1>5

\* The queue that is loaded from the rows.
LEMMA CutRows ==
    ASSUME QueueTypes
    PROVE  /\ Cut(row) \in [Parts -> PartStates]
           /\ \A i \in Parts : i > Newest => Cut(row)[i] = NoPart
<1>1. NoPart \in PartStates BY DEF NoPart, PartStates
<1>2. \A i \in Parts : Cut(row)[i] \in {row[i], NoPart} BY DEF Cut
<1>3. Cut(row) \in [Parts -> PartStates] BY <1>1 DEF Cut, QueueTypes
<1>4. \A i \in Parts : i > Newest => Cut(row)[i] = NoPart BY <1>2, NewestRow
<1> QED BY <1>3, <1>4

\* What a reload or a restart sets back.
LEMMA RowsChange ==
    ASSUME QueueTypes, QueueInv, part' = Cut(row), torn \cup Behind \subseteq torn', UNCHANGED born,
           \A i \in Parts : i > seq' => Cut(row)[i] = NoPart,
           \A i \in Parts : i <= seq => i <= seq' \/ i \in torn'
    PROVE  Changes(0)
BY DEF Changes, ChangesTo, Behind

\* A reload: part_queue is replaced by the rows.
LEMMA ReloadKeepsParts == ASSUME PartInv, Reload PROVE PartInv'
<1>1. /\ part' = Cut(row) /\ seq' = Max({seq, Newest}) /\ torn' = torn \cup Behind
      /\ UNCHANGED <<row, token, expired, holds, flowVars, born, cut, unanswered>>
  BY DEF Reload
<1>2. PICK n \in Int : n = Newest /\ n \in Nat BY NewestRow
<1>3. PICK s \in Int : s = seq /\ s \in Nat BY DEF PartInv, PartTypes, QueueTypes
<1>4. PICK m \in Nat : m = seq' /\ m >= n /\ m >= s
  <2>1. Max({s, n}) \in {s, n} /\ Max({s, n}) >= n /\ Max({s, n}) >= s BY MinMax, Zenon
  <2> QED BY <1>1, <1>2, <1>3, <2>1
<1>5. \A i \in Parts : (i > seq' => Cut(row)[i] = NoPart) /\ (i <= seq => i <= seq')
  <2>1. \A i \in Parts : i \in Nat BY DEF Parts
  <2>2. \A i \in Parts : i > n => Cut(row)[i] = NoPart
    BY <1>2, CutRows DEF PartInv, PartTypes
  <2> QED BY <1>3, <1>4, <2>1, <2>2
<1>6. Changes(0) BY <1>1, <1>5, RowsChange DEF PartInv, PartTypes
<1>7. QueueTypes' BY <1>1, <1>4, CutRows DEF PartInv, PartTypes, QueueTypes
<1>8. FlowTypes' BY <1>1 DEF PartInv, PartTypes, FlowTypes, flowVars
<1>9. thread' = Detached(thread, part, Parts) BY DEF Reload
<1>10. ASSUME NEW r \in Threads
       PROVE  /\ thread'[r] \in Work /\ thread'[r].op = thread[r].op /\ thread'[r].at = thread[r].at
              /\ thread'[r].done = thread[r].done
  BY <1>9, DetachedWork DEF PartInv, PartTypes, QueueTypes, ThreadTypes
<1>11. ThreadTypes'
  <2>1. thread' = [r \in Threads |-> thread'[r]] BY <1>9 DEF Detached
  <2> QED BY <1>1, <1>10, <2>1 DEF ThreadTypes, PartInv, PartTypes
<1>12. \A r \in Threads : Idle(r) BY <1>10 DEF Idle
<1>13. HistoryGrows BY <1>1 DEF HistoryGrows
<1> QED BY <1>1, <1>6, <1>7, <1>8, <1>11, <1>12, <1>13, IdleStep

\* retire_node takes parts from the queue and nothing else.
LEMMA RetireKeepsParts == ASSUME PartInv, NEW w, RetireWorkshop(w) PROVE PartInv'
<1>1. PICK out : Leave(part, thread, out) BY DEF RetireWorkshop
<1>2. UNCHANGED <<row, seq, token, expired, holds, flowVars, born, torn, unanswered>>
  BY DEF RetireWorkshop
<1>3. ChangesTo(part, 0) BY <1>2 DEF ChangesTo, PartInv, QueueInv
<1>4. Changes(0) BY <1>1, <1>3, LeaveChanges
<1>5. /\ part' \in [Parts -> PartStates] /\ thread' \in [Threads -> Work]
      /\ \A r \in Threads :
            /\ thread'[r].op = thread[r].op /\ thread'[r].at = thread[r].at
            /\ thread'[r].done = thread[r].done
  BY <1>1, LeaveTypes DEF PartInv, PartTypes, QueueTypes, ThreadTypes
<1>6. QueueTypes' BY <1>2, <1>5 DEF PartInv, PartTypes, QueueTypes
<1>7. FlowTypes' BY <1>2 DEF PartInv, PartTypes, FlowTypes, flowVars
<1>8. ThreadTypes' BY <1>2, <1>5 DEF PartInv, PartTypes, ThreadTypes
<1>9. \A r \in Threads : Idle(r) BY <1>5 DEF Idle
<1>10. HistoryGrows BY <1>1, <1>2 DEF HistoryGrows, Leave
<1> QED BY <1>2, <1>4, <1>6, <1>7, <1>8, <1>9, <1>10, IdleStep

\* A restart of the API: its requests end, the agents are not told.
LEMMA RestartKeepsParts == ASSUME PartInv, RestartApi PROVE PartInv'
<1>1. /\ part' = Cut(row) /\ seq' = Newest /\ torn' = torn \cup Behind \cup (Newest + 1)..seq
      /\ mark' = -1
      /\ unanswered' = unanswered \cup
            {thread[r].done.id : r \in {q \in Threads : thread[q].op = "complete"}}
      /\ thread' = [r \in Threads |-> Free]
      /\ UNCHANGED <<row, token, expired, holds, count, beats, sent, made, created, last, reordered,
                     born, cut>>
  BY DEF RestartApi
<1>2. Changes(0)
  <2>1. \A i \in Parts : i \in Int BY DEF Parts
  <2>2. Newest \in Int /\ seq \in Int BY NewestRow DEF PartInv, PartTypes, QueueTypes
  <2>3. \A i \in Parts : i <= seq => i <= Newest \/ i \in (Newest + 1)..seq BY <2>1, <2>2
  <2>4. \A i \in Parts : i > Newest => Cut(row)[i] = NoPart BY CutRows DEF PartInv, PartTypes
  <2> QED BY <1>1, <2>3, <2>4, RowsChange DEF PartInv, PartTypes
<1>3. HistoryGrows BY <1>1 DEF HistoryGrows
<1>4. QueueInv' BY <1>1, <1>2, ChangesKeepQueue DEF PartInv, PartTypes
<1>5. QueueTypes' BY <1>1, NewestRow, CutRows DEF PartInv, PartTypes, QueueTypes
<1>6. FlowTypes' BY <1>1 DEF PartInv, PartTypes, FlowTypes
<1>7. ThreadTypes' BY <1>1, FreeWork DEF PartInv, PartTypes, ThreadTypes
<1>8. \A r \in Threads : thread'[r].op = "none" /\ thread'[r].done = Nothing BY <1>1, FreeWork
<1>9. TokensUnique' BY <1>1, <1>8 DEF PartInv, ClaimInv, TokensUnique, Busy
<1>10. ASSUME NEW w \in Workshops, holds[w] # Nothing PROVE Good(holds[w])'
  <2>1. PICK d : d = holds[w] OBVIOUS
  <2>2. HeldClaim(d) BY <1>10, <2>1 DEF HeldClaim
  <2>3. d.token # 0 BY <2>2, HeldClaims, ClaimFields DEF PartInv, PartTypes
  <2>4. CASE Good(d)
    <3>1. Good(d)' BY <1>2, <1>3, <2>2, <2>3, <2>4, GoodStays DEF PartInv, PartTypes
    <3> QED BY <1>1, <2>1, <3>1 DEF Good
  <2>5. CASE \E r \in Threads : thread[r].op = "complete" /\ thread[r].done = d
    <3>1. d.id \in unanswered' BY <1>1, <2>5
    <3> QED BY <1>1, <2>1, <3>1 DEF Good
  <2> QED BY <1>10, <2>1, <2>4, <2>5 DEF PartInv, ClaimInv
<1>11. ClaimInv' BY <1>1, <1>8, <1>9, <1>10 DEF ClaimInv
<1> QED BY <1>4, <1>5, <1>6, <1>7, <1>11 DEF PartInv, PartTypes

\* What is saved after a claim.
LEMMA Unsaved == \A S \in SUBSET Parts : {Own(j) : j \in S} \in SUBSET Copies
BY Owns

\* A request takes a part, or ends without one.
LEMMA ConsumeClaimKeeps == ASSUME PartInv, NEW r \in Threads, ConsumeClaim(r) PROVE PartInv'
<1> DEFINE w == thread[r].at
           ready == Claimable(Released, w)
<1>1. PICK g \in Work : g = thread[r] BY DEF PartInv, PartTypes, ThreadTypes
<1>2. /\ g.op = "consume" /\ g.done = Nothing /\ Claim(r, w)
      /\ UNCHANGED <<row, seq, expired, holds, flowVars, born, torn, cut, unanswered>>
  BY <1>1 DEF ConsumeClaim
<1>3. FlowTypes' BY <1>2 DEF PartInv, PartTypes, FlowTypes, flowVars
<1>4. HistoryGrows BY <1>2 DEF HistoryGrows
<1>5. QueueTypes /\ QueueInv /\ ThreadTypes /\ ClaimInv BY DEF PartInv, PartTypes
<1>6. CASE ready = {}
  <2>1. /\ part' = Released /\ UNCHANGED token
        /\ thread' = [thread EXCEPT ![r].unsaved = {Own(j) : j \in Lapsed}, ![r].left = 0]
    BY <1>2, <1>6 DEF Claim
  <2>2. /\ Released \in [Parts -> PartStates]
        /\ \A i \in Parts :
            \/ Released[i] = part[i]
            \/ part[i].status = "claimed" /\ part[i].token \in expired /\ Released[i].status = "ready"
    BY <1>5, Releases
  <2>3. QueueTypes' BY <1>2, <1>5, <2>1, <2>2 DEF QueueTypes
  <2>4. Changes(0)
    <3>1. NoPart.status = "none" BY DEF NoPart
    <3> QED BY <1>2, <1>5, <2>1, <2>2, <3>1 DEF QueueInv, Changes, ChangesTo
  <2>5. PICK u : u \in SUBSET Copies /\ u = {Own(j) : j \in Lapsed}
    <3>1. Lapsed \in SUBSET Parts BY DEF Lapsed
    <3> QED BY <3>1, Unsaved
  <2>6. PICK t : t = [g EXCEPT !.unsaved = u, !.left = 0] OBVIOUS
  <2>7. thread' = [thread EXCEPT ![r] = t] BY <1>1, <1>5, <2>1, <2>5, <2>6 DEF ThreadTypes
  <2>8. t \in Work /\ t.op = g.op /\ t.at = g.at /\ t.done = g.done BY <2>5, <2>6 DEF Work
  <2> QED BY <1>1, <1>2, <1>3, <1>4, <1>5, <2>1, <2>3, <2>4, <2>7, <2>8, IdleThread, IdleStep

<1>7. CASE ready # {}
  <2>1. PICK i : i = Min(ready) OBVIOUS
  <2>2. /\ token' = token + 1
        /\ part' = [Released EXCEPT ![i].status = "claimed", ![i].token = token + 1]
        /\ thread' = [thread EXCEPT ![r].unsaved = {Own(j) : j \in Lapsed \cup {i}},
                                    ![r].done = [id |-> i, token |-> token + 1]]
    BY <1>2, <1>7, <2>1 DEF Claim
  <2>3. /\ i \in Parts /\ QueueTypes' /\ \A k : Changes(k)
        /\ part'[i].status = "claimed" /\ part'[i].token = token + 1
    <3> HIDE DEF w
    <3> QED BY <1>2, <1>5, <1>7, <2>1, <2>2, ClaimChanges
  <2>4. PICK n \in Nat : n = token + 1 /\ n # 0 BY <1>5 DEF QueueTypes
  <2>5. PICK d : d = [id |-> i, token |-> n] OBVIOUS
  <2>6. d \in Claims /\ d.id = i /\ d.token = n /\ d # Nothing BY <2>3, <2>4, <2>5 DEF Claims, Nothing
  <2>7. PICK u : u \in SUBSET Copies /\ u = {Own(j) : j \in Lapsed \cup {i}}
    <3>1. Lapsed \cup {i} \in SUBSET Parts BY <2>3 DEF Lapsed
    <3> QED BY <3>1, Unsaved
  <2>8. PICK t : t = [g EXCEPT !.unsaved = u, !.done = d] OBVIOUS
  <2>9. thread' = [thread EXCEPT ![r] = t]
    BY <1>1, <1>5, <2>2, <2>4, <2>5, <2>7, <2>8 DEF ThreadTypes
  <2>10. t \in Work /\ t.op = "consume" /\ t.done = d BY <1>2, <2>6, <2>7, <2>8 DEF Work
  <2>11. QueueInv' BY <1>2, <1>4, <1>5, <2>3, ChangesKeepQueue DEF HistoryGrows
  <2>12. ThreadTypes' BY <1>2, <1>5, <2>9, <2>10 DEF ThreadTypes
  <2>13. \A e : HeldClaim(e) /\ Good(e) => Good(e)'
    <3>1. Changes(0) BY <2>3
    <3>2. \A e : HeldClaim(e) => e.token # 0 BY <1>5, HeldClaims, ClaimFields
    <3> QED BY <1>4, <1>5, <3>1, <3>2, GoodStays
  <2>14. Good(t.done)' BY <2>3, <2>4, <2>6, <2>10 DEF Good
  <2>15. ClaimInv'
    BY <1>1, <1>2, <1>5, <2>2, <2>4, <2>6, <2>9, <2>10, <2>13, <2>14, TakeKeeps DEF PartInv
  <2> QED BY <1>3, <2>3, <2>11, <2>12, <2>15 DEF PartInv, PartTypes
<1> QED BY <1>6, <1>7

\* claim_next_part for an agent.
LEMMA AgentClaimKeeps ==
    ASSUME PartInv, NEW r \in Threads, NEW w \in Workshops, AgentClaim(r, w) PROVE PartInv'
<1> DEFINE ready == Claimable(Released, w)
<1>1. PICK i : i = Min(ready) OBVIOUS
<1>2. /\ thread[r] = Free /\ ready # {} /\ token' = token + 1
      /\ part' = [Released EXCEPT ![i].status = "claimed", ![i].token = token + 1]
      /\ thread' = [[thread EXCEPT ![r] = [Free EXCEPT !.op = "claim", !.at = w]]
                      EXCEPT ![r].unsaved = {Own(j) : j \in Lapsed \cup {i}},
                             ![r].done = [id |-> i, token |-> token + 1]]
      /\ UNCHANGED <<row, seq, expired, holds, flowVars, born, torn, cut, unanswered>>
  BY <1>1 DEF AgentClaim
<1>3. FlowTypes' BY <1>2 DEF PartInv, PartTypes, FlowTypes, flowVars
<1>4. HistoryGrows BY <1>2 DEF HistoryGrows
<1>5. QueueTypes /\ QueueInv /\ ThreadTypes /\ ClaimInv BY DEF PartInv, PartTypes
<1>6. /\ i \in Parts /\ QueueTypes' /\ \A k : Changes(k)
      /\ part'[i].status = "claimed" /\ part'[i].token = token + 1
  BY <1>1, <1>2, <1>5, ClaimChanges
<1>7. PICK n \in Nat : n = token + 1 /\ n # 0 BY <1>5 DEF QueueTypes
<1>8. PICK d : d = [id |-> i, token |-> n] OBVIOUS
<1>9. d \in Claims /\ d.id = i /\ d.token = n /\ d # Nothing BY <1>6, <1>7, <1>8 DEF Claims, Nothing
<1>10. PICK u : u \in SUBSET Copies /\ u = {Own(j) : j \in Lapsed \cup {i}}
  <2>1. Lapsed \cup {i} \in SUBSET Parts BY <1>6 DEF Lapsed
  <2> QED BY <2>1, Unsaved
<1>11. PICK f : f = [Free EXCEPT !.op = "claim", !.at = w] OBVIOUS
<1>12. f = [op |-> "claim", at |-> w, left |-> 0, done |-> Nothing, unsaved |-> {}]
  BY <1>11 DEF Free
<1>13. PICK t : t = [f EXCEPT !.unsaved = u, !.done = d] OBVIOUS
<1>14. t \in Work /\ t.op = "claim" /\ t.done = d BY <1>9, <1>10, <1>12, <1>13 DEF Work
<1>15. thread' = [thread EXCEPT ![r] = t]
  <2>1. thread' = [[thread EXCEPT ![r] = f] EXCEPT ![r].unsaved = u, ![r].done = d]
    BY <1>2, <1>7, <1>8, <1>10, <1>11
  <2> QED BY <1>5, <1>13, <2>1 DEF ThreadTypes
<1>16. QueueInv' BY <1>2, <1>4, <1>5, <1>6, ChangesKeepQueue DEF HistoryGrows
<1>17. ThreadTypes'
  <2>1. UNCHANGED holds BY <1>2
  <2> QED BY <1>5, <1>14, <1>15, <2>1 DEF ThreadTypes
<1>18. \A e : HeldClaim(e) /\ Good(e) => Good(e)'
  <2>1. Changes(0) BY <1>6
  <2>2. \A e : HeldClaim(e) => e.token # 0 BY <1>5, HeldClaims, ClaimFields
  <2> QED BY <1>4, <1>5, <2>1, <2>2, GoodStays
<1>19. Good(t.done)' BY <1>6, <1>7, <1>9, <1>14 DEF Good
<1>20. ClaimInv'
  BY <1>2, <1>5, <1>7, <1>9, <1>14, <1>15, <1>18, <1>19, FreeWork, TakeKeeps DEF PartInv
<1> QED BY <1>3, <1>6, <1>16, <1>17, <1>20 DEF PartInv, PartTypes

\* complete_claimed_part in a heartbeat's loop: nobody else holds the token.
LEMMA ConsumeCompleteKeeps == ASSUME PartInv, NEW r \in Threads, ConsumeComplete(r) PROVE PartInv'
<1>1. PICK g \in Work : g = thread[r] BY DEF PartInv, PartTypes, ThreadTypes
<1>2. PICK d : d = g.done OBVIOUS
<1>3. /\ g.op = "consume" /\ d # Nothing
      /\ UNCHANGED <<row, token, expired, holds, torn, unanswered>>
      /\ UNCHANGED flowVars
  BY <1>1, <1>2 DEF ConsumeComplete
<1>4. QueueTypes /\ QueueInv /\ ThreadTypes /\ ClaimInv BY DEF PartInv, PartTypes
<1>5. FlowTypes' BY <1>3 DEF PartInv, PartTypes, FlowTypes, flowVars
<1>6. cut \subseteq cut' => HistoryGrows BY <1>3 DEF HistoryGrows
<1>7. PICK i \in Parts : i = d.id
  <2>1. d \in Claims BY <1>2 DEF Work
  <2> QED BY <1>3, <2>1, ClaimFields
<1>8. CASE ~Completable(i, g.at, d.token)
  <2>1. thread' = [thread EXCEPT ![r] = Free] /\ UNCHANGED <<part, seq, born, cut>>
    BY <1>1, <1>2, <1>7, <1>8 DEF ConsumeComplete
  <2>2. QueueTypes' BY <1>3, <1>4, <2>1 DEF QueueTypes
  <2>3. Changes(0) BY <1>4, <2>1, PartsAlone
  <2> QED BY <1>1, <1>3, <1>4, <1>5, <1>6, <2>1, <2>2, <2>3, FreeWork, IdleThread, IdleStep
<1>9. CASE Completable(i, g.at, d.token)
  <2>1. PICK w \in Workshops \cup {"none"} : w = g.at BY DEF Work
  <2>2. PICK l \in Nat : l = IF g.left > 0 THEN g.left - 1 ELSE 0
    <3>1. g.left \in Nat BY DEF Work
    <3> QED BY <3>1
  <2>3. PICK t : t = [g EXCEPT !.done = Nothing, !.left = l] OBVIOUS
  <2>4. t \in Work /\ t.op = "consume" /\ t.at = g.at /\ t.done = Nothing
    BY <1>3, <2>3 DEF Work, Claims
  <2>5. Complete(r, i, w, t)
    <3>1. Complete(r, d.id, g.at, [g EXCEPT !.done = Nothing, !.left = IF @ > 0 THEN @ - 1 ELSE 0])
      BY <1>1, <1>2, <1>7, <1>9 DEF ConsumeComplete
    <3>2. [g EXCEPT !.done = Nothing, !.left = IF @ > 0 THEN @ - 1 ELSE 0] = t
      BY <2>2, <2>3 DEF Work
    <3> QED BY <1>7, <2>1, <3>1, <3>2
  <2>7. Completable(i, w, d.token) BY <1>9, <2>1
  <2>8. UNCHANGED <<row, token>> /\ torn' = torn BY <1>3
  <2>9. /\ QueueTypes' /\ Changes(d.token) /\ cut \subseteq cut' /\ thread' \in [Threads -> Work]
        /\ \A p \in Threads :
              /\ thread'[p].op = IF p = r THEN t.op ELSE thread[p].op
              /\ thread'[p].at = IF p = r THEN t.at ELSE thread[p].at
              /\ thread'[p].left = IF p = r THEN t.left ELSE thread[p].left
              /\ thread'[p].done = IF p = r THEN t.done ELSE thread[p].done
    <3>1. t \in Work BY <2>4
    <3>2. QueueTypes /\ QueueInv /\ ThreadTypes BY <1>4
    <3>3. UNCHANGED <<row, token>> BY <2>8
    <3>4. torn' = torn BY <2>8
    <3> QED BY <2>5, <2>7, <3>1, <3>2, <3>3, <3>4, CompleteChanges
  <2>6. /\ QueueTypes' /\ Changes(d.token) /\ cut \subseteq cut' /\ thread' \in [Threads -> Work]
        /\ \A p \in Threads :
              /\ thread'[p].op = IF p = r THEN t.op ELSE thread[p].op
              /\ thread'[p].at = IF p = r THEN t.at ELSE thread[p].at
              /\ thread'[p].done = IF p = r THEN t.done ELSE thread[p].done
    BY <2>9
  <2>11. ThreadTypes' /\ \A p \in Threads : Idle(p)
    BY <1>1, <1>3, <1>4, <2>4, <2>6 DEF ThreadTypes, Idle
  <2>12. QueueInv' BY <1>3, <1>4, <2>6, ChangesKeepQueue
  <2>13. ASSUME NEW e, HeldClaim(e), e.token = d.token PROVE FALSE
    <3>1. CASE \E v \in Workshops : holds[v] = e /\ e # Nothing
      BY <1>1, <1>2, <1>3, <1>4, <2>13, <3>1 DEF ClaimInv, TokensUnique, Busy
    <3>2. CASE \E p \in Threads : thread[p].op = "claim" /\ thread[p].done = e
      BY <1>1, <1>2, <1>3, <1>4, <2>13, <3>2 DEF ClaimInv, TokensUnique, Busy
    <3> QED BY <2>13, <3>1, <3>2 DEF HeldClaim
  <2>14. \A e : HeldClaim(e) /\ Good(e) => Good(e)' BY <1>4, <1>6, <2>6, <2>13, GoodStays
  <2>15. ClaimInv' BY <1>3, <1>4, <2>11, <2>14, IdleKeeps
  <2> QED BY <1>5, <2>6, <2>11, <2>12, <2>15 DEF PartInv, PartTypes
<1> QED BY <1>8, <1>9

\* complete_claimed_part for an agent: its part is completed, the agent holds it until it is told.
LEMMA AgentCompleteKeeps ==
    ASSUME PartInv, NEW r \in Threads, NEW w \in Workshops, AgentComplete(r, w) PROVE PartInv'
<1>1. PICK d : d = holds[w] OBVIOUS
<1>2. /\ thread[r] = Free /\ d # Nothing /\ Completable(d.id, w, d.token)
      /\ \A q \in Threads : thread[q].op = "complete" => thread[q].at # w
      /\ UNCHANGED <<row, token, expired, holds, torn, unanswered>> /\ UNCHANGED flowVars
  BY <1>1 DEF AgentComplete
<1>3. QueueTypes /\ QueueInv /\ ThreadTypes /\ ClaimInv BY DEF PartInv, PartTypes
<1>4. FlowTypes' BY <1>2 DEF PartInv, PartTypes, FlowTypes, flowVars
<1>6. d \in Claims BY <1>1, <1>3 DEF ThreadTypes
<1>7. PICK i \in Parts : i = d.id BY <1>2, <1>6, ClaimFields
<1>8. PICK t : t = [Free EXCEPT !.op = "complete", !.at = w, !.done = d] OBVIOUS
<1>9. t \in Work /\ t.op = "complete" /\ t.at = w /\ t.done = d
  <2>1. t = [op |-> "complete", at |-> w, left |-> 0, done |-> d, unsaved |-> {}]
    BY <1>8 DEF Free
  <2> QED BY <1>6, <2>1 DEF Work
<1>10. Complete(r, i, w, t) /\ Completable(i, w, d.token)
  BY <1>1, <1>2, <1>7, <1>8 DEF AgentComplete
<1>11. /\ QueueTypes' /\ Changes(d.token) /\ cut \subseteq cut' /\ thread' \in [Threads -> Work]
       /\ \A p \in Threads :
             /\ thread'[p].op = IF p = r THEN "complete" ELSE thread[p].op
             /\ thread'[p].at = IF p = r THEN w ELSE thread[p].at
             /\ thread'[p].done = IF p = r THEN d ELSE thread[p].done
  BY <1>2, <1>3, <1>9, <1>10, CompleteChanges
<1>12. HistoryGrows BY <1>2, <1>11 DEF HistoryGrows
<1>19. ThreadTypes'
  <2>1. UNCHANGED holds BY <1>2
  <2> QED BY <1>3, <1>11, <2>1 DEF ThreadTypes
<1>20. QueueInv' BY <1>2, <1>3, <1>11, ChangesKeepQueue
<1>21. \A e : HeldClaim(e) /\ Good(e) /\ e.token # d.token => Good(e)' BY <1>3, <1>12, <1>11, GoodStays
<1>22. ASSUME NEW p \in Threads, Busy(p)
       PROVE  p # r /\ thread[p].done.token # d.token
  <2>1. p # r BY <1>2, <1>22, FreeWork DEF Busy
  <2> QED BY <1>1, <1>2, <1>3, <1>22, <2>1 DEF ClaimInv, TokensUnique
<1>23. TokensUnique'
  <2>1. d.token <= token BY <1>1, <1>2, <1>3 DEF ClaimInv, TokensUnique
  <2>2. \A p \in Threads : Busy(p)' => p = r \/ Busy(p) BY <1>11 DEF Busy
  <2>3. \A p \in Threads :
           p = r \/ /\ thread'[p].op = thread[p].op /\ thread'[p].at = thread[p].at
                    /\ thread'[p].done = thread[p].done
    BY <1>11
  <2>4. /\ thread'[r].op = "complete" /\ thread'[r].at = w /\ thread'[r].done = d
        /\ UNCHANGED <<token, holds>>
    BY <1>2, <1>11
  <2>5. \A v \in Workshops : holds[v] # Nothing /\ holds[v].token = d.token => v = w
    BY <1>1, <1>2, <1>3 DEF ClaimInv, TokensUnique
  <2> HIDE DEF Busy
  <2> QED BY <1>3, <1>22, <2>1, <2>2, <2>3, <2>4, <2>5 DEF ClaimInv, TokensUnique
<1>24. ASSUME NEW v \in Workshops, holds[v] # Nothing
       PROVE  \/ Good(holds[v])'
              \/ \E p \in Threads : thread'[p].op = "complete" /\ thread'[p].done = holds[v]
  <2>1. PICK e : e = holds[v] OBVIOUS
  <2>2. HeldClaim(e) BY <1>24, <2>1 DEF HeldClaim
  <2>3. CASE v = w BY <1>1, <1>11, <2>3
  <2>4. CASE v # w
    <3>1. e.token # d.token BY <1>1, <1>2, <1>3, <1>24, <2>1, <2>4 DEF ClaimInv, TokensUnique
    <3>2. CASE Good(e)
      <4>1. Good(e)' BY <1>21, <2>2, <3>1, <3>2
      <4> QED BY <1>2, <2>1, <4>1 DEF Good
    <3>3. CASE \E p \in Threads : thread[p].op = "complete" /\ thread[p].done = e
      BY <1>2, <1>11, <2>1, <3>3, FreeWork
    <3> QED BY <1>3, <1>24, <2>1, <3>2, <3>3 DEF ClaimInv
  <2> QED BY <2>3, <2>4
<1>25. ASSUME NEW p \in Threads, thread'[p].op = "claim" PROVE Busy(p)' /\ Good(thread[p].done)'
  <2>1. p # r /\ thread'[p].done = thread[p].done /\ thread[p].op = "claim" BY <1>11, <1>25
  <2>2. PICK e : e = thread[p].done OBVIOUS
  <2>3. Busy(p) /\ Good(e) /\ HeldClaim(e) BY <1>3, <1>25, <2>1, <2>2 DEF ClaimInv, HeldClaim
  <2>4. e.token # d.token BY <1>22, <2>2, <2>3
  <2>5. Good(e)' BY <1>21, <2>3, <2>4
  <2> QED BY <2>1, <2>2, <2>3, <2>5 DEF Good, Busy
<1>26. ClaimInv' BY <1>2, <1>23, <1>24, <1>25 DEF ClaimInv
<1> QED BY <1>4, <1>11, <1>19, <1>20, <1>26 DEF PartInv, PartTypes

\* Every step keeps the parts and the claims.
LEMMA PartStepKeeps == PartInv /\ [TurningStep \/ QueueStep \/ ClaimStep]_partVars => PartInv'
<1> SUFFICES ASSUME PartInv, [TurningStep \/ QueueStep \/ ClaimStep]_partVars PROVE PartInv'
  OBVIOUS
<1>1. CASE TurningStep
  BY <1>1, BeatsKeepParts, CreateKeepsParts DEF TurningStep
<1>2. CASE QueueStep
  BY <1>2, ReloadKeepsParts, RestartKeepsParts, BeatsKeepParts, SaveKeepsParts DEF QueueStep
<1>3. CASE ClaimStep
  <2>1. ASSUME NEW r \in Threads, NEW x \in BOOLEAN, AgentClaimed(r, x) \/ AgentCompleted(r, x)
        PROVE  PartInv'
    <3>1. /\ ClaimInv' /\ ThreadTypes' /\ UNCHANGED <<queueVars, flowVars, born, torn, cut>>
      BY <2>1, AnswerKeeps DEF PartInv
    <3>2. QueueTypes' /\ QueueInv' BY <3>1 DEF PartInv, PartTypes, QueueTypes, QueueInv, queueVars
    <3>3. FlowTypes' BY <3>1 DEF PartInv, PartTypes, FlowTypes, flowVars
    <3> QED BY <3>1, <3>2, <3>3 DEF PartInv, PartTypes
  <2>2. ASSUME NEW w \in Workshops, AgentRestarts(w) PROVE PartInv'
    <3>1. ClaimInv' /\ PartTypes' /\ UNCHANGED <<queueVars, born, torn, cut>>
      BY <2>2, AgentRestartKeeps DEF PartInv
    <3>2. QueueInv' BY <3>1 DEF PartInv, QueueInv, queueVars
    <3> QED BY <3>1, <3>2 DEF PartInv
  <2> QED BY <1>3, <2>1, <2>2, ExpireKeepsParts, ConsumeClaimKeeps, ConsumeCompleteKeeps,
             ReleaseKeepsParts, BeatsKeepParts, AgentClaimKeeps, AgentCompleteKeeps,
             RetireKeepsParts DEF ClaimStep
<1>4. CASE UNCHANGED partVars
  <2>1. /\ UNCHANGED <<part, row, seq, token, expired, thread, holds, born, torn, cut, unanswered>>
        /\ UNCHANGED flowVars
    BY <1>4 DEF partVars, queueVars
  <2>2. QueueTypes' /\ ThreadTypes' BY <2>1 DEF PartInv, PartTypes, QueueTypes, ThreadTypes
  <2>3. FlowTypes' BY <2>1 DEF PartInv, PartTypes, FlowTypes, flowVars
  <2>4. Changes(0) /\ HistoryGrows BY <2>1, PartsAlone DEF PartInv, HistoryGrows
  <2> QED BY <2>1, <2>2, <2>3, <2>4, IdleStep DEF Idle
<1> QED BY <1>1, <1>2, <1>3, <1>4

\* The queue begins with parts of an earlier life and without claims.
LEMMA PartsBegin == PartBegin => PartInv
<1> SUFFICES ASSUME PartBegin PROVE PartInv OBVIOUS
<1>1. /\ row \in [Parts -> {NoPart} \cup [status : {"ready", "completed"}, at : Workshops, token : {0}]]
      /\ part = Cut(row) /\ seq = Newest
      /\ token = 0 /\ thread = [r \in Threads |-> Free] /\ holds = [w \in Workshops |-> Nothing]
      /\ mark = -1 /\ count = 0 /\ beats = {} /\ sent = 0
      /\ born = [i \in Parts |-> 0] /\ made = 0 /\ created = 0 /\ last = 0
  BY DEF PartBegin, PartInit
<1>2. row \in [Parts -> PartStates]
  <2>1. {NoPart} \cup [status : {"ready", "completed"}, at : Workshops, token : {0}] \subseteq PartStates
    BY DEF NoPart, PartStates
  <2> QED BY <1>1, <2>1
<1>3. part \in [Parts -> PartStates] /\ \A i \in Parts : part[i] \in {row[i], NoPart}
  <2>1. NoPart \in PartStates BY DEF NoPart, PartStates
  <2> QED BY <1>1, <1>2, <2>1 DEF Cut
<1>6. QueueTypes BY <1>1, <1>2, <1>3, NewestRow DEF QueueTypes
<1>7. QueueInv
  <2>1. \A i \in Parts : i > seq => part[i] = NoPart BY <1>1, <1>3, NewestRow
  <2>2. \A i \in Parts : born[i] = 0 BY <1>1
  <2> QED BY <2>1, <2>2 DEF QueueInv
<1>8. FlowTypes BY <1>1 DEF FlowTypes
<1>9. ThreadTypes BY <1>1, FreeWork DEF ThreadTypes, Claims
<1>10. ClaimInv BY <1>1, FreeWork DEF ClaimInv, TokensUnique, Busy
<1> QED BY <1>6, <1>7, <1>8, <1>9, <1>10 DEF PartInv, PartTypes

\* The queue, its claims and the requests stay well-formed, and only a completed part begets
\* another one: what claim_next_part and complete_active_part rely on.
THEOREM PartsInvariant == PartSpec => []PartInv
BY PartsBegin, PartStepKeeps, PTL DEF PartSpec

\* claim_next_part, complete_active_part and the loop of a heartbeat: a part is completed once,
\* and what an agent works on is claimed for it, for every number of threads, parts and claims
\* and from every queue the API can have been started with.
THEOREM ClaimsKept == PartSpec => []ClaimKept
<1>1. PartInv => ClaimKept
  <2> SUFFICES ASSUME PartInv PROVE ClaimKept OBVIOUS
  <2>1. \A i \in Parts : born[i] <= 1 \/ i \in torn BY DEF PartInv, QueueInv
  <2>2. \A w \in Workshops : holds[w] # Nothing =>
          Good(holds[w]) \/ \E r \in Threads : thread[r].op = "complete" /\ thread[r].done = holds[w]
    BY DEF PartInv, ClaimInv
  <2> QED BY <2>1, <2>2 DEF ClaimKept, Good
<1> QED BY <1>1, PartsInvariant, PTL

-----------------------------------------------------------------------------
(* Parts for milling *)

\* pieces[n] and counts[n]: pieces turned, and the agent's count, when heartbeat n was sent.  No
\* count has grown by more than was turned in between.
Counted(pieces, counts) ==
    /\ \A n \in 0..sent : \A m \in 0..n :
          pieces[m] <= pieces[n] /\ counts[n] - counts[m] <= pieces[n] - pieces[m]
    /\ \A n \in 0..sent : pieces[n] <= made /\ count - counts[n] <= made - pieces[n]
    /\ \A b \in beats : b.no \in 0..sent /\ b.count = counts[b.no]
    /\ last \in 0..sent /\ (mark = -1 \/ mark = counts[last])

\* Pieces 1..top are accounted for: one for each part that is created, and others that each
\* request under way may still create a part for.
Assigned(top, given, share) ==
    /\ given \subseteq 1..top /\ Cardinality(given) = created
    /\ \A r \in Threads : thread[r].op = "create" =>
          /\ share[r] \subseteq (1..top) \ given /\ Cardinality(share[r]) = thread[r].left
          /\ \A q \in Threads : thread[q].op = "create" /\ share[r] \cap share[q] # {} => q = r

Accounted ==
    \/ reordered
    \/ \E pieces, counts \in [Nat -> Nat], top \in Nat :
          /\ Counted(pieces, counts) /\ top <= pieces[last]
          /\ \E given, share : Assigned(top, given, share)

\* Requests that create parts go on as they were, or end.
Creators ==
    \A r \in Threads : thread'[r].op = "create" =>
       thread[r].op = "create" /\ thread'[r].left = thread[r].left

\* A step that creates nothing and handles no heartbeat of turning.
LEMMA AccountSame ==
    ASSUME Accounted, UNCHANGED <<count, beats, sent, made, created, last, reordered>>,
           mark' = mark \/ mark' = -1, Creators
    PROVE  Accounted'
<1>1. CASE reordered BY <1>1 DEF Accounted
<1>2. ASSUME NEW pieces \in [Nat -> Nat], NEW counts \in [Nat -> Nat], NEW top \in Nat,
             NEW given, NEW share,
             Counted(pieces, counts), top <= pieces[last], Assigned(top, given, share)
      PROVE  Accounted'
  <2>1. Counted(pieces, counts)' BY <1>2 DEF Counted
  <2>2. Assigned(top, given, share)' BY <1>2 DEF Assigned, Creators
  <2>3. top <= pieces[last'] BY <1>2
  <2> QED BY <2>1, <2>2, <2>3 DEF Accounted
<1> QED BY <1>1, <1>2 DEF Accounted

\* The steps of the queue and the claims create no part for milling.
LEMMA ClaimsCreateNone ==
    ASSUME PartInv, QueueStep \/ ClaimStep
    PROVE  /\ Creators /\ UNCHANGED <<count, beats, sent, made, created, last, reordered>>
           /\ mark' = mark \/ mark' = -1
<1>0. QueueTypes /\ QueueInv /\ ThreadTypes /\ \A r \in Threads : thread[r] \in Work
  BY DEF PartInv, PartTypes, ThreadTypes
<1>1. ASSUME NEW r \in Threads, NEW t, thread' = [thread EXCEPT ![r] = t],
             t.op = "create" => thread[r].op = "create" /\ t.left = thread[r].left
      PROVE  Creators
  BY <1>0, <1>1 DEF Creators, ThreadTypes
<1>2. CASE RestartApi BY <1>2, FreeWork DEF RestartApi, Creators
<1>3. CASE UNCHANGED flowVars /\ Creators BY <1>3 DEF flowVars
<1>4. ASSUME Reload \/ \E w : RetireWorkshop(w) PROVE UNCHANGED flowVars /\ Creators
  <2>1. UNCHANGED flowVars BY <1>4 DEF Reload, RetireWorkshop
  <2>2. PICK out : thread' = Detached(thread, part, out) BY <1>4 DEF Reload, RetireWorkshop, Leave
  <2>3. \A r \in Threads : thread'[r].op = thread[r].op /\ thread'[r].left = thread[r].left
    BY <1>0, <2>2, DetachedWork DEF QueueTypes, ThreadTypes
  <2> QED BY <2>1, <2>3 DEF Creators
<1>5. ASSUME NEW r \in Threads, NEW written, Save(r, written) PROVE UNCHANGED flowVars /\ Creators
  <2>1. PICK g \in Work : g = thread[r] BY <1>0
  <2>2. PICK t : t = [g EXCEPT !.unsaved = {}] OBVIOUS
  <2>3. t.op = g.op /\ t.left = g.left BY <2>2 DEF Work
  <2>4. thread' = [thread EXCEPT ![r] = t] BY <1>0, <1>5, <2>1, <2>2 DEF Save, ThreadTypes
  <2> QED BY <1>1, <1>5, <2>1, <2>3, <2>4, ZenonT(60) DEF Save
<1>6. ASSUME NEW r \in Threads, EndBeat(r) \/ \E x \in BOOLEAN : AgentClaimed(r, x) \/ AgentCompleted(r, x)
      PROVE  UNCHANGED flowVars /\ Creators
  <2>1. thread' = [thread EXCEPT ![r] = Free] /\ UNCHANGED flowVars
    BY <1>6 DEF EndBeat, AgentClaimed, AgentCompleted
  <2> QED BY <1>1, <2>1, FreeWork
<1>7. ASSUME NEW r \in Threads, ConsumeClaim(r) PROVE UNCHANGED flowVars /\ Creators
  <2>1. PICK g \in Work : g = thread[r] BY <1>0
  <2>2. UNCHANGED flowVars /\ g.op = "consume" BY <1>7, <2>1 DEF ConsumeClaim
  <2>3. \/ \E u, d : thread' = [thread EXCEPT ![r].unsaved = u, ![r].done = d]
        \/ \E u : thread' = [thread EXCEPT ![r].unsaved = u, ![r].left = 0]
    BY <1>7 DEF ConsumeClaim, Claim
  <2>4. ASSUME NEW u, NEW d, thread' = [thread EXCEPT ![r].unsaved = u, ![r].done = d]
        PROVE  \E t : thread' = [thread EXCEPT ![r] = t] /\ t.op # "create"
    <3>1. PICK t : t = [g EXCEPT !.unsaved = u, !.done = d] OBVIOUS
    <3>2. thread' = [thread EXCEPT ![r] = t] BY <1>0, <2>1, <2>4, <3>1 DEF ThreadTypes
    <3>3. t.op = g.op BY <3>1 DEF Work
    <3> QED BY <2>2, <3>2, <3>3
  <2>5. ASSUME NEW u, thread' = [thread EXCEPT ![r].unsaved = u, ![r].left = 0]
        PROVE  \E t : thread' = [thread EXCEPT ![r] = t] /\ t.op # "create"
    <3>1. PICK t : t = [g EXCEPT !.unsaved = u, !.left = 0] OBVIOUS
    <3>2. thread' = [thread EXCEPT ![r] = t] BY <1>0, <2>1, <2>5, <3>1 DEF ThreadTypes
    <3>3. t.op = g.op BY <3>1 DEF Work
    <3> QED BY <2>2, <3>2, <3>3
  <2> QED BY <1>1, <2>2, <2>3, <2>4, <2>5
<1>8. ASSUME NEW r \in Threads, NEW i \in Parts, NEW w \in Workshops \cup {"none"},
             NEW t \in Work, NEW k,
             Completable(i, w, k), Complete(r, i, w, t), t.op # "create", torn' = torn,
             UNCHANGED <<row, token>>
      PROVE  Creators
  <2>1. \A p \in Threads :
           /\ thread'[p].op = IF p = r THEN t.op ELSE thread[p].op
           /\ thread'[p].left = IF p = r THEN t.left ELSE thread[p].left
    BY <1>0, <1>8, CompleteChanges
  <2> QED BY <1>8, <2>1 DEF Creators
<1>9. ASSUME NEW r \in Threads, ConsumeComplete(r) PROVE UNCHANGED flowVars /\ Creators
  <2>1. PICK g \in Work : g = thread[r] BY <1>0
  <2>2. /\ UNCHANGED flowVars /\ g.op = "consume" /\ g.done # Nothing /\ torn' = torn
        /\ UNCHANGED <<row, token>>
    BY <1>9, <2>1 DEF ConsumeComplete
  <2>3. CASE thread' = [thread EXCEPT ![r] = Free] BY <1>1, <2>2, <2>3, FreeWork
  <2>4. CASE ~(thread' = [thread EXCEPT ![r] = Free])
    <3>1. PICK l \in Nat : l = IF g.left > 0 THEN g.left - 1 ELSE 0
      <4>1. g.left \in Nat BY DEF Work
      <4> QED BY <4>1
    <3>2. PICK t : t = [g EXCEPT !.done = Nothing, !.left = l] OBVIOUS
    <3>3. t \in Work /\ t.op = "consume" BY <2>2, <3>2 DEF Work, Claims
    <3>4. PICK i \in Parts : i = g.done.id BY <2>2, ClaimFields DEF Work
    <3>5. [g EXCEPT !.done = Nothing, !.left = IF @ > 0 THEN @ - 1 ELSE 0] = t
      BY <3>1, <3>2 DEF Work
    <3>6. Completable(i, g.at, g.done.token) /\ Complete(r, i, g.at, t)
      BY <1>9, <2>1, <2>4, <3>4, <3>5 DEF ConsumeComplete
    <3>7. g.at \in Workshops \cup {"none"} BY DEF Work
    <3> QED BY <1>8, <2>2, <3>3, <3>6, <3>7
  <2> QED BY <2>3, <2>4
<1>10. ASSUME NEW r \in Threads,
              \/ ReleaseExpired(r)
              \/ \E w \in Workshops : \E delta \in 1..MaxDelta : WorkshopBeat(r, w, delta)
       PROVE  UNCHANGED flowVars /\ Creators
  <2>1. CASE ReleaseExpired(r)
    <3>1. PICK t : t = [Free EXCEPT !.op = "consume", !.unsaved = {Own(j) : j \in Lapsed}] OBVIOUS
    <3>2. t.op = "consume" BY <3>1 DEF Free
    <3> QED BY <1>1, <2>1, <3>1, <3>2 DEF ReleaseExpired
  <2>2. ASSUME NEW w, NEW delta, WorkshopBeat(r, w, delta)
        PROVE  UNCHANGED flowVars /\ Creators
    <3>1. PICK t : t = [Free EXCEPT !.op = "consume", !.at = w, !.left = delta] OBVIOUS
    <3>2. t.op = "consume" BY <3>1 DEF Free
    <3> QED BY <1>1, <2>2, <3>1, <3>2 DEF WorkshopBeat
  <2> QED BY <1>10, <2>1, <2>2
<1>11. ASSUME NEW r \in Threads, NEW w \in Workshops, AgentClaim(r, w)
       PROVE  UNCHANGED flowVars /\ Creators
  <2>1. PICK f : f = [Free EXCEPT !.op = "claim", !.at = w] OBVIOUS
  <2>2. PICK u, d : thread' = [[thread EXCEPT ![r] = f] EXCEPT ![r].unsaved = u, ![r].done = d]
    BY <1>11, <2>1 DEF AgentClaim
  <2>3. PICK t : t = [f EXCEPT !.unsaved = u, !.done = d] OBVIOUS
  <2>4. t.op = "claim" BY <2>1, <2>3 DEF Free
  <2>5. thread' = [thread EXCEPT ![r] = t] BY <1>0, <2>2, <2>3 DEF ThreadTypes
  <2> QED BY <1>1, <1>11, <2>4, <2>5 DEF AgentClaim
<1>12. ASSUME NEW r \in Threads, NEW w \in Workshops, AgentComplete(r, w)
       PROVE  UNCHANGED flowVars /\ Creators
  <2>1. PICK d \in Claims : d = holds[w] BY <1>0 DEF ThreadTypes
  <2>2. PICK t : t = [Free EXCEPT !.op = "complete", !.at = w, !.done = d] OBVIOUS
  <2>3. t \in Work /\ t.op = "complete"
    <3>1. t = [op |-> "complete", at |-> w, left |-> 0, done |-> d, unsaved |-> {}]
      BY <2>2 DEF Free
    <3> QED BY <3>1 DEF Work
  <2>4. /\ Completable(d.id, w, d.token) /\ Complete(r, d.id, w, t) /\ d # Nothing /\ torn' = torn
        /\ UNCHANGED <<row, token>>
    BY <1>12, <2>1, <2>2 DEF AgentComplete
  <2>5. d.id \in Parts BY <2>4, ClaimFields
  <2> QED BY <1>8, <1>12, <2>3, <2>4, <2>5 DEF AgentComplete
<1>13. ASSUME (\E k : ExpireClaim(k)) \/ \E w : AgentRestarts(w)
       PROVE  UNCHANGED flowVars /\ Creators
  BY <1>13 DEF ExpireClaim, AgentRestarts, Creators
<1>14. CASE QueueStep
  BY <1>2, <1>3, <1>4, <1>5, <1>6, <1>14 DEF QueueStep
<1>15. CASE ClaimStep
  BY <1>3, <1>4, <1>6, <1>7, <1>9, <1>10, <1>11, <1>12, <1>13, <1>15 DEF ClaimStep
<1> QED BY <1>14, <1>15

\* A piece is turned, the agent starts again, a heartbeat is sent.
LEMMA TurningSends ==
    ASSUME PartInv, Accounted, MakePiece \/ RestartTurning \/ SendBeat PROVE Accounted'
<1>1. CASE reordered
  BY <1>1 DEF Accounted, MakePiece, RestartTurning, SendBeat
<1>2. ASSUME NEW pieces \in [Nat -> Nat], NEW counts \in [Nat -> Nat], NEW top \in Nat,
             NEW given, NEW share,
             Counted(pieces, counts), top <= pieces[last], Assigned(top, given, share)
      PROVE  Accounted'
  <2>1. count \in Nat /\ sent \in Nat /\ made \in Nat /\ last \in Nat BY DEF PartInv, PartTypes, FlowTypes
  <2>2. UNCHANGED <<thread, created, last, mark>> BY DEF MakePiece, RestartTurning, SendBeat
  <2>3. Assigned(top, given, share)' BY <1>2, <2>2 DEF Assigned
  <2>4. \A n \in 0..sent : n \in Nat /\ pieces[n] \in Nat /\ counts[n] \in Nat BY <2>1
  <2>5. CASE MakePiece \/ RestartTurning
    <3>1. UNCHANGED <<beats, sent>> /\ ((made' = made + 1 /\ count' = count + 1) \/ (made' = made /\ count' = 0))
      BY <2>5 DEF MakePiece, RestartTurning
    <3>2. \A n \in 0..sent : pieces[n] <= made' /\ count' - counts[n] <= made' - pieces[n]
      <4> SUFFICES ASSUME NEW n \in 0..sent
                   PROVE  pieces[n] <= made' /\ count' - counts[n] <= made' - pieces[n]
        OBVIOUS
      <4>1. pieces[n] <= made /\ count - counts[n] <= made - pieces[n] BY <1>2 DEF Counted
      <4>2. PICK p \in Nat, c \in Nat : p = pieces[n] /\ c = counts[n] BY <2>4
      <4> QED BY <2>1, <3>1, <4>1, <4>2
    <3>3. Counted(pieces, counts)' BY <1>2, <2>2, <3>1, <3>2 DEF Counted
    <3> QED BY <1>2, <2>2, <2>3, <3>3 DEF Accounted
  <2>6. CASE SendBeat
    <3>1. PICK s \in Nat : s = sent + 1 /\ s # 0 BY <2>1
    <3>2. PICK P \in [Nat -> Nat] : P = [pieces EXCEPT ![s] = made] BY <2>1
    <3>3. PICK K \in [Nat -> Nat] : K = [counts EXCEPT ![s] = count] BY <2>1
    <3>4. /\ sent' = s /\ beats' = beats \cup {[no |-> s, count |-> count]} /\ UNCHANGED <<count, made>>
      BY <2>6, <3>1 DEF SendBeat
    <3>5. /\ P[s] = made /\ K[s] = count
          /\ \A n \in Nat : n # s => P[n] = pieces[n] /\ K[n] = counts[n]
      BY <3>2, <3>3
    <3>6. \A n \in 0..s : n = s \/ (n \in 0..sent /\ n # s) BY <2>1, <3>1
    <3>7. \A n \in 0..sent : n # s /\ n \in 0..s BY <2>1, <3>1
    <3>8. last \in 0..sent BY <1>2 DEF Counted
    <3>9. \A n \in 0..s : P[n] <= made /\ count - K[n] <= made - P[n]
      <4> SUFFICES ASSUME NEW n \in 0..s PROVE P[n] <= made /\ count - K[n] <= made - P[n] OBVIOUS
      <4>1. CASE n = s BY <2>1, <3>5, <4>1
      <4>2. CASE n \in 0..sent /\ n # s BY <1>2, <2>4, <3>5, <4>2 DEF Counted
      <4> QED BY <3>6, <4>1, <4>2
    <3>10. ASSUME NEW n \in 0..s, NEW m \in 0..n PROVE P[m] <= P[n] /\ K[n] - K[m] <= P[n] - P[m]
      <4>1. n \in Nat /\ m \in Nat /\ m \in 0..s BY <3>1
      <4>2. CASE n = s
        <5>1. P[m] <= made /\ count - K[m] <= made - P[m] BY <3>9, <4>1
        <5> QED BY <3>5, <4>2, <5>1
      <4>3. CASE n \in 0..sent /\ n # s
        <5>1. m # s /\ m \in 0..n BY <2>1, <3>1, <4>3
        <5>2. pieces[m] <= pieces[n] /\ counts[n] - counts[m] <= pieces[n] - pieces[m]
          BY <1>2, <4>3 DEF Counted
        <5> QED BY <3>5, <4>1, <4>3, <5>1, <5>2
      <4> QED BY <3>6, <4>2, <4>3
    <3>11. PICK c : c = [no |-> s, count |-> count] OBVIOUS
    <3>12. \A b \in beats' : b.no \in 0..s /\ b.count = K[b.no]
      <4>1. ASSUME NEW b \in beats PROVE b.no \in 0..s /\ b.count = K[b.no]
        <5>1. b.no \in 0..sent /\ b.count = counts[b.no] BY <1>2 DEF Counted
        <5> QED BY <2>4, <3>5, <3>7, <5>1
      <4>2. c.no = s /\ c.count = count BY <3>11
      <4>3. s \in 0..s BY <3>1
      <4> QED BY <3>4, <3>5, <3>11, <4>1, <4>2, <4>3
    <3>13. last \in 0..s /\ (mark = -1 \/ mark = K[last])
      <4>1. mark = -1 \/ mark = counts[last] BY <1>2 DEF Counted
      <4> QED BY <2>4, <3>5, <3>7, <3>8, <4>1
    <3>14. Counted(P, K)' BY <2>2, <3>4, <3>9, <3>10, <3>12, <3>13 DEF Counted
    <3>15. top <= P[last'] BY <1>2, <2>1, <2>2, <3>5, <3>7, <3>8
    <3> QED BY <2>3, <3>14, <3>15 DEF Accounted
  <2> QED BY <2>5, <2>6
<1> QED BY <1>1, <1>2 DEF Accounted

\* _advance_part_flow_from_heartbeat: the pieces since the last heartbeat are for this one.
LEMMA BeatAssigns ==
    ASSUME PartInv, Accounted, NEW r \in Threads, NEW b \in beats, TurningBeat(r, b) PROVE Accounted'
<1>1. /\ thread[r] = Free /\ beats' \subseteq beats /\ mark' = b.count
      /\ reordered' = (reordered \/ b.no < last) /\ last' = Max({last, b.no})
      /\ UNCHANGED <<count, sent, made, created>>
  BY DEF TurningBeat
<1>2. CASE reordered \/ b.no < last BY <1>1, <1>2 DEF Accounted
<1>3. ASSUME ~(reordered \/ b.no < last), NEW pieces \in [Nat -> Nat], NEW counts \in [Nat -> Nat],
             NEW top \in Nat, NEW given, NEW share,
             Counted(pieces, counts), top <= pieces[last], Assigned(top, given, share)
      PROVE  Accounted'
  <2>1. FlowTypes BY DEF PartInv, PartTypes
  <2>2. PICK n \in Int : n = b.no /\ n \in 0..sent /\ b.count = counts[n]
    BY <1>3, <2>1 DEF Counted, FlowTypes
  <2>3. PICK l \in Int : l = last /\ l \in 0..n
    BY <1>3, <2>1, <2>2 DEF FlowTypes
  <2>4. last' = n
    <3>1. Max({l, n}) \in {l, n} /\ Max({l, n}) >= n BY MinMax, Zenon
    <3>2. l <= n BY <2>2, <2>3
    <3>3. Max({l, n}) = n BY <3>1, <3>2
    <3> QED BY <1>1, <2>2, <2>3, <3>3
  <2>5. pieces[l] <= pieces[n] /\ counts[n] - counts[l] <= pieces[n] - pieces[l]
    BY <1>3, <2>2, <2>3 DEF Counted
  <2>6. PICK p \in Nat, q \in Nat, c \in Nat, d \in Nat :
           p = pieces[l] /\ q = pieces[n] /\ c = counts[l] /\ d = counts[n]
    BY <2>1, <2>2, <2>3 DEF FlowTypes
  <2>7. PICK D \in Nat : D = Delta(d) BY <2>1, DeltaNumber
  <2>8. top + D <= q
    <3>1. CASE D = 0 BY <1>3, <2>3, <2>5, <2>6, <3>1
    <3>2. CASE D # 0
      <4>1. mark >= 0 /\ D <= d - mark BY <2>1, <2>6, <2>7, <3>2, DeltaNumber
      <4>2. mark = c BY <1>3, <2>3, <2>6, <4>1 DEF Counted
      <4> QED BY <1>3, <2>3, <2>5, <2>6, <4>1, <4>2
    <3> QED BY <3>1, <3>2
  <2>9. Counted(pieces, counts)' BY <1>1, <1>3, <2>2, <2>4 DEF Counted
  <2>10. PICK u \in Nat : u = top + D OBVIOUS
  <2>11. u <= pieces[last'] BY <2>4, <2>6, <2>8, <2>10
  <2>12. PICK t : /\ thread' = [thread EXCEPT ![r] = t]
                  /\ t.op = "create" => t.left = D
    <3>1. PICK x : x = [Free EXCEPT !.op = "create", !.left = D] OBVIOUS
    <3>2. x.left = D BY <3>1 DEF Free
    <3>3. PICK y : y = IF D = 0 THEN Free ELSE x OBVIOUS
    <3>4. y.op = "create" => y.left = D BY <3>2, <3>3, FreeWork
    <3>5. thread' = [thread EXCEPT ![r] = y] BY <2>2, <2>6, <2>7, <3>1, <3>3 DEF TurningBeat
    <3> QED BY <3>4, <3>5
  <2>13. \A a \in Threads : thread'[a] = IF a = r THEN t ELSE thread[a]
    BY <2>12 DEF PartInv, PartTypes, ThreadTypes
  <2>14. PICK S : S = (top + 1)..u OBVIOUS
  <2>15. Cardinality(S) = D /\ S \subseteq 1..u /\ 1..top \subseteq 1..u /\ S \cap (1..top) = {}
    <3>1. Cardinality((top + 1)..u) = IF top + 1 > u THEN 0 ELSE u - (top + 1) + 1
      BY <2>10, FS_Interval
    <3>2. Cardinality(S) = D BY <2>10, <2>14, <3>1
    <3>3. \A z \in S : z \in 1..u /\ z \notin 1..top BY <2>10, <2>14
    <3>4. \A z \in 1..top : z \in 1..u BY <2>10
    <3> QED BY <3>2, <3>3, <3>4
  <2>16. PICK sh : sh = [a \in Threads |-> IF a = r THEN S ELSE share[a]] OBVIOUS
  <2>17. sh[r] = S /\ \A a \in Threads : a # r => sh[a] = share[a] BY <2>16
  <2>18. Assigned(u, given, sh)'
    <3>1. given \subseteq 1..top /\ Cardinality(given) = created BY <1>3 DEF Assigned
    <3>2. ASSUME NEW a \in Threads, thread'[a].op = "create"
          PROVE  /\ sh[a] \subseteq (1..u) \ given /\ Cardinality(sh[a]) = thread'[a].left
                 /\ a # r => sh[a] \subseteq 1..top
      <4>1. CASE a = r BY <2>12, <2>13, <2>15, <2>17, <3>1, <3>2, <4>1
      <4>2. CASE a # r BY <1>3, <2>13, <2>15, <2>17, <3>2, <4>2 DEF Assigned
      <4> QED BY <4>1, <4>2
    <3>3. ASSUME NEW a \in Threads, NEW e \in Threads, thread'[a].op = "create",
                 thread'[e].op = "create", sh[a] \cap sh[e] # {}
          PROVE  e = a
      <4>1. CASE a # r /\ e # r BY <1>3, <2>13, <2>17, <3>3, <4>1 DEF Assigned
      <4>2. CASE a = r /\ e # r
        <5>1. sh[e] \subseteq 1..top BY <3>2, <3>3, <4>2
        <5> QED BY <2>15, <2>17, <3>3, <4>2, <5>1
      <4>3. CASE a # r /\ e = r
        <5>1. sh[a] \subseteq 1..top BY <3>2, <3>3, <4>3
        <5> QED BY <2>15, <2>17, <3>3, <4>3, <5>1
      <4> QED BY <4>1, <4>2, <4>3
    <3>4. given \subseteq 1..u /\ created' = created BY <1>1, <2>15, <3>1
    <3> QED BY <3>1, <3>2, <3>3, <3>4 DEF Assigned
  <2> QED BY <2>9, <2>11, <2>18 DEF Accounted
<1> QED BY <1>2, <1>3 DEF Accounted

\* A request that creates a part has one left less to create.
LEMMA CreateWork ==
    ASSUME PartInv, NEW r \in Threads, CreatePart(r)
    PROVE  \A a \in Threads :
              /\ thread'[a].op = thread[a].op
              /\ thread'[a].left = IF a = r THEN thread[r].left - 1 ELSE thread[a].left
<1>1. PICK s \in Parts : s = seq + 1
  BY PartFlowAssumption DEF CreatePart, PartInv, PartTypes, QueueTypes, Parts
<1>2. PICK n \in PartStates : n = [status |-> "ready", at |-> "milling", token |-> 0]
  BY DEF PartStates, Workshops
<1>3. PICK u : u \in Copies /\ u = Own(s) BY Owns
<1>4. PICK q : q = [part EXCEPT ![s] = n] OBVIOUS
<1>5. PICK th : th = [thread EXCEPT ![r].left = @ - 1, ![r].unsaved = {u}] OBVIOUS
<1>6. Leave(q, th, Parts \ Retained(q)) BY <1>1, <1>2, <1>3, <1>4, <1>5 DEF CreatePart
<1>7. q \in [Parts -> PartStates] BY <1>4 DEF PartInv, PartTypes, QueueTypes
<1>8. PICK g \in Work : g = thread[r] BY DEF PartInv, PartTypes, ThreadTypes
<1>9. PICK l \in Nat : l = g.left - 1 BY <1>8 DEF CreatePart, Work
<1>10. PICK t : t = [g EXCEPT !.left = l, !.unsaved = {u}] OBVIOUS
<1>11. t \in Work /\ t.op = g.op /\ t.left = l
  <2>1. {u} \in SUBSET Copies BY <1>3
  <2> QED BY <1>10, <2>1 DEF Work
<1>12. th = [thread EXCEPT ![r] = t]
  BY <1>5, <1>8, <1>9, <1>10 DEF PartInv, PartTypes, ThreadTypes
<1>13. th \in [Threads -> Work] /\ \A p \in Threads : th[p] = IF p = r THEN t ELSE thread[p]
  BY <1>11, <1>12 DEF PartInv, PartTypes, ThreadTypes
<1>14. \A p \in Threads : thread'[p].op = th[p].op /\ thread'[p].left = th[p].left
  BY <1>6, <1>7, <1>13, LeaveTypes
<1> QED BY <1>8, <1>9, <1>11, <1>13, <1>14

\* create_ready_part uses one of the pieces assigned to its request.
LEMMA CreateUses == ASSUME PartInv, Accounted, NEW r \in Threads, CreatePart(r) PROVE Accounted'
<1>1. /\ thread[r].op = "create" /\ thread[r].left > 0 /\ created' = created + 1
      /\ UNCHANGED <<mark, count, beats, sent, made, last, reordered>>
  BY DEF CreatePart
<1>2. CASE reordered BY <1>1, <1>2 DEF Accounted
<1>3. ASSUME NEW pieces \in [Nat -> Nat], NEW counts \in [Nat -> Nat], NEW top \in Nat,
             NEW given, NEW share,
             Counted(pieces, counts), top <= pieces[last], Assigned(top, given, share)
      PROVE  Accounted'
  <2>1. Counted(pieces, counts)' BY <1>1, <1>3 DEF Counted
  <2>2. PICK g \in Work : g = thread[r] BY DEF PartInv, PartTypes, ThreadTypes
  <2>3. PICK n \in Nat : n = g.left /\ n > 0 BY <1>1, <2>2 DEF Work
  <2>8. \A a \in Threads : /\ thread'[a].op = thread[a].op
                            /\ thread'[a].left = IF a = r THEN n - 1 ELSE thread[a].left
    BY <2>2, <2>3, CreateWork
  <2>9. share[r] \subseteq (1..top) \ given /\ Cardinality(share[r]) = n
    BY <1>1, <1>3, <2>2, <2>3 DEF Assigned
  <2>10. IsFiniteSet(1..top) BY FS_Interval
  <2>11. IsFiniteSet(share[r]) /\ IsFiniteSet(given)
    BY <1>3, <2>9, <2>10, FS_Subset DEF Assigned
  <2>12. PICK x \in share[r] : TRUE
    <3>1. share[r] # {}
      <4>1. PICK z : z = share[r] OBVIOUS
      <4>2. Cardinality(z) # 0 BY <2>3, <2>9, <4>1
      <4>3. z # {} BY <4>2, FS_EmptySet
      <4> QED BY <4>1, <4>3
    <3> QED BY <3>1
  <2>13. Cardinality(share[r] \ {x}) = n - 1 BY <2>9, <2>11, <2>12, FS_RemoveElement
  <2>14. Cardinality(given \cup {x}) = created + 1
    <3>1. x \notin given BY <2>9, <2>12
    <3>2. Cardinality(given) = created BY <1>3 DEF Assigned
    <3> QED BY <2>11, <3>1, <3>2, FS_AddElement
  <2>15. PICK sh : sh = [a \in Threads |-> IF a = r THEN share[r] \ {x} ELSE share[a]] OBVIOUS
  <2>16. sh[r] = share[r] \ {x} /\ \A a \in Threads : a # r => sh[a] = share[a] BY <2>15
  <2>17. PICK gv : gv = given \cup {x} OBVIOUS
  <2>18. Assigned(top, gv, sh)'
    <3>1. gv \subseteq 1..top BY <1>3, <2>9, <2>12, <2>17 DEF Assigned
    <3>2. ASSUME NEW a \in Threads, thread'[a].op = "create"
          PROVE  thread[a].op = "create" /\ sh[a] \subseteq share[a]
      <4>1. CASE a = r BY <1>1, <2>16, <4>1
      <4>2. CASE a # r BY <2>8, <2>16, <3>2, <4>2
      <4> QED BY <4>1, <4>2
    <3>3. ASSUME NEW a \in Threads, thread'[a].op = "create"
          PROVE  sh[a] \subseteq (1..top) \ gv /\ Cardinality(sh[a]) = thread'[a].left
      <4>1. CASE a = r BY <2>8, <2>9, <2>13, <2>16, <2>17, <4>1
      <4>2. CASE a # r
        <5>1. share[a] \subseteq (1..top) \ given /\ Cardinality(share[a]) = thread[a].left
          BY <1>3, <3>2, <3>3 DEF Assigned
        <5>2. x \notin share[a] BY <1>1, <1>3, <2>12, <3>2, <3>3, <4>2 DEF Assigned
        <5> QED BY <2>8, <2>16, <2>17, <4>2, <5>1, <5>2
      <4> QED BY <4>1, <4>2
    <3>4. ASSUME NEW a \in Threads, NEW e \in Threads, thread'[a].op = "create",
                 thread'[e].op = "create", sh[a] \cap sh[e] # {}
          PROVE  e = a
      <4>1. share[a] \cap share[e] # {} BY <3>2, <3>4
      <4> QED BY <1>3, <3>2, <3>4, <4>1 DEF Assigned
    <3> QED BY <1>1, <2>14, <2>17, <3>1, <3>3, <3>4 DEF Assigned
  <2>19. top <= pieces[last'] BY <1>1, <1>3
  <2> QED BY <2>1, <2>18, <2>19 DEF Accounted
<1> QED BY <1>2, <1>3 DEF Accounted

\* Every step keeps the account.
LEMMA AccountStep ==
    PartInv /\ Accounted /\ [TurningStep \/ QueueStep \/ ClaimStep]_partVars => Accounted'
<1> SUFFICES ASSUME PartInv, Accounted, [TurningStep \/ QueueStep \/ ClaimStep]_partVars
             PROVE  Accounted'
  OBVIOUS
<1>1. CASE TurningStep BY <1>1, TurningSends, BeatAssigns, CreateUses DEF TurningStep
<1>2. CASE QueueStep \/ ClaimStep BY <1>2, ClaimsCreateNone, AccountSame
<1>3. CASE UNCHANGED partVars
  <2>1. UNCHANGED <<count, beats, sent, made, created, last, reordered, mark, thread>>
    BY <1>3 DEF partVars, flowVars
  <2> QED BY <2>1, AccountSame DEF Creators
<1> QED BY <1>1, <1>2, <1>3

\* Nothing is made at first.
LEMMA AccountBegins == PartBegin => Accounted
<1> SUFFICES ASSUME PartBegin PROVE Accounted OBVIOUS
<1>1. /\ thread = [r \in Threads |-> Free] /\ mark = -1 /\ count = 0 /\ beats = {} /\ sent = 0
      /\ made = 0 /\ created = 0 /\ last = 0
  BY DEF PartBegin, PartInit
<1>2. PICK z \in [Nat -> Nat] : z = [n \in Nat |-> 0] OBVIOUS
<1>3. \A n \in Nat : z[n] = 0 BY <1>2
<1>4. \A n \in 0..0 : n = 0 OBVIOUS
<1>5. 0 \in 0..0 /\ 0 \in Nat OBVIOUS
<1>6. Counted(z, z)
  <2>1. \A n \in 0..sent : \A m \in 0..n : z[m] <= z[n] /\ z[n] - z[m] <= z[n] - z[m]
    <3> SUFFICES ASSUME NEW n \in 0..sent, NEW m \in 0..n
                 PROVE  z[m] <= z[n] /\ z[n] - z[m] <= z[n] - z[m]
      OBVIOUS
    <3>1. n \in Nat /\ m \in Nat BY <1>1
    <3>2. z[n] = 0 /\ z[m] = 0 BY <1>3, <3>1
    <3> QED BY <3>2
  <2>2. \A n \in 0..sent : z[n] <= made /\ count - z[n] <= made - z[n]
    <3> SUFFICES ASSUME NEW n \in 0..sent PROVE z[n] <= made /\ count - z[n] <= made - z[n]
      OBVIOUS
    <3>1. z[n] = 0 BY <1>1, <1>3
    <3> QED BY <1>1, <3>1
  <2> QED BY <1>1, <1>5, <2>1, <2>2 DEF Counted
<1>7. Assigned(0, {}, {})
  <2>1. \A r \in Threads : thread[r].op # "create" BY <1>1, FreeWork
  <2> QED BY <1>1, <2>1, FS_EmptySet DEF Assigned
<1>8. 0 <= z[last] BY <1>1, <1>3, <1>5
<1> QED BY <1>2, <1>5, <1>6, <1>7, <1>8 DEF Accounted

\* The watermark of _advance_part_flow_from_heartbeat never lets more parts enter milling than
\* turning has made, over any number of heartbeats, requests, restarts and reloads, unless
\* heartbeats are handled out of order.
THEOREM PartsFollowOutput == PartSpec => []PartsWithinOutput
<1>1. PartInv /\ Accounted => PartsWithinOutput
  <2> SUFFICES ASSUME PartInv, NEW pieces \in [Nat -> Nat], NEW counts \in [Nat -> Nat],
                      NEW top \in Nat, NEW given, NEW share,
                      Counted(pieces, counts), top <= pieces[last], Assigned(top, given, share)
               PROVE  created <= made
    BY DEF Accounted, PartsWithinOutput
  <2>1. IsFiniteSet(1..top) /\ Cardinality(1..top) = top BY FS_Interval
  <2>2. created <= top
    <3>1. given \in SUBSET (1..top) /\ Cardinality(given) = created BY DEF Assigned
    <3>2. Cardinality(given) <= Cardinality(1..top) BY <2>1, <3>1, FS_Subset
    <3> QED BY <2>1, <3>1, <3>2
  <2>3. pieces[last] <= made BY DEF Counted
  <2>4. created \in Nat /\ made \in Nat /\ last \in Nat /\ pieces[last] \in Nat
    BY DEF PartInv, PartTypes, FlowTypes
  <2> QED BY <2>2, <2>3, <2>4
<1> QED BY <1>1, PartsInvariant, AccountBegins, AccountStep, PTL DEF PartSpec

-----------------------------------------------------------------------------
(* The alerts *)

\* Alerts as they are raised, the objects a request holds and what it can be doing
Statuses == {"open", "confirmed", "observing", "closed", "resolved", "diagnosed"}
Handlers == {Nil, "operator", "script", "ai", "system", "human-required",
             "node-heartbeat-recovery"}
Raised ==
    [node : Nodes, type : Types, status : Statuses, by : Handlers,
     source : {"central-api", "node-heartbeat"}]
Alert == {NoAlert} \cup Raised
AlertObjects == [id : Ids, copy : Alert]
Idling == {Nil, "save"}
Demands ==
    {q \in [op : Idling \cup {"heartbeat", "metric", "mark", "diagnosis", "escalate", "report", "approve"},
            node : Nodes \cup {Nil}, type : Types \cup {Nil}, by : Handlers,
            status : Statuses \cup {Nil}, alarms : SUBSET Types, todo : SUBSET Types,
            missing : BOOLEAN, new : {NoHold} \cup AlertObjects, held : {NoHold} \cup AlertObjects,
            saves : SUBSET AlertObjects] :
        /\ q.op \notin Idling => q.node \in Nodes
        /\ q.op \notin Idling \cup {"heartbeat"} => q.type \in Types
        /\ q.missing => q.op \notin Idling /\ q.type \in Types
        /\ q.op \in {"mark", "diagnosis"} => q.status \in Statuses
        /\ q.op = "diagnosis" => q.status = "diagnosed"
        /\ q.held # NoHold => q.op \in {"mark", "diagnosis"}
        /\ q.missing => q.new = NoHold
        /\ q.missing \/ q.new # NoHold => q.held = NoHold
        /\ q.missing \/ q.new # NoHold \/ q.held # NoHold => q.saves = {}}

FleetTypes ==
    /\ alerts \in [Ids -> Alert] /\ saved \in [Ids -> Alert]
    /\ loading \in {NotLoading} \cup [Ids -> Alert]
    /\ request \in [Requests -> Demands]
    /\ lastId \in 0..MaxAlerts

\* An object of a request that has not left the list is in it.
Placed(h, list) == h.id # 0 /\ h.copy = NoAlert => list[h.id] # NoAlert
Carried(q) == {q.new, q.held} \cup q.saves
HandsInv == \A r \in Requests : \A h \in Carried(request[r]) : Placed(h, alerts)

\* Ids above those of the list were never given, or a reload left them to be given again.
NumbersInv ==
    /\ \A i \in Ids : saved[i] # NoAlert => i <= lastId
    /\ \A r \in Requests : request[r].new.id <= lastId
    /\ \A i \in Ids : i <= lastId /\ (\A j \in Ids : j >= i => alerts[j] = NoAlert) => i \in dropped

\* An id that was given once has one request to insert it, whose alert is in the list or in
\* its hand; what a reload has read of its row is still what the table says; and where a
\* person is needed the row says so too, unless that change is yet to be saved or could not be.
RowInv(i) ==
    /\ loading # NotLoading /\ loading[i] # NoAlert => saved[i] = loading[i]
    /\ \A r \in Requests : request[r].new.id = i =>
          saved[i] = NoAlert /\ (request[r].new.copy = NoAlert \/ alerts[i] = NoAlert)
    /\ \A r, s \in Requests : request[r].new.id = i /\ request[s].new.id = i => r = s
    /\ NeedsHuman(alerts[i]) => NeedsHuman(saved[i]) \/ Unwritten(i) \/ i \in failed
RowsInv == \A i \in Ids : i \notin dropped => RowInv(i)

AlertInv == FleetTypes /\ HandsInv /\ NumbersInv /\ RowsInv

\* What EscalationKept and AlertRowsKept say of one alert
AlertKept(i) ==
    /\ NeedsHuman(alerts[i]) =>
          \/ NeedsHuman(alerts'[i]) \/ alerts'[i].by = "operator"
          \/ alerts'[i] = NoAlert /\ Cardinality(Listed(alerts)) >= AlertLimit
          \/ /\ loading # NotLoading /\ loading' = NotLoading
             /\ \/ loading[i] = NoAlert \/ Cardinality(Newer(i)) > AlertLimit
                \/ i \in failed \/ Unwritten(i)
          \/ \E r \in Requests : WritesBack(r, i)
          \/ i \in dropped'
    /\ saved[i] # NoAlert =>
          \/ saved'[i].node = saved[i].node /\ saved'[i].type = saved[i].type
          \/ i \in dropped'

Kept == AlertInv' /\ \A i \in Ids : AlertKept(i)

-----------------------------------------------------------------------------

\* An alert of the list is one that was raised.
LEMMA RaisedAlert == NoAlert \notin Raised /\ \A a \in Alert : a # NoAlert => a \in Raised
BY DEF Raised, Alert, NoAlert, Statuses, Nil

\* Setting status and handler of an alert leaves the rest.
Stated(a, st, by) == [a EXCEPT !.status = st, !.by = by]
LEMMA StatedAlert ==
    \A a \in Raised, st \in Statuses, by \in Handlers :
       /\ Stated(a, st, by) \in Raised
       /\ Stated(a, st, by).node = a.node /\ Stated(a, st, by).type = a.type
       /\ Stated(a, st, by).status = st /\ Stated(a, st, by).by = by
       /\ NeedsHuman(Stated(a, st, by)) <=> st \notin {"closed", "resolved"} /\ by = "human-required"
<1> SUFFICES ASSUME NEW a \in Raised, NEW st \in Statuses, NEW by \in Handlers
             PROVE  /\ Stated(a, st, by) \in Raised
                    /\ Stated(a, st, by).node = a.node /\ Stated(a, st, by).type = a.type
                    /\ Stated(a, st, by).status = st /\ Stated(a, st, by).by = by
                    /\ NeedsHuman(Stated(a, st, by))
                          <=> st \notin {"closed", "resolved"} /\ by = "human-required"
  OBVIOUS
<1>1. PICK b : b = Stated(a, st, by) OBVIOUS
<1>2. b \in Raised /\ b.node = a.node /\ b.type = a.type /\ b.status = st /\ b.by = by
  BY <1>1 DEF Stated, Raised
<1>3. b # NoAlert BY <1>2, RaisedAlert
<1> QED BY <1>1, <1>2, <1>3 DEF NeedsHuman, Open

\* A request that has nothing to save.
LEMMA Calm ==
    /\ Quiet \in Demands /\ Quiet.new = NoHold /\ Quiet.held = NoHold /\ Quiet.saves = {}
    /\ NoHold.id = 0
<1>1. Nil \in Handlers /\ Nil \in Idling /\ Nil \notin {"mark", "diagnosis"} BY DEF Handlers, Idling, Nil
<1>2. Quiet \in Demands BY <1>1 DEF Quiet, Demands
<1>3. NoHold.id = 0 BY DEF NoHold, Live
<1> QED BY <1>2, <1>3 DEF Quiet

\* What changes when request r becomes q.
LEMMA BecomesRequest ==
    ASSUME FleetTypes, NEW r \in Requests, NEW q \in Demands, request' = [request EXCEPT ![r] = q]
    PROVE  /\ request' \in [Requests -> Demands] /\ request'[r] = q
           /\ \A s \in Requests : s # r => request'[s] = request[s]
BY DEF FleetTypes

\* A step that changes only what request r is about to do.
LEMMA Prepares ==
    ASSUME AlertInv, NEW r \in Requests, NEW q \in Demands,
           request' = [request EXCEPT ![r] = q], UNCHANGED <<listVars, loading>>,
           request[r].new = NoHold, request[r].saves = {}, q.new = NoHold, q.saves = {},
           Placed(q.held, alerts)
    PROVE  Kept
<1>1. /\ UNCHANGED <<alerts, saved, lastId, dropped, failed, loading>>
      /\ FleetTypes /\ HandsInv /\ NumbersInv /\ RowsInv
  BY DEF listVars, AlertInv
<1>2. /\ request' \in [Requests -> Demands] /\ request'[r] = q
      /\ \A s \in Requests : s # r => request'[s] = request[s]
  BY <1>1, BecomesRequest
<1>3. FleetTypes' BY <1>1, <1>2 DEF FleetTypes
<1>4. HandsInv'
  <2>1. \A s \in Requests : \A h \in Carried(request'[s]) : Placed(h, alerts)
    BY <1>1, <1>2, Calm DEF HandsInv, Carried, Placed
  <2> QED BY <1>1, <2>1 DEF HandsInv, Carried, Placed
<1>5. \A s \in Requests : request'[s].new = request[s].new /\ request'[s].saves = request[s].saves
  BY <1>2
<1>6. NumbersInv' BY <1>1, <1>5 DEF NumbersInv
<1>7. \A i \in Ids : Unwritten(i)' <=> Unwritten(i) BY <1>5 DEF Unwritten, Live
<1>8. RowsInv' BY <1>1, <1>5, <1>7 DEF RowsInv, RowInv, NeedsHuman, Open
<1>9. \A i \in Ids : AlertKept(i) BY <1>1 DEF AlertKept
<1> QED BY <1>3, <1>4, <1>6, <1>8, <1>9 DEF Kept, AlertInv

\* A step that leaves alerts and requests alone.
LEMMA OtherSteps == ASSUME AlertInv, UNCHANGED <<listVars, loading, request>> PROVE Kept
<1>1. UNCHANGED <<alerts, saved, lastId, dropped, failed, loading, request>> BY DEF listVars
<1>2. FleetTypes' BY <1>1 DEF AlertInv, FleetTypes
<1>3. HandsInv' BY <1>1 DEF AlertInv, HandsInv, Carried, Placed
<1>4. NumbersInv' BY <1>1 DEF AlertInv, NumbersInv
<1>5. \A i \in Ids : Unwritten(i)' <=> Unwritten(i) BY <1>1 DEF Unwritten
<1>6. RowsInv' BY <1>1, <1>5 DEF AlertInv, RowsInv, RowInv, NeedsHuman, Open
<1>7. \A i \in Ids : AlertKept(i) BY <1>1 DEF AlertKept
<1> QED BY <1>2, <1>3, <1>4, <1>6, <1>7 DEF Kept, AlertInv

\* The requests of the types, by their fields.
LEMMA DemandFields ==
    \A q \in Demands :
       /\ q.op \notin Idling => q.node \in Nodes
       /\ q.op \notin Idling \cup {"heartbeat"} => q.type \in Types
       /\ q.missing => q.op \notin Idling /\ q.type \in Types
       /\ q.op \in {"mark", "diagnosis"} => q.status \in Statuses
       /\ q.op = "diagnosis" => q.status = "diagnosed"
       /\ q.held # NoHold => q.op \in {"mark", "diagnosis"}
       /\ q.missing => q.new = NoHold
       /\ q.missing \/ q.new # NoHold => q.held = NoHold
       /\ q.missing \/ q.new # NoHold \/ q.held # NoHold => q.saves = {}
       /\ q.by \in Handlers /\ q.new \in {NoHold} \cup AlertObjects /\ q.held \in {NoHold} \cup AlertObjects
       /\ q.saves \in SUBSET AlertObjects
BY DEF Demands

LEMMA RequestDemands == ASSUME AlertInv PROVE \A r \in Requests : request[r] \in Demands
BY DEF AlertInv, FleetTypes

\* Nothing is at stake when a request begins or ends.
LEMMA RequestEnds ==
    ASSUME AlertInv, NEW r \in Requests, request' = [request EXCEPT ![r] = Quiet],
           ~Waits(request[r]), UNCHANGED <<listVars, loading>>
    PROVE  Kept
<1>1. Placed(Quiet.held, alerts) BY Calm DEF Placed
<1> QED BY <1>1, Calm, Prepares DEF Waits

LEMMA RequestBegins ==
    ASSUME AlertInv, NEW r \in Requests, NEW q \in Demands, request' = [request EXCEPT ![r] = q],
           request[r] = Quiet, q.new = NoHold, q.saves = {}, Placed(q.held, alerts),
           UNCHANGED <<listVars, loading>>
    PROVE  Kept
BY Calm, Prepares

\* record_node_heartbeat_v2 and record_metric before their alerts.
LEMMA BeginHeartbeatKeeps ==
    ASSUME AlertInv, NEW r \in Requests, NEW n \in Nodes, NEW st, NEW alarms \in SUBSET Types,
           BeginHeartbeat(r, n, st, alarms)
    PROVE  Kept
<1>1. PICK q : q = [Quiet EXCEPT !.op = "heartbeat", !.node = n, !.alarms = alarms, !.todo = alarms]
  OBVIOUS
<1>2. /\ q \in [op : Idling \cup {"heartbeat"}, node : Nodes \cup {Nil}, type : Types \cup {Nil},
                by : Handlers, status : Statuses \cup {Nil}, alarms : SUBSET Types,
                todo : SUBSET Types, missing : BOOLEAN, new : {NoHold} \cup AlertObjects,
                held : {NoHold} \cup AlertObjects, saves : SUBSET AlertObjects]
      /\ q.op = "heartbeat" /\ q.node = n /\ q.new = NoHold /\ q.held = NoHold /\ q.saves = {}
      /\ q.missing = FALSE
  BY <1>1 DEF Quiet, Idling, Handlers
<1>3. q \in Demands BY <1>2 DEF Demands, Idling, Nil
<1>4. Placed(q.held, alerts) BY <1>2, Calm DEF Placed
<1> QED BY <1>1, <1>2, <1>3, <1>4, RequestBegins DEF BeginHeartbeat, alertVars

LEMMA MetricKeeps ==
    ASSUME AlertInv, NEW r \in Requests, NEW n \in Nodes, NEW cool, NEW finding, NEW t \in Types,
           Metric(r, n, cool, finding, t)
    PROVE  Kept
<1>1. CASE finding = "none" BY <1>1, OtherSteps DEF Metric, alertVars
<1>2. CASE finding # "none"
  <2>1. PICK q : q = [Quiet EXCEPT !.op = "metric", !.node = n, !.type = t, !.by = Handler(finding),
                                   !.missing = TRUE]
    OBVIOUS
  <2>2. Handler(finding) \in Handlers BY DEF Handler, Handlers
  <2>3. q \in Demands /\ q.new = NoHold /\ q.held = NoHold /\ q.saves = {}
    BY <2>1, <2>2 DEF Quiet, Demands, Idling, Nil
  <2>4. Placed(q.held, alerts) BY <2>3, Calm DEF Placed
  <2> QED BY <1>2, <2>1, <2>3, <2>4, RequestBegins DEF Metric, alertVars
<1> QED BY <1>1, <1>2

\* _find_alert.
LEMMA TakeKeepsAlerts ==
    ASSUME AlertInv, NEW r \in Requests, NEW n \in Nodes, NEW t \in Types,
           NEW op \in {"mark", "diagnosis"}, NEW st \in Statuses, NEW by \in Handlers,
           op = "diagnosis" => st = "diagnosed", TakeAlert(r, n, t, op, st, by)
    PROVE  Kept
<1>1. PICK found : found = OfIssue(n, t) OBVIOUS
<1>0. PICK m \in BOOLEAN : m = (found = {}) OBVIOUS
<1>2. PICK h : h = IF found = {} THEN NoHold ELSE Live(Max(found)) OBVIOUS
<1>3. found # {} => Max(found) \in Ids /\ alerts[Max(found)] # NoAlert
  <2> SUFFICES ASSUME found # {} PROVE Max(found) \in found BY <1>1 DEF OfIssue, Listed
  <2>1. found \in SUBSET (0..MaxAlerts) BY <1>1 DEF OfIssue, Listed, Ids
  <2> QED BY <2>1, GreatestNumber, FleetAssumption DEF Greatest
<1>4. h \in {NoHold} \cup AlertObjects /\ Placed(h, alerts)
  BY <1>2, <1>3, Calm DEF Live, AlertObjects, Alert, Placed
<1>5. PICK q : q = [Quiet EXCEPT !.op = op, !.node = n, !.type = t, !.by = by, !.status = st,
                                 !.missing = m, !.held = h]
  OBVIOUS
<1>6. q \in Demands /\ q.new = NoHold /\ q.held = h /\ q.saves = {}
  <2>1. m => h = NoHold BY <1>0, <1>2
  <2> QED BY <1>4, <1>5, <2>1 DEF Quiet, Demands, Idling, Nil
<1>7. request[r] = Quiet /\ request' = [request EXCEPT ![r] = q] /\ UNCHANGED alertVars
  BY <1>0, <1>1, <1>2, <1>5 DEF TakeAlert
<1> QED BY <1>4, <1>6, <1>7, RequestBegins DEF alertVars

\* escalate_to_human is called.
LEMMA EscalationDemand ==
    ASSUME NEW n \in Nodes, NEW t \in Types
    PROVE  /\ Escalation(n, t) \in Demands /\ Escalation(n, t).new = NoHold
           /\ Escalation(n, t).held = NoHold /\ Escalation(n, t).saves = {}
BY DEF Escalation, Quiet, Demands, Idling, Handlers, Nil

LEMMA AskKeeps ==
    ASSUME AlertInv, NEW r \in Requests, NEW n \in Nodes, NEW t \in Types, AskEscalation(r, n, t)
    PROVE  Kept
<1>1. Placed(Escalation(n, t).held, alerts) BY Calm, EscalationDemand DEF Placed
<1> QED BY <1>1, EscalationDemand, RequestBegins DEF AskEscalation, alertVars

LEMMA DecideKeeps ==
    ASSUME AlertInv, NEW r \in Requests, NEW n \in Nodes, NEW t \in Types, NEW approved,
           DecideEscalation(r, n, t, approved)
    PROVE  Kept
<1>1. CASE approved
  <2>1. PICK q : q = [Quiet EXCEPT !.op = "approve", !.node = n, !.type = t] OBVIOUS
  <2>2. q \in Demands /\ q.new = NoHold /\ q.held = NoHold /\ q.saves = {}
    BY <2>1 DEF Quiet, Demands, Idling, Handlers, Nil
  <2>3. Placed(q.held, alerts) BY <2>2, Calm DEF Placed
  <2> QED BY <1>1, <2>1, <2>2, <2>3, RequestBegins DEF DecideEscalation
<1>2. CASE ~approved BY <1>2, OtherSteps DEF DecideEscalation
<1> QED BY <1>1, <1>2

LEMMA LookUpKeeps ==
    ASSUME AlertInv, NEW r \in Requests, NEW t \in Types, LookUpAlarm(r, t)
    PROVE  Kept
<1>1. PICK p \in Demands : p = request[r] BY RequestDemands
<1>2. PICK m \in BOOLEAN : m = ~\E i \in OfIssue(p.node, t) : Open(alerts[i]) OBVIOUS
<1>3. PICK q : q = [p EXCEPT !.todo = @ \ {t}, !.type = t, !.missing = m] OBVIOUS
<1>4. p.op = "heartbeat" /\ p.new = NoHold /\ p.held = NoHold /\ p.saves = {}
  BY <1>1 DEF LookUpAlarm, Waits
<1>5. q \in Demands /\ q.new = NoHold /\ q.held = NoHold /\ q.saves = {}
  BY <1>1, <1>3, <1>4, ZenonT(60) DEF Demands, Idling, Nil
<1>6. request' = [request EXCEPT ![r] = q] BY <1>1, <1>2, <1>3 DEF LookUpAlarm
<1>7. Placed(q.held, alerts) BY <1>5, Calm DEF Placed
<1> QED BY <1>1, <1>4, <1>5, <1>6, <1>7, Prepares DEF LookUpAlarm, alertVars

LEMMA FinishDiagnosisKeeps ==
    ASSUME AlertInv, NEW r \in Requests, NEW severe, FinishDiagnosis(r, severe) PROVE Kept
<1>1. PICK p \in Demands : p = request[r] BY RequestDemands
<1>2. p.op = "diagnosis" /\ ~Waits(p) BY <1>1 DEF FinishDiagnosis
<1>3. p.node \in Nodes /\ p.type \in Types BY <1>2, DemandFields DEF Idling, Nil
<1>4. CASE request' = [request EXCEPT ![r] = Quiet]
  BY <1>1, <1>2, <1>4, RequestEnds DEF FinishDiagnosis, alertVars
<1>5. CASE request' = [request EXCEPT ![r] = Escalation(p.node, p.type)]
  <2>1. Placed(Escalation(p.node, p.type).held, alerts) BY <1>3, Calm, EscalationDemand DEF Placed
  <2> QED BY <1>1, <1>2, <1>3, <1>5, <2>1, EscalationDemand, Prepares
          DEF FinishDiagnosis, alertVars, Waits
<1> QED BY <1>1, <1>4, <1>5 DEF FinishDiagnosis

\* Requests other than r keep what they have to save.
LEMMA OthersUnwritten ==
    ASSUME NEW r \in Requests, \A s \in Requests : s # r => request'[s] = request[s],
           request[r].new = NoHold, request[r].saves = {}
    PROVE  \A i \in Ids : Unwritten(i) => Unwritten(i)'
<1> SUFFICES ASSUME NEW i \in Ids, Unwritten(i) PROVE Unwritten(i)' OBVIOUS
<1>1. PICK s \in Requests : Live(i) \in {request[s].new} \cup request[s].saves BY DEF Unwritten
<1>2. Live(i) # NoHold BY DEF Live, NoHold, Ids
<1>3. s # r BY <1>1, <1>2
<1> QED BY <1>1, <1>3 DEF Unwritten, Live

\* Alerts of hit change in the list and are to be saved.
LEMMA SetStateKeeps ==
    ASSUME AlertInv, NEW r \in Requests, NEW hit \in SUBSET Ids, \A i \in hit : alerts[i] # NoAlert,
           NEW st \in Statuses, NEW by \in Handlers, NEW q \in Demands, q.new = NoHold,
           q.held = NoHold, ~q.missing, ~Waits(request[r]), SetState(r, hit, st, by, q),
           \A i \in hit : NeedsHuman(alerts[i]) =>
              by = "operator" \/ (by = "human-required" /\ st \notin {"closed", "resolved"})
    PROVE  Kept
<1>1. /\ UNCHANGED <<saved, lastId, dropped, failed, loading>>
      /\ FleetTypes /\ HandsInv /\ NumbersInv /\ RowsInv
  BY DEF SetState, AlertInv
<1>2. request[r].new = NoHold /\ request[r].held = NoHold /\ request[r].saves = {} BY DEF Waits
<1>3. PICK p : p = IF hit = {} THEN Quiet ELSE [q EXCEPT !.saves = {Live(i) : i \in hit}] OBVIOUS
<1>4. p \in Demands /\ p.new = NoHold /\ p.held = NoHold /\ p.saves = {Live(i) : i \in hit}
  <2>1. CASE hit = {} BY <1>3, <2>1, Calm
  <2>2. CASE hit # {}
    <3>1. PICK S : S = {Live(i) : i \in hit} OBVIOUS
    <3>2. S \in SUBSET AlertObjects BY <3>1 DEF AlertObjects, Live, Alert
    <3> QED BY <1>3, <2>2, <3>1, <3>2 DEF Demands
  <2> QED BY <2>1, <2>2
<1>5. request' = [request EXCEPT ![r] = p] BY <1>3 DEF SetState
<1>6. /\ request' \in [Requests -> Demands] /\ request'[r] = p
      /\ \A s \in Requests : s # r => request'[s] = request[s]
  BY <1>1, <1>4, <1>5, BecomesRequest
<1>7. /\ alerts' = [i \in Ids |-> IF i \in hit THEN Stated(alerts[i], st, by) ELSE alerts[i]]
      /\ \A i \in Ids : alerts[i] \in Alert /\ (i \in hit => alerts[i] \in Raised)
  BY <1>1, RaisedAlert DEF SetState, Stated, FleetTypes
<1>8. \A i \in Ids : /\ alerts'[i] \in Alert /\ (alerts'[i] = NoAlert <=> alerts[i] = NoAlert)
                     /\ i \in hit => /\ alerts'[i] = Stated(alerts[i], st, by)
                                     /\ alerts'[i] \in Raised
                     /\ i \notin hit => alerts'[i] = alerts[i]
  BY <1>7, StatedAlert, RaisedAlert DEF Alert
<1>9. FleetTypes' BY <1>1, <1>6, <1>7, <1>8 DEF FleetTypes
<1>10. HandsInv'
  <2>1. ASSUME NEW s \in Requests, NEW h \in Carried(request'[s]) PROVE Placed(h, alerts')
    <3>1. CASE s = r
      <4>1. h = NoHold \/ \E i \in hit : h = Live(i) BY <1>4, <1>6, <2>1, <3>1 DEF Carried
      <4>2. ASSUME NEW i \in hit, h = Live(i) PROVE alerts'[h.id] # NoAlert
        BY <1>7, <1>8, <4>2 DEF Live
      <4> QED BY <4>1, <4>2, Calm DEF Placed
    <3>2. CASE s # r
      <4>1. Placed(h, alerts) /\ h \in {NoHold} \cup AlertObjects
        BY <1>1, <1>6, <2>1, <3>2, DemandFields DEF HandsInv, Carried, FleetTypes
      <4> QED BY <1>8, <4>1, Calm DEF Placed, AlertObjects
    <3> QED BY <3>1, <3>2
  <2> QED BY <2>1 DEF HandsInv, Carried, Placed
<1>11. \A s \in Requests : request'[s].new = request[s].new BY <1>2, <1>4, <1>6
<1>12. NumbersInv' BY <1>1, <1>8, <1>11 DEF NumbersInv
<1>13. \A i \in Ids : /\ Unwritten(i) => Unwritten(i)'
                      /\ i \in hit => Unwritten(i)'
  <2>1. \A i \in Ids : Unwritten(i) => Unwritten(i)' BY <1>2, <1>6, OthersUnwritten
  <2>2. \A i \in hit : Live(i) \in request'[r].saves BY <1>4, <1>6
  <2> QED BY <2>1, <2>2 DEF Unwritten, Live
<1>14. RowsInv'
  <2> SUFFICES ASSUME NEW i \in Ids, i \notin dropped PROVE RowInv(i)' BY <1>1 DEF RowsInv
  <2>1. RowInv(i) BY <1>1 DEF RowsInv
  <2>2. NeedsHuman(alerts'[i]) => NeedsHuman(saved[i]) \/ Unwritten(i)' \/ i \in failed
    BY <1>8, <1>13, <2>1 DEF RowInv
  <2>3. alerts[i] = NoAlert => alerts'[i] = NoAlert BY <1>8
  <2>4. NeedsHuman(alerts[i])' => NeedsHuman(saved[i])' \/ Unwritten(i)' \/ (i \in failed)'
    BY <1>1, <2>2 DEF NeedsHuman, Open
  <2> QED BY <1>1, <1>11, <2>1, <2>3, <2>4 DEF RowInv
<1>15. ASSUME NEW i \in Ids PROVE AlertKept(i)
  <2>1. CASE i \notin hit BY <1>1, <1>8, <2>1 DEF AlertKept
  <2>2. CASE i \in hit
    <3>1. alerts'[i].by = by /\ (NeedsHuman(alerts'[i]) <=>
                                    st \notin {"closed", "resolved"} /\ by = "human-required")
      BY <1>7, <1>8, <2>2, StatedAlert
    <3> QED BY <1>1, <2>2, <3>1 DEF AlertKept
  <2> QED BY <2>1, <2>2
<1> QED BY <1>9, <1>10, <1>12, <1>14, <1>15 DEF Kept, AlertInv

\* The new request of a step that sets states
LEMMA Saves == LET q == [Quiet EXCEPT !.op = "save"]
               IN  q \in Demands /\ q.new = NoHold /\ q.held = NoHold /\ ~q.missing
BY DEF Quiet, Demands, Idling, Handlers, Nil

\* The recovery of a heartbeat, which leaves alone what waits for a person.
LEMMA ResolveKeeps == ASSUME AlertInv, NEW r \in Requests, ResolveCleared(r) PROVE Kept
<1>1. PICK q : q = request[r] OBVIOUS
<1>2. PICK hit : hit = Cleared(q.node, q.alarms) OBVIOUS
<1>3. hit \in SUBSET Ids /\ \A i \in hit : alerts[i] # NoAlert /\ ~NeedsHuman(alerts[i])
  BY <1>2 DEF Cleared, Recoverable, NeedsHuman, Open
<1>4. "resolved" \in Statuses /\ "node-heartbeat-recovery" \in Handlers BY DEF Statuses, Handlers
<1>5. PICK s : s = [Quiet EXCEPT !.op = "save"] OBVIOUS
<1>6. /\ ~Waits(request[r]) /\ UNCHANGED nodeVars
      /\ SetState(r, hit, "resolved", "node-heartbeat-recovery", s)
  BY <1>1, <1>2, <1>5 DEF ResolveCleared
<1>7. s \in Demands /\ s.new = NoHold /\ s.held = NoHold /\ ~s.missing BY <1>5, Saves
<1> QED BY <1>3, <1>4, <1>6, <1>7, SetStateKeeps

\* retire_node.
LEMMA RetireKeeps ==
    ASSUME AlertInv, NEW r \in Requests, NEW n \in Nodes, Retire(r, n) PROVE Kept
<1>1. OpenOf(n) \in SUBSET Ids /\ \A i \in OpenOf(n) : alerts[i] # NoAlert BY DEF OpenOf, Open
<1>2. "closed" \in Statuses /\ "operator" \in Handlers BY DEF Statuses, Handlers
<1>3. ~Waits(request[r]) BY Calm DEF Retire, Waits, Quiet
<1> QED BY <1>1, <1>2, <1>3, Saves, SetStateKeeps DEF Retire

\* The open alerts of an issue, and the newest and the oldest of them.
OpenIssue(n, t) == {i \in OfIssue(n, t) : Open(alerts[i])}
LEMMA OpenOnes ==
    \A n, t : /\ OpenIssue(n, t) \in SUBSET Ids
              /\ \A i \in OpenIssue(n, t) : alerts[i] # NoAlert /\ Open(alerts[i])
              /\ OpenIssue(n, t) # {} => /\ Max(OpenIssue(n, t)) \in OpenIssue(n, t)
                                         /\ Min(OpenIssue(n, t)) \in OpenIssue(n, t)
<1> SUFFICES ASSUME NEW n, NEW t, NEW S, S = OpenIssue(n, t)
             PROVE  /\ S \in SUBSET Ids /\ \A i \in S : alerts[i] # NoAlert /\ Open(alerts[i])
                    /\ S # {} => Max(S) \in S /\ Min(S) \in S
  OBVIOUS
<1>1. S \in SUBSET Ids /\ \A i \in S : alerts[i] # NoAlert /\ Open(alerts[i])
  BY DEF OpenIssue, OfIssue, Listed
<1>2. S \in SUBSET (0..MaxAlerts) /\ S \in SUBSET Nat BY <1>1 DEF Ids
<1>3. S # {} => Max(S) \in S BY <1>2, GreatestNumber, FleetAssumption DEF Greatest
<1>4. S # {} => Min(S) \in S BY <1>2, LeastNumber DEF Minimum, Min
<1> QED BY <1>1, <1>3, <1>4

\* escalate_to_human under the lock.
LEMMA EscalateKeeps == ASSUME AlertInv, NEW r \in Requests, Escalate(r) PROVE Kept
<1>1. PICK p \in Demands : p = request[r] BY RequestDemands
<1>2. p.op = "escalate" /\ ~Waits(p) BY <1>1 DEF Escalate
<1>3. p.node \in Nodes /\ p.type \in Types /\ p.by \in Handlers BY <1>2, DemandFields DEF Idling, Nil
<1>4. PICK open : open = OpenIssue(p.node, p.type) OBVIOUS
<1>5. CASE open = {}
  <2>1. PICK q : q = [p EXCEPT !.op = "report", !.missing = TRUE] OBVIOUS
  <2>2. q \in Demands /\ q.new = NoHold /\ q.held = NoHold /\ q.saves = {}
    BY <1>2, <1>3, <2>1 DEF Demands, Idling, Nil, Waits
  <2>3. request' = [request EXCEPT ![r] = q]
    BY <1>1, <1>4, <1>5, <2>1 DEF Escalate, OpenIssue
  <2>4. UNCHANGED <<listVars, loading>> BY <1>1, <1>4, <1>5 DEF Escalate, OpenIssue
  <2>5. Placed(q.held, alerts) BY <2>2, Calm DEF Placed
  <2> QED BY <1>1, <1>2, <2>2, <2>3, <2>4, <2>5, Prepares DEF Waits
<1>6. CASE open # {}
  <2>1. PICK i : i = Max(open) OBVIOUS
  <2>2. i \in Ids /\ alerts[i] # NoAlert /\ Open(alerts[i]) BY <1>4, <1>6, <2>1, OpenOnes
  <2>3. PICK q : q = [p EXCEPT !.op = "report"] OBVIOUS
  <2>4. q \in Demands /\ q.new = NoHold /\ q.held = NoHold /\ ~q.missing
    BY <1>2, <1>3, <2>3 DEF Demands, Idling, Nil, Waits
  <2>5. alerts[i].status \in Statuses /\ alerts[i].status \notin {"closed", "resolved"}
    <3>1. alerts[i] \in Raised BY <2>2, RaisedAlert DEF AlertInv, FleetTypes
    <3> QED BY <2>2, <3>1 DEF Raised, Open
  <2>6. SetState(r, {i}, alerts[i].status, "human-required", q)
    BY <1>1, <1>4, <1>6, <2>1, <2>3 DEF Escalate, OpenIssue
  <2>7. "human-required" \in Handlers BY DEF Handlers
  <2> QED BY <1>1, <1>2, <1>3, <2>2, <2>4, <2>5, <2>6, <2>7, SetStateKeeps
<1> QED BY <1>5, <1>6

\* A step that changes the list, and nothing else of the alerts, ends or goes on with Quiet.
LEMMA MetricActsKeeps ==
    ASSUME AlertInv, NEW r \in Requests, NEW x, MetricActs(r, x) PROVE Kept
BY RequestEnds DEF MetricActs, alertVars

LEMMA ReportKeeps ==
    ASSUME AlertInv, NEW r \in Requests, ReportEscalation(r) PROVE Kept
BY RequestEnds DEF ReportEscalation

\* escalation_decision closes one alert after the other.
LEMMA CloseNextKeeps == ASSUME AlertInv, NEW r \in Requests, CloseNext(r) PROVE Kept
<1>1. PICK p \in Demands : p = request[r] BY RequestDemands
<1>2. PICK open : open = OpenIssue(p.node, p.type) OBVIOUS
<1>3. PICK hit : hit = IF open = {} THEN {} ELSE {Min(open)} OBVIOUS
<1>4. hit \in SUBSET Ids /\ \A i \in hit : alerts[i] # NoAlert BY <1>2, <1>3, OpenOnes
<1>5. "closed" \in Statuses /\ "operator" \in Handlers BY DEF Statuses, Handlers
<1>6. ~Waits(p) /\ SetState(r, hit, "closed", "operator", p)
  BY <1>1, <1>2, <1>3 DEF CloseNext, OpenIssue
<1>7. p.new = NoHold /\ p.held = NoHold /\ ~p.missing BY <1>6 DEF Waits
<1> QED BY <1>1, <1>4, <1>5, <1>6, <1>7, SetStateKeeps

\* The object of a request is an alert.
LEMMA HeldAlert ==
    ASSUME AlertInv, NEW r \in Requests, NEW h \in Carried(request[r]), h # NoHold
    PROVE  h \in AlertObjects /\ h.id \in Ids /\ Held(h) \in Raised
<1>1. h \in AlertObjects BY RequestDemands, DemandFields DEF Carried
<1>2. h.id \in Ids /\ h.copy \in Alert /\ h.id # 0 BY <1>1 DEF AlertObjects, Ids
<1>3. h.copy = NoAlert => alerts[h.id] # NoAlert BY <1>2 DEF AlertInv, HandsInv, Placed
<1>4. alerts[h.id] \in Alert BY <1>2 DEF AlertInv, FleetTypes
<1> QED BY <1>1, <1>2, <1>3, <1>4, RaisedAlert DEF Held

\* An object that is still in the list is known by its id.
LEMMA LiveObject == \A h \in AlertObjects : h.copy = NoAlert => h = Live(h.id)
BY DEF AlertObjects, Live

\* confirm_alert, issue_actions, issue_decision and the end of a diagnosis.
LEMMA MarkKeeps == ASSUME AlertInv, NEW r \in Requests, Mark(r) PROVE Kept
<1>1. PICK p \in Demands : p = request[r] BY RequestDemands
<1>2. PICK h : h = p.held OBVIOUS
<1>3. h # NoHold BY <1>1, <1>2 DEF Mark
<1>4. h \in AlertObjects /\ h.id \in Ids /\ Held(h) \in Raised
  BY <1>1, <1>2, <1>3, HeldAlert DEF Carried
<1>5. p.status \in Statuses /\ p.new = NoHold /\ p.saves = {} /\ ~p.missing
  BY <1>2, <1>3, DemandFields
<1>6. PICK by : by = IF p.op = "mark" THEN "operator" ELSE Held(h).by OBVIOUS
<1>7. by \in Handlers BY <1>4, <1>6 DEF Raised, Handlers
<1>8. PICK a : a = Stated(Held(h), p.status, by) OBVIOUS
<1>9. a \in Raised /\ a # NoAlert BY <1>4, <1>5, <1>7, <1>8, StatedAlert, RaisedAlert
<1>10. a = [Held(h) EXCEPT !.status = p.status, !.by = IF p.op = "mark" THEN "operator" ELSE @]
  BY <1>4, <1>6, <1>8 DEF Stated, Raised
<1>11. PICK g : g = IF h.copy = NoAlert THEN h ELSE [h EXCEPT !.copy = a] OBVIOUS
<1>12. g \in AlertObjects /\ g.id = h.id /\ (h.copy = NoAlert => g = h) /\ (g.copy = NoAlert <=> h.copy = NoAlert)
  BY <1>4, <1>9, <1>11 DEF AlertObjects, Alert
<1>13. PICK op : op = IF p.op = "mark" THEN "save" ELSE p.op OBVIOUS
<1>14. PICK q : q = [p EXCEPT !.op = op, !.held = NoHold, !.saves = {g}] OBVIOUS
<1>15. q \in Demands /\ q.new = NoHold /\ q.held = NoHold /\ q.saves = {g}
  <2>1. p.op \in {"mark", "diagnosis"} BY <1>2, <1>3, DemandFields
  <2>2. p.node \in Nodes /\ p.type \in Types /\ (p.op = "diagnosis" => p.status = "diagnosed")
    BY <2>1, DemandFields DEF Idling, Nil
  <2>3. op \in {"save", "diagnosis"} /\ (op = "diagnosis" => p.op = "diagnosis") BY <1>13, <2>1
  <2> QED BY <1>5, <1>12, <1>14, <2>2, <2>3, ZenonT(60) DEF Demands, Idling, Nil
<1>16. request' = [request EXCEPT ![r] = q]
  BY <1>1, <1>2, <1>10, <1>11, <1>13, <1>14 DEF Mark
<1>17. alerts' = IF h.copy = NoAlert THEN [alerts EXCEPT ![h.id] = a] ELSE alerts
  BY <1>1, <1>2, <1>10, <1>11, <1>12 DEF Mark
<1>18. UNCHANGED <<saved, lastId, dropped, failed, loading>> BY DEF Mark
<1>19. FleetTypes /\ HandsInv /\ NumbersInv /\ RowsInv BY DEF AlertInv
<1>20. /\ request' \in [Requests -> Demands] /\ request'[r] = q
       /\ \A s \in Requests : s # r => request'[s] = request[s]
  BY <1>15, <1>16, <1>19, BecomesRequest
<1>21. \A i \in Ids : /\ alerts'[i] \in Alert /\ (alerts'[i] = NoAlert <=> alerts[i] = NoAlert)
                      /\ alerts'[i] # alerts[i] => i = h.id /\ h.copy = NoAlert
                      /\ i = h.id /\ h.copy = NoAlert => alerts'[i] = a /\ alerts[i] # NoAlert
  <2>1. h.copy = NoAlert => alerts[h.id] # NoAlert BY <1>4, RaisedAlert DEF Held
  <2> QED BY <1>4, <1>9, <1>17, <1>19, <2>1 DEF FleetTypes, Alert
<1>22. FleetTypes'
  <2>1. alerts' \in [Ids -> Alert] BY <1>4, <1>9, <1>17, <1>19 DEF FleetTypes, Alert
  <2> QED BY <1>18, <1>19, <1>20, <2>1 DEF FleetTypes
<1>23. HandsInv'
  <2>1. ASSUME NEW s \in Requests, NEW k \in Carried(request'[s]) PROVE Placed(k, alerts')
    <3>1. CASE s = r
      <4>1. k = NoHold \/ k = g BY <1>15, <1>20, <2>1, <3>1 DEF Carried
      <4>2. g.copy = NoAlert => alerts'[g.id] # NoAlert BY <1>4, <1>12, <1>21
      <4> QED BY <4>1, <4>2, Calm DEF Placed
    <3>2. CASE s # r
      <4>1. Placed(k, alerts) /\ k \in {NoHold} \cup AlertObjects
        BY <1>19, <1>20, <2>1, <3>2, DemandFields DEF HandsInv, Carried, FleetTypes
      <4> QED BY <1>21, <4>1, Calm DEF Placed, AlertObjects
    <3> QED BY <3>1, <3>2
  <2> QED BY <2>1 DEF HandsInv, Carried, Placed
<1>24. \A s \in Requests : request'[s].new = request[s].new BY <1>1, <1>5, <1>15, <1>20
<1>25. NumbersInv' BY <1>18, <1>19, <1>21, <1>24 DEF NumbersInv
<1>26. \A i \in Ids : /\ Unwritten(i) => Unwritten(i)'
                      /\ alerts'[i] # alerts[i] => Unwritten(i)'
  <2>1. \A i \in Ids : Unwritten(i) => Unwritten(i)' BY <1>1, <1>5, <1>20, OthersUnwritten
  <2>2. h.copy = NoAlert => Live(h.id) \in request'[r].saves BY <1>4, <1>12, <1>15, <1>20, LiveObject
  <2> QED BY <1>21, <2>1, <2>2 DEF Unwritten, Live
<1>27. RowsInv'
  <2> SUFFICES ASSUME NEW i \in Ids, i \notin dropped PROVE RowInv(i)' BY <1>18 DEF RowsInv
  <2>1. RowInv(i) BY <1>19 DEF RowsInv
  <2>2. NeedsHuman(alerts[i])' => NeedsHuman(saved[i])' \/ Unwritten(i)' \/ (i \in failed)'
    BY <1>18, <1>26, <2>1 DEF RowInv, NeedsHuman, Open
  <2>3. alerts[i] = NoAlert => alerts'[i] = NoAlert BY <1>21
  <2> QED BY <1>18, <1>24, <2>1, <2>2, <2>3 DEF RowInv
<1>28. ASSUME NEW i \in Ids PROVE AlertKept(i)
  <2>1. CASE alerts'[i] = alerts[i] BY <1>18, <2>1 DEF AlertKept
  <2>2. CASE alerts'[i] # alerts[i]
    <3>1. alerts'[i] = a /\ Held(h) = alerts[i] /\ alerts[i] # NoAlert BY <1>21, <2>2 DEF Held
    <3>2. /\ a.by = by
          /\ NeedsHuman(a) <=> p.status \notin {"closed", "resolved"} /\ by = "human-required"
      BY <1>4, <1>5, <1>7, <1>8, StatedAlert
    <3>3. CASE p.op = "mark" BY <1>6, <1>18, <3>1, <3>2, <3>3 DEF AlertKept
    <3>4. CASE p.op # "mark"
      <4>1. p.status = "diagnosed" BY <1>1, <1>2, <1>3, <3>4, DemandFields
      <4>2. NeedsHuman(alerts[i]) => by = "human-required" BY <1>6, <3>1, <3>4 DEF NeedsHuman
      <4> QED BY <1>18, <3>1, <3>2, <4>1, <4>2 DEF AlertKept
    <3> QED BY <3>3, <3>4
  <2> QED BY <2>1, <2>2
<1> QED BY <1>22, <1>23, <1>25, <1>27, <1>28 DEF Kept, AlertInv

\* persist_alert.
LEMMA SaveAlertKeeps ==
    ASSUME AlertInv, NEW r \in Requests, NEW ok \in BOOLEAN, SaveAlert(r, ok) PROVE Kept
<1>1. PICK p \in Demands : p = request[r] BY RequestDemands
<1>2. PICK i : i = p.new.id OBVIOUS
<1>3. p.new # NoHold BY <1>1 DEF SaveAlert
<1>4. p.new \in AlertObjects /\ i \in Ids /\ Held(p.new) \in Raised
  BY <1>1, <1>2, <1>3, HeldAlert DEF Carried
<1>5. p.held = NoHold /\ p.saves = {} /\ ~p.missing BY <1>3, DemandFields
<1>6. PICK h : h = IF p.op \in {"mark", "diagnosis"} THEN p.new ELSE NoHold OBVIOUS
<1>7. PICK q : q = [p EXCEPT !.new = NoHold, !.held = h] OBVIOUS
<1>8. q \in Demands /\ q.new = NoHold /\ q.held = h /\ q.saves = {}
  <2>1. h \in {NoHold} \cup AlertObjects /\ (h # NoHold => p.op \in {"mark", "diagnosis"})
    BY <1>4, <1>6
  <2> QED BY <1>5, <1>7, <2>1, ZenonT(60) DEF Demands
<1>9. request' = [request EXCEPT ![r] = q] BY <1>1, <1>6, <1>7 DEF SaveAlert
<1>10. /\ UNCHANGED <<alerts, lastId, dropped, loading>>
       /\ saved' = IF ok THEN [saved EXCEPT ![i] = Held(p.new)] ELSE saved
       /\ failed' = IF ok THEN failed \ {i} ELSE failed \cup {i}
  BY <1>1, <1>2 DEF SaveAlert
<1>11. FleetTypes /\ HandsInv /\ NumbersInv /\ RowsInv BY DEF AlertInv
<1>12. /\ request' \in [Requests -> Demands] /\ request'[r] = q
       /\ \A s \in Requests : s # r => request'[s] = request[s]
  BY <1>8, <1>9, <1>11, BecomesRequest
<1>13. \A j \in Ids : /\ j # i => saved'[j] = saved[j] /\ (j \in failed => j \in failed')
                      /\ j = i => IF ok THEN saved'[j] = Held(p.new)
                                  ELSE saved'[j] = saved[j] /\ j \in failed'
  BY <1>10, <1>11 DEF FleetTypes
<1>14. FleetTypes'
  <2>1. saved' \in [Ids -> Alert] BY <1>4, <1>10, <1>11 DEF FleetTypes, Alert
  <2> QED BY <1>10, <1>11, <1>12, <2>1 DEF FleetTypes
<1>15. HandsInv'
  <2>1. ASSUME NEW s \in Requests, NEW k \in Carried(request'[s]) PROVE Placed(k, alerts)
    <3>1. CASE s = r
      <4>1. k = NoHold \/ k = p.new BY <1>6, <1>8, <1>12, <2>1, <3>1 DEF Carried
      <4> QED BY <1>1, <1>11, <4>1, Calm DEF HandsInv, Carried, Placed
    <3>2. CASE s # r BY <1>11, <1>12, <2>1, <3>2 DEF HandsInv, Carried
    <3> QED BY <3>1, <3>2
  <2> QED BY <1>10, <2>1 DEF HandsInv, Carried, Placed
<1>16. \A s \in Requests : IF s = r THEN request'[s].new = NoHold
                           ELSE request'[s].new = request[s].new
  BY <1>8, <1>12
<1>17. NumbersInv'
  <2>1. i <= lastId BY <1>1, <1>2, <1>11 DEF NumbersInv
  <2>2. 0 <= lastId BY <1>11 DEF FleetTypes
  <2>3. \A j \in Ids : saved'[j] # NoAlert => j <= lastId BY <1>11, <1>13, <2>1 DEF NumbersInv
  <2>4. \A s \in Requests : request'[s].new.id <= lastId
    BY <1>11, <1>16, <2>2, Calm DEF NumbersInv
  <2> QED BY <1>10, <1>11, <2>3, <2>4 DEF NumbersInv
<1>18. \A j \in Ids : Unwritten(j) /\ j # i => Unwritten(j)'
  <2> SUFFICES ASSUME NEW j \in Ids, Unwritten(j), j # i PROVE Unwritten(j)' OBVIOUS
  <2>1. PICK s \in Requests : Live(j) \in {request[s].new} \cup request[s].saves BY DEF Unwritten
  <2>2. CASE s = r BY <1>1, <1>2, <1>5, <2>1, <2>2 DEF Live
  <2>3. CASE s # r BY <1>12, <2>1, <2>3 DEF Unwritten, Live
  <2> QED BY <2>2, <2>3
<1>19. i \notin dropped => saved[i] = NoAlert /\ (p.new.copy = NoAlert \/ alerts[i] = NoAlert)
  BY <1>1, <1>2, <1>4, <1>11 DEF RowsInv, RowInv
<1>20. RowsInv'
  <2> SUFFICES ASSUME NEW j \in Ids, j \notin dropped PROVE RowInv(j)' BY <1>10 DEF RowsInv
  <2>1. RowInv(j) BY <1>11 DEF RowsInv
  <2>2. loading # NotLoading /\ loading[j] # NoAlert => saved'[j] = loading[j]
    BY <1>13, <1>19, <2>1 DEF RowInv
  <2>3. \A s \in Requests : request'[s].new.id = j =>
           s # r /\ request[s].new.id = j /\ j # i
    BY <1>1, <1>2, <1>16, <2>1, Calm DEF RowInv, Ids
  <2>4. \A s \in Requests : request'[s].new.id = j =>
           saved'[j] = NoAlert /\ (request'[s].new.copy = NoAlert \/ alerts[j] = NoAlert)
    BY <1>13, <1>16, <2>1, <2>3 DEF RowInv
  <2>5. \A s, t \in Requests : request'[s].new.id = j /\ request'[t].new.id = j => s = t
    BY <2>1, <2>3 DEF RowInv
  <2>6. NeedsHuman(alerts[j]) => NeedsHuman(saved'[j]) \/ Unwritten(j)' \/ j \in failed'
    <3>1. CASE j # i BY <1>13, <1>18, <2>1, <3>1 DEF RowInv, NeedsHuman, Open
    <3>2. CASE j = i /\ ok
      <4>1. alerts[i] = NoAlert \/ Held(p.new) = alerts[i] BY <1>2, <1>19, <3>2 DEF Held
      <4> QED BY <1>13, <3>2, <4>1 DEF NeedsHuman, Open
    <3>3. CASE j = i /\ ~ok BY <1>13, <3>3
    <3> QED BY <3>1, <3>2, <3>3
  <2>7. NeedsHuman(alerts[j])' => NeedsHuman(saved[j])' \/ Unwritten(j)' \/ (j \in failed)'
    BY <1>10, <2>6 DEF NeedsHuman, Open
  <2> QED BY <1>10, <2>2, <2>4, <2>5, <2>7 DEF RowInv
<1>21. \A j \in Ids : AlertKept(j) BY <1>10, <1>13, <1>19 DEF AlertKept
<1> QED BY <1>14, <1>15, <1>17, <1>20, <1>21 DEF Kept, AlertInv

\* A save of states, whether or not it succeeds: what is left to show is what it means for the
\* alerts that wait for a person.
LEMMA StatesSaved ==
    ASSUME AlertInv, NEW r \in Requests, NEW q \in Demands, request' = [request EXCEPT ![r] = q],
           loading = NotLoading, UNCHANGED <<lastId, dropped, loading>>,
           q.new = NoHold, q.held = NoHold, q.saves \subseteq request[r].saves,
           alerts' \in [Ids -> Alert], saved' \in [Ids -> Alert], request[r].new = NoHold,
           \A i \in Ids :
              /\ alerts'[i] = NoAlert <=> alerts[i] = NoAlert
              /\ saved'[i] = NoAlert <=> saved[i] = NoAlert
              /\ saved'[i].node = saved[i].node /\ saved'[i].type = saved[i].type
              /\ NeedsHuman(alerts[i]) => NeedsHuman(alerts'[i]) \/ WritesBack(r, i)
              /\ i \notin dropped /\ NeedsHuman(alerts'[i]) =>
                    NeedsHuman(saved'[i]) \/ Unwritten(i)' \/ i \in failed'
    PROVE  Kept
<1>1. FleetTypes /\ HandsInv /\ NumbersInv /\ RowsInv BY DEF AlertInv
<1>2. /\ request' \in [Requests -> Demands] /\ request'[r] = q
      /\ \A s \in Requests : s # r => request'[s] = request[s]
  BY <1>1, BecomesRequest
<1>3. FleetTypes' BY <1>1, <1>2 DEF FleetTypes
<1>4. HandsInv'
  <2>1. ASSUME NEW s \in Requests, NEW k \in Carried(request'[s]) PROVE Placed(k, alerts')
    <3>1. k = NoHold \/ k \in Carried(request[s]) BY <1>2, <2>1 DEF Carried
    <3>2. CASE k = NoHold BY <3>2, Calm DEF Placed
    <3>3. CASE k # NoHold
      <4>1. k \in Carried(request[s]) BY <3>1, <3>3
      <4>2. k.id \in Ids /\ Placed(k, alerts) BY <1>1, <3>3, <4>1, HeldAlert DEF HandsInv
      <4> QED BY <4>2 DEF Placed
    <3> QED BY <3>2, <3>3
  <2> QED BY <2>1 DEF HandsInv, Carried, Placed
<1>5. \A s \in Requests : request'[s].new = request[s].new BY <1>2
<1>6. NumbersInv' BY <1>1, <1>5 DEF NumbersInv
<1>7. RowsInv'
  <2> SUFFICES ASSUME NEW i \in Ids, i \notin dropped PROVE RowInv(i)' BY DEF RowsInv
  <2>1. RowInv(i) BY <1>1 DEF RowsInv
  <2>2. NeedsHuman(alerts[i])' => NeedsHuman(saved[i])' \/ Unwritten(i)' \/ (i \in failed)'
    BY DEF NeedsHuman, Open
  <2> QED BY <1>5, <2>1, <2>2 DEF RowInv
<1>8. ASSUME NEW i \in Ids PROVE AlertKept(i) BY DEF AlertKept
<1> QED BY <1>3, <1>4, <1>6, <1>7, <1>8 DEF Kept, AlertInv

\* persist_alert_state.
LEMMA SaveStateKeeps ==
    ASSUME AlertInv, NEW r \in Requests, NEW h \in request[r].saves, NEW ok \in BOOLEAN,
           SaveState(r, h, ok)
    PROVE  Kept
<1>1. PICK p \in Demands : p = request[r] BY RequestDemands
<1>2. p.saves # {} /\ h \in p.saves BY <1>1
<1>3. p.new = NoHold /\ p.held = NoHold /\ ~p.missing BY <1>2, DemandFields
<1>4. h # NoHold
  <2>1. h \in AlertObjects BY <1>2, DemandFields
  <2> QED BY <2>1, Calm DEF AlertObjects, Ids
<1>5. h \in AlertObjects /\ h.id \in Ids /\ Held(h) \in Raised BY <1>1, <1>2, <1>4, HeldAlert DEF Carried
<1>6. PICK i \in Ids : i = h.id BY <1>5
<1>7. PICK st : st = Held(h).status OBVIOUS
<1>8. PICK by : by = Held(h).by OBVIOUS
<1>9. st \in Statuses /\ by \in Handlers BY <1>5, <1>7, <1>8 DEF Raised
<1>10. loading = NotLoading /\ UNCHANGED <<lastId, dropped, loading>> BY DEF SaveState
<1>11. FleetTypes /\ HandsInv /\ NumbersInv /\ RowsInv BY DEF AlertInv
<1>12. alerts \in [Ids -> Alert] /\ saved \in [Ids -> Alert] BY <1>11 DEF FleetTypes
<1>13. CASE ok /\ saved[i] # NoAlert
  <2>1. PICK q : q = IF p.op = "save" /\ p.saves = {h} THEN Quiet ELSE [p EXCEPT !.saves = @ \ {h}]
    OBVIOUS
  <2>2. q \in Demands /\ q.new = NoHold /\ q.held = NoHold /\ q.saves = p.saves \ {h}
    <3>1. CASE p.op = "save" /\ p.saves = {h} BY <2>1, <3>1, Calm
    <3>2. CASE ~(p.op = "save" /\ p.saves = {h})
      <4>1. q = [p EXCEPT !.saves = @ \ {h}] BY <2>1, <3>2
      <4> QED BY <1>3, <4>1 DEF Demands
    <3> QED BY <3>1, <3>2
  <2>3. request' = [request EXCEPT ![r] = q] BY <1>1, <1>6, <1>13, <2>1 DEF SaveState
  <2>4. saved' = [saved EXCEPT ![i] = Stated(@, st, by)]
    <3>1. saved' = [saved EXCEPT ![i].status = st, ![i].by = by]
      BY <1>1, <1>6, <1>7, <1>8, <1>13 DEF SaveState
    <3> QED BY <1>12, <3>1 DEF Stated
  <2>5. alerts' = IF alerts[i] = NoAlert THEN alerts ELSE [alerts EXCEPT ![i] = Stated(@, st, by)]
    <3>1. alerts' = IF alerts[i] = NoAlert THEN alerts
                    ELSE [alerts EXCEPT ![i].status = st, ![i].by = by]
      BY <1>1, <1>6, <1>7, <1>8, <1>13 DEF SaveState
    <3> QED BY <1>12, <3>1 DEF Stated
  <2>6. failed' = failed \ {i} BY <1>1, <1>6, <1>13 DEF SaveState
  <2>7. saved[i] \in Raised /\ (alerts[i] # NoAlert => alerts[i] \in Raised)
    BY <1>12, <1>13, RaisedAlert
  <2>8. \A j \in Ids : j # i => saved'[j] = saved[j] /\ alerts'[j] = alerts[j]
                                /\ (j \in failed => j \in failed')
    BY <1>12, <2>4, <2>5, <2>6
  <2>9. /\ saved'[i] = Stated(saved[i], st, by)
        /\ alerts'[i] = IF alerts[i] = NoAlert THEN NoAlert ELSE Stated(alerts[i], st, by)
    BY <1>12, <2>4, <2>5
  <2>10. /\ saved'[i] \in Raised /\ saved'[i].node = saved[i].node /\ saved'[i].type = saved[i].type
         /\ NeedsHuman(saved'[i]) <=> st \notin {"closed", "resolved"} /\ by = "human-required"
    BY <1>9, <2>7, <2>9, StatedAlert
  <2>11. alerts[i] # NoAlert =>
            /\ alerts'[i] \in Raised
            /\ NeedsHuman(alerts'[i]) <=> st \notin {"closed", "resolved"} /\ by = "human-required"
    BY <1>9, <2>7, <2>9, StatedAlert
  <2>12. alerts' \in [Ids -> Alert] /\ saved' \in [Ids -> Alert]
    BY <1>12, <2>4, <2>5, <2>9, <2>10, <2>11 DEF Alert
  <2>13. /\ alerts'[i] = NoAlert <=> alerts[i] = NoAlert
         /\ saved'[i] = NoAlert <=> saved[i] = NoAlert
    BY <1>13, <2>9, <2>10, <2>11, RaisedAlert
  <2>14. \A j \in Ids : Unwritten(j) /\ j # i => Unwritten(j)'
    <3> SUFFICES ASSUME NEW j \in Ids, Unwritten(j), j # i PROVE Unwritten(j)' OBVIOUS
    <3>1. PICK s \in Requests : Live(j) \in {request[s].new} \cup request[s].saves BY DEF Unwritten
    <3>2. /\ request'[r] = q /\ \A t \in Requests : t # r => request'[t] = request[t]
      BY <1>11, <2>2, <2>3, BecomesRequest
    <3>3. Live(j) # h /\ Live(j) # NoHold BY <1>6 DEF Live, NoHold, Ids
    <3>4. Live(j) \in {request'[s].new} \cup request'[s].saves
      BY <1>1, <1>3, <2>2, <3>1, <3>2, <3>3
    <3> QED BY <3>4 DEF Unwritten, Live
  <2>15. ~NeedsHuman(NoAlert) BY DEF NeedsHuman, Open
  <2>16. NeedsHuman(alerts[i]) => NeedsHuman(alerts'[i]) \/ WritesBack(r, i)
    <3>1. CASE h.copy = NoAlert
      <4>1. st = alerts[i].status /\ by = alerts[i].by BY <1>6, <1>7, <1>8, <3>1 DEF Held
      <4> QED BY <2>11, <4>1 DEF NeedsHuman, Open
    <3>2. CASE h.copy # NoAlert
      <4>1. request'[r].saves = p.saves \ {h} BY <1>11, <2>2, <2>3, BecomesRequest
      <4> QED BY <1>1, <1>2, <1>6, <3>2, <4>1 DEF WritesBack
    <3> QED BY <3>1, <3>2
  <2>17. NeedsHuman(alerts'[i]) => NeedsHuman(saved'[i]) BY <2>9, <2>10, <2>11, <2>15
  <2>18. \A j \in Ids : j \notin dropped /\ NeedsHuman(alerts'[j]) =>
            NeedsHuman(saved'[j]) \/ Unwritten(j)' \/ j \in failed'
    <3> SUFFICES ASSUME NEW j \in Ids, j \notin dropped, NeedsHuman(alerts'[j]), j # i
                 PROVE  NeedsHuman(saved'[j]) \/ Unwritten(j)' \/ j \in failed'
      BY <2>17
    <3> QED BY <1>11, <2>8, <2>14 DEF RowsInv, RowInv
  <2>19. \A j \in Ids : /\ alerts'[j] = NoAlert <=> alerts[j] = NoAlert
                        /\ saved'[j] = NoAlert <=> saved[j] = NoAlert
                        /\ saved'[j].node = saved[j].node /\ saved'[j].type = saved[j].type
                        /\ NeedsHuman(alerts[j]) => NeedsHuman(alerts'[j]) \/ WritesBack(r, j)
    BY <2>8, <2>10, <2>13, <2>16
  <2> QED BY <1>1, <1>3, <1>10, <2>2, <2>3, <2>12, <2>18, <2>19, StatesSaved, ZenonT(60)
<1>14. CASE ~(ok /\ saved[i] # NoAlert)
  <2>1. /\ failed' = failed \cup {k.id : k \in {x \in p.saves : x.copy = NoAlert}}
        /\ request' = [request EXCEPT ![r] = Quiet] /\ UNCHANGED <<saved, alerts>>
    BY <1>1, <1>6, <1>14 DEF SaveState
  <2>2. ASSUME NEW j \in Ids, Unwritten(j) PROVE Unwritten(j)' \/ j \in failed'
    <3>1. PICK s \in Requests : Live(j) \in {request[s].new} \cup request[s].saves
      BY <2>2 DEF Unwritten
    <3>2. CASE s = r
      <4>1. Live(j) \in p.saves BY <1>1, <1>3, <3>1, <3>2 DEF Live, NoHold, Ids
      <4> QED BY <2>1, <4>1 DEF Live
    <3>3. CASE s # r
      <4>1. request'[s] = request[s] BY <1>11, <2>1, <3>3, Calm, BecomesRequest
      <4> QED BY <3>1, <4>1 DEF Unwritten, Live
    <3> QED BY <3>2, <3>3
  <2>3. \A j \in Ids : j \notin dropped /\ NeedsHuman(alerts'[j]) =>
           NeedsHuman(saved'[j]) \/ Unwritten(j)' \/ j \in failed'
    BY <1>11, <2>1, <2>2 DEF RowsInv, RowInv
  <2> QED BY <1>1, <1>3, <1>10, <1>12, <2>1, <2>3, Calm, StatesSaved
<1> QED BY <1>13, <1>14

\* The largest id of a list.
LEMMA LargestId ==
    \A list \in [Ids -> Alert] : \A m :
       m = Max(Listed(list) \cup {0}) =>
          /\ m \in 0..MaxAlerts /\ (m # 0 => list[m] # NoAlert)
          /\ \A j \in Ids : j > m => list[j] = NoAlert
<1> SUFFICES ASSUME NEW list \in [Ids -> Alert], NEW m, m = Max(Listed(list) \cup {0})
             PROVE  /\ m \in 0..MaxAlerts /\ (m # 0 => list[m] # NoAlert)
                    /\ \A j \in Ids : j > m => list[j] = NoAlert
  OBVIOUS
<1>1. PICK S : S = Listed(list) \cup {0} OBVIOUS
<1>2. S \in SUBSET (0..MaxAlerts) /\ S # {} BY <1>1, FleetAssumption DEF Listed, Ids
<1>3. m \in S /\ \A x \in S : m >= x BY <1>1, <1>2, GreatestNumber, FleetAssumption DEF Greatest
<1>4. \A j \in Ids : list[j] # NoAlert => m >= j BY <1>1, <1>3 DEF Listed
<1>5. \A j \in Ids : j > m => list[j] = NoAlert
  <2>1. m \in Int BY <1>2, <1>3
  <2>2. \A j \in Ids : j \in Int BY FleetAssumption DEF Ids
  <2>3. \A j \in Ids : m >= j => ~(j > m) BY <2>1, <2>2
  <2> QED BY <1>4, <2>3
<1> QED BY <1>1, <1>2, <1>3, <1>5 DEF Listed

\* How many alerts a list has is a number.
LEMMA ListSize == \A S \in SUBSET Ids : Cardinality(S) \in Nat
<1>1. IsFiniteSet(Ids) BY FS_Interval, FleetAssumption DEF Ids
<1> QED BY <1>1, FS_Subset, FS_CardinalityType

\* An object whose alert leaves the list.
LEMMA PartedObject ==
    ASSUME FleetTypes, NEW out \in SUBSET Ids, NEW h \in {NoHold} \cup AlertObjects
    PROVE  /\ Parted(h, out) \in {NoHold} \cup AlertObjects /\ Parted(h, out).id = h.id
           /\ h \in AlertObjects <=> Parted(h, out) \in AlertObjects
           /\ h = NoHold <=> Parted(h, out) = NoHold
           /\ h.id \notin out => Parted(h, out) = h
           /\ Parted(h, out).copy = NoAlert =>
                 h.copy = NoAlert /\ (h.id \in out => alerts[h.id] = NoAlert)
<1>1. CASE h = NoHold
  <2>1. h.id \notin out BY <1>1, Calm DEF Ids
  <2>2. Parted(h, out) = h BY <2>1 DEF Parted
  <2> QED BY <2>1, <2>2
<1>2. CASE h \in AlertObjects
  <2>1. h.id \in Ids /\ h # NoHold /\ NoHold \notin AlertObjects BY <1>2, Calm DEF AlertObjects, Ids
  <2>2. alerts[h.id] \in Alert BY <2>1 DEF FleetTypes
  <2>3. Parted(h, out) \in AlertObjects /\ Parted(h, out).id = h.id BY <1>2, <2>2 DEF Parted, AlertObjects
  <2> QED BY <1>2, <2>1, <2>3 DEF Parted, AlertObjects
<1> QED BY <1>1, <1>2

\* ... and the requests that hold such objects.
LEMMA PartedRequests ==
    ASSUME FleetTypes, NEW out \in SUBSET Ids, NEW req \in [Requests -> Demands]
    PROVE  /\ Without(req, out) \in [Requests -> Demands]
           /\ \A r \in Requests :
                 /\ Without(req, out)[r].new = Parted(req[r].new, out)
                 /\ Without(req, out)[r].held = Parted(req[r].held, out)
                 /\ Without(req, out)[r].saves = {Parted(h, out) : h \in req[r].saves}
<1>1. ASSUME NEW r \in Requests, NEW q, q = Without(req, out)[r]
      PROVE  /\ q \in Demands /\ q.new = Parted(req[r].new, out)
             /\ q.held = Parted(req[r].held, out)
             /\ q.saves = {Parted(h, out) : h \in req[r].saves}
  <2>1. PICK p \in Demands : p = req[r] OBVIOUS
  <2>2. PICK n : n = Parted(p.new, out) OBVIOUS
  <2>3. PICK d : d = Parted(p.held, out) OBVIOUS
  <2>4. PICK S : S = {Parted(h, out) : h \in p.saves} OBVIOUS
  <2>5. q = [p EXCEPT !.new = n, !.held = d, !.saves = S]
    BY <1>1, <2>1, <2>2, <2>3, <2>4 DEF Without
  <2>6. n \in {NoHold} \cup AlertObjects /\ (n = NoHold <=> p.new = NoHold)
    BY <2>2, DemandFields, PartedObject
  <2>7. d \in {NoHold} \cup AlertObjects /\ (d = NoHold <=> p.held = NoHold)
    BY <2>3, DemandFields, PartedObject
  <2>8. S \in SUBSET AlertObjects
    <3>1. \A h \in p.saves : h \in AlertObjects BY DemandFields
    <3> QED BY <2>4, <3>1, PartedObject
  <2>9. S = {} <=> p.saves = {} BY <2>4
  <2>10. q.new = n /\ q.held = d /\ q.saves = S BY <2>5 DEF Demands
  <2>11. q \in Demands BY <2>5, <2>6, <2>7, <2>8, <2>9 DEF Demands
  <2> QED BY <2>1, <2>2, <2>3, <2>4, <2>10, <2>11
<1>2. \A r \in Requests : Without(req, out)[r] \in Demands BY <1>1
<1>3. Without(req, out) \in [Requests -> Demands] BY <1>2 DEF Without
<1> QED BY <1>1, <1>3

\* create_alert, which may cut the oldest alert from a full list.
LEMMA CreateAlertKeeps == ASSUME AlertInv, NEW r \in Requests, CreateAlert(r) PROVE Kept
<1>1. PICK p \in Demands : p = request[r] BY RequestDemands
<1>2. p.missing BY <1>1 DEF CreateAlert
<1>3. p.op \notin Idling /\ p.type \in Types /\ p.node \in Nodes /\ p.by \in Handlers
      /\ p.new = NoHold /\ p.held = NoHold /\ p.saves = {}
  BY <1>2, DemandFields
<1>4. PICK n : n = NextId OBVIOUS
<1>5. n \in Ids BY <1>4 DEF CreateAlert
<1>6. PICK a : a = [node |-> p.node, type |-> p.type, status |-> "open", by |-> p.by,
                    source |-> IF p.op = "heartbeat" THEN "node-heartbeat" ELSE "central-api"]
  OBVIOUS
<1>7. a \in Raised /\ a # NoAlert
  <2>1. a \in Raised BY <1>3, <1>6 DEF Raised, Statuses
  <2> QED BY <2>1, RaisedAlert
<1>8. PICK q : q = [p EXCEPT !.missing = FALSE, !.new = Live(n)] OBVIOUS
<1>9. q \in Demands /\ q.new = Live(n) /\ q.held = NoHold /\ q.saves = {}
  <2>1. Live(n) \in AlertObjects BY <1>5 DEF Live, AlertObjects, Alert
  <2> QED BY <1>3, <1>8, <2>1 DEF Demands
<1>10. PICK req : req = [request EXCEPT ![r] = q] OBVIOUS
<1>11. PICK out \in Trims :
          /\ alerts' = [i \in Ids |-> IF i = n THEN a ELSE IF i \in out THEN NoAlert ELSE alerts[i]]
          /\ request' = Without(req, out)
  BY <1>1, <1>4, <1>6, <1>8, <1>10 DEF CreateAlert
<1>12. lastId' = Max({lastId, n}) /\ UNCHANGED <<saved, loading, dropped, failed>>
  BY <1>4 DEF CreateAlert
<1>13. FleetTypes /\ HandsInv /\ NumbersInv /\ RowsInv BY DEF AlertInv
<1>14. /\ req \in [Requests -> Demands] /\ req[r] = q
       /\ \A s \in Requests : s # r => req[s] = request[s]
  BY <1>9, <1>10, <1>13 DEF FleetTypes
<1>15. /\ \A i \in out : i \in Ids /\ alerts[i] # NoAlert
       /\ out # {} => Cardinality(Listed(alerts)) >= AlertLimit
  <2>1. Cardinality(Listed(alerts)) \in Nat BY ListSize DEF Listed
  <2>2. CASE Cardinality(Listed(alerts)) < AlertLimit BY <1>11, <2>2 DEF Trims
  <2>3. CASE ~(Cardinality(Listed(alerts)) < AlertLimit)
    <3>1. PICK j \in Listed(alerts) : out = {j} BY <1>11, <2>3 DEF Trims
    <3> QED BY <2>1, <2>3, <3>1, FleetAssumption DEF Listed
  <2> QED BY <2>2, <2>3
<1>16. \A j \in Ids : j >= n => alerts[j] = NoAlert
  <2>1. PICK m : m = Max(Listed(alerts) \cup {0}) OBVIOUS
  <2>2. n = m + 1 BY <1>4, <2>1 DEF NextId
  <2>3. m \in 0..MaxAlerts /\ \A j \in Ids : j > m => alerts[j] = NoAlert
    BY <1>13, <2>1, LargestId DEF FleetTypes
  <2> QED BY <2>2, <2>3, FleetAssumption DEF Ids
<1>17. n \in Int /\ lastId \in Int /\ \A i \in Ids : i \in Int
  BY <1>5, <1>13, FleetAssumption DEF FleetTypes, Ids
<1>18. n \notin dropped => n > lastId BY <1>5, <1>13, <1>16, <1>17 DEF NumbersInv
<1>19. n \notin out /\ alerts[n] = NoAlert BY <1>5, <1>15, <1>16, <1>17
<1>20. \A i \in Ids : /\ i = n => alerts'[i] = a
                      /\ i # n /\ i \in out => alerts'[i] = NoAlert
                      /\ i # n /\ i \notin out => alerts'[i] = alerts[i]
  BY <1>11
<1>21. /\ request' \in [Requests -> Demands]
       /\ \A s \in Requests : /\ request'[s].new = Parted(req[s].new, out)
                              /\ request'[s].held = Parted(req[s].held, out)
                              /\ request'[s].saves = {Parted(h, out) : h \in req[s].saves}
  <2>1. out \in SUBSET Ids BY <1>15
  <2> QED BY <1>11, <1>13, <1>14, <2>1, PartedRequests
<1>22. lastId' \in {lastId, n} /\ lastId' >= lastId /\ lastId' >= n BY <1>12, <1>17, MinMax
<1>23. FleetTypes'
  <2>1. alerts' \in [Ids -> Alert] BY <1>7, <1>11, <1>13 DEF FleetTypes, Alert
  <2>2. lastId' \in 0..MaxAlerts BY <1>5, <1>13, <1>22, FleetAssumption DEF FleetTypes, Ids
  <2> QED BY <1>12, <1>13, <1>21, <2>1, <2>2 DEF FleetTypes
<1>24. \A s \in Requests : \A h \in Carried(req[s]) : h \in {NoHold} \cup AlertObjects
  BY <1>14, DemandFields DEF Carried
<1>25. HandsInv'
  <2>1. ASSUME NEW s \in Requests, NEW k \in Carried(request'[s]), k.id # 0, k.copy = NoAlert
        PROVE  alerts'[k.id] # NoAlert
    <3>1. PICK h \in Carried(req[s]) : k = Parted(h, out) BY <1>21, <2>1 DEF Carried
    <3>2. /\ h \in {NoHold} \cup AlertObjects /\ k.id = h.id /\ h.copy = NoAlert
          /\ h.id \in out => alerts[h.id] = NoAlert
      BY <1>13, <1>15, <1>24, <2>1, <3>1, PartedObject
    <3>3. h.id \in Ids BY <2>1, <3>2, Calm DEF AlertObjects
    <3>4. CASE h.id = n BY <1>7, <1>20, <3>2, <3>3, <3>4
    <3>5. CASE h.id # n
      <4>1. h \in Carried(request[s])
        BY <1>9, <1>14, <2>1, <3>1, <3>2, <3>5, Calm DEF Carried, Live
      <4>2. alerts[h.id] # NoAlert BY <1>13, <2>1, <3>2, <4>1 DEF HandsInv, Placed
      <4> QED BY <1>20, <3>2, <3>3, <3>5, <4>2
    <3> QED BY <3>4, <3>5
  <2> QED BY <2>1 DEF HandsInv, Carried, Placed
<1>26. \A s \in Requests :
          /\ s = r => request'[s].new = Live(n) /\ request'[s].new.id = n
                      /\ request'[s].new.copy = NoAlert
          /\ s # r => /\ request'[s].new.id = request[s].new.id
                      /\ request[s].new.id \notin out => request'[s].new = request[s].new
  <2>1. \A s \in Requests : req[s].new \in {NoHold} \cup AlertObjects BY <1>14, DemandFields
  <2>2. \A s \in Requests : /\ request'[s].new.id = req[s].new.id
                            /\ req[s].new.id \notin out => request'[s].new = req[s].new
    BY <1>13, <1>15, <1>21, <2>1, PartedObject
  <2> QED BY <1>9, <1>14, <1>19, <2>2 DEF Live
<1>27. NumbersInv'
  <2>1. \A i \in Ids : saved'[i] # NoAlert => i <= lastId'
    BY <1>12, <1>13, <1>17, <1>22 DEF NumbersInv
  <2>2. \A s \in Requests : request'[s].new.id <= lastId'
    <3>1. \A s \in Requests : request[s].new.id \in Int /\ request[s].new.id <= lastId
      <4>1. \A s \in Requests : request[s].new \in {NoHold} \cup AlertObjects
        BY RequestDemands, DemandFields
      <4> QED BY <1>13, <1>17, <4>1, Calm DEF NumbersInv, AlertObjects
    <3> QED BY <1>17, <1>22, <1>26, <3>1
  <2>3. ASSUME NEW i \in Ids, i <= lastId', \A j \in Ids : j >= i => alerts'[j] = NoAlert
        PROVE  i \in dropped
    <3>1. ~(n >= i) BY <1>5, <1>7, <1>20, <2>3
    <3>2. i <= lastId BY <1>17, <1>22, <2>3, <3>1
    <3>3. \A j \in Ids : j >= i => alerts[j] = NoAlert BY <1>16, <1>17, <3>1
    <3> QED BY <1>13, <3>2, <3>3 DEF NumbersInv
  <2> QED BY <1>12, <2>1, <2>2, <2>3 DEF NumbersInv
<1>28. \A i \in Ids : Unwritten(i) /\ i \notin out => Unwritten(i)'
  <2> SUFFICES ASSUME NEW i \in Ids, Unwritten(i), i \notin out PROVE Unwritten(i)' OBVIOUS
  <2>1. PICK s \in Requests : Live(i) \in {request[s].new} \cup request[s].saves BY DEF Unwritten
  <2>2. s # r BY <1>1, <1>3, <2>1 DEF Live, NoHold, Ids
  <2>3. Live(i) \in AlertObjects /\ Live(i).id = i BY DEF Live, AlertObjects, Alert
  <2>4. Parted(Live(i), out) = Live(i) BY <1>13, <1>15, <2>3, PartedObject
  <2>5. Live(i) \in {request'[s].new} \cup request'[s].saves BY <1>14, <1>21, <2>1, <2>2, <2>4
  <2> QED BY <2>5 DEF Unwritten, Live
<1>29. RowsInv'
  <2> SUFFICES ASSUME NEW i \in Ids, i \notin dropped PROVE RowInv(i)' BY <1>12 DEF RowsInv
  <2>1. RowInv(i) BY <1>13 DEF RowsInv
  <2>2. \A s \in Requests : s # r /\ request[s].new.id = i => i # n
    BY <1>13, <1>17, <1>18 DEF NumbersInv
  <2>3. i = n => saved[i] = NoAlert BY <1>13, <1>17, <1>18 DEF NumbersInv
  <2>4. \A s \in Requests : request'[s].new.id = i =>
           saved[i] = NoAlert /\ (request'[s].new.copy = NoAlert \/ alerts'[i] = NoAlert)
    <3> SUFFICES ASSUME NEW s \in Requests, request'[s].new.id = i
                 PROVE  saved[i] = NoAlert
                        /\ (request'[s].new.copy = NoAlert \/ alerts'[i] = NoAlert)
      OBVIOUS
    <3>1. CASE s = r BY <1>26, <2>3, <3>1
    <3>2. CASE s # r
      <4>1. request[s].new.id = i /\ i # n BY <1>26, <2>2, <3>2
      <4> QED BY <1>20, <1>26, <2>1, <3>2, <4>1 DEF RowInv
    <3> QED BY <3>1, <3>2
  <2>5. \A s, t \in Requests : request'[s].new.id = i /\ request'[t].new.id = i => s = t
    BY <1>26, <2>1, <2>2 DEF RowInv
  <2>6. NeedsHuman(alerts'[i]) => NeedsHuman(saved[i]) \/ Unwritten(i)' \/ i \in failed
    <3>1. CASE i = n BY <1>26, <3>1 DEF Unwritten, Live
    <3>2. CASE i # n /\ i \in out BY <1>20, <3>2 DEF NeedsHuman, Open
    <3>3. CASE i # n /\ i \notin out BY <1>20, <1>28, <2>1, <3>3 DEF RowInv
    <3> QED BY <3>1, <3>2, <3>3
  <2>7. NeedsHuman(alerts[i])' => NeedsHuman(saved[i])' \/ Unwritten(i)' \/ (i \in failed)'
    BY <1>12, <2>6 DEF NeedsHuman, Open
  <2> QED BY <1>12, <2>1, <2>4, <2>5, <2>7 DEF RowInv
<1>30. ASSUME NEW i \in Ids PROVE AlertKept(i)
  <2>1. CASE i = n BY <1>12, <1>19, <2>1 DEF AlertKept, NeedsHuman, Open
  <2>2. CASE i # n /\ i \in out BY <1>12, <1>15, <1>20, <2>2 DEF AlertKept
  <2>3. CASE i # n /\ i \notin out BY <1>12, <1>20, <2>3 DEF AlertKept
  <2> QED BY <2>1, <2>2, <2>3
<1> QED BY <1>23, <1>25, <1>27, <1>29, <1>30 DEF Kept, AlertInv

\* refresh_primary_projection reads the rows.
LEMMA BeginReloadKeeps == ASSUME AlertInv, BeginReload PROVE Kept
<1>1. /\ UNCHANGED <<alerts, saved, lastId, dropped, failed, request>> /\ loading' = saved
      /\ FleetTypes /\ HandsInv /\ NumbersInv /\ RowsInv
  BY DEF BeginReload, listVars, AlertInv
<1>2. FleetTypes' BY <1>1 DEF FleetTypes
<1>3. HandsInv' BY <1>1 DEF HandsInv, Carried, Placed
<1>4. NumbersInv' BY <1>1 DEF NumbersInv
<1>5. \A i \in Ids : Unwritten(i)' <=> Unwritten(i) BY <1>1 DEF Unwritten
<1>6. RowsInv' BY <1>1, <1>5 DEF RowsInv, RowInv, NeedsHuman, Open
<1>7. \A i \in Ids : AlertKept(i) BY <1>1 DEF AlertKept
<1> QED BY <1>2, <1>3, <1>4, <1>6, <1>7 DEF Kept, AlertInv

\* ... and the newest of them replace the list.
LEMMA FinishReloadKeeps == ASSUME AlertInv, FinishReload PROVE Kept
<1>1. PICK m : m = Max(Listed(Loaded) \cup {0}) OBVIOUS
<1>2. /\ loading # NotLoading /\ loading' = NotLoading /\ alerts' = Loaded
      /\ request' = Without(request, Ids) /\ dropped' = dropped \cup (m + 1)..lastId
      /\ failed' = {} /\ UNCHANGED <<saved, lastId>>
  BY <1>1 DEF FinishReload
<1>3. FleetTypes /\ HandsInv /\ NumbersInv /\ RowsInv BY DEF AlertInv
<1>4. loading \in [Ids -> Alert] BY <1>2, <1>3 DEF FleetTypes
<1>5. /\ Loaded \in [Ids -> Alert]
      /\ \A i \in Ids : /\ Loaded[i] \in {loading[i], NoAlert}
                        /\ ~(Cardinality(Newer(i)) > AlertLimit) => Loaded[i] = loading[i]
  <2>1. \A i \in Ids : Cardinality(Newer(i)) \in Nat BY ListSize DEF Newer, Listed
  <2>2. AlertLimit \in Nat BY FleetAssumption
  <2>3. \A i \in Ids : ~(Cardinality(Newer(i)) > AlertLimit) => Cardinality(Newer(i)) <= AlertLimit
    BY <2>1, <2>2
  <2> QED BY <1>4, <2>3 DEF Loaded, Alert
<1>6. /\ request' \in [Requests -> Demands]
      /\ \A s \in Requests : /\ request'[s].new = Parted(request[s].new, Ids)
                             /\ request'[s].held = Parted(request[s].held, Ids)
                             /\ request'[s].saves = {Parted(h, Ids) : h \in request[s].saves}
  <2>1. Ids \in SUBSET Ids /\ request \in [Requests -> Demands] BY <1>3 DEF FleetTypes
  <2> QED BY <1>2, <1>3, <2>1, PartedRequests
<1>7. FleetTypes' BY <1>2, <1>3, <1>5, <1>6 DEF FleetTypes
<1>8. HandsInv'
  <2>1. ASSUME NEW s \in Requests, NEW k \in Carried(request'[s]), k.id # 0, k.copy = NoAlert
        PROVE  FALSE
    <3>1. PICK h \in Carried(request[s]) : k = Parted(h, Ids) BY <1>6, <2>1 DEF Carried
    <3>2. h \in {NoHold} \cup AlertObjects BY RequestDemands, DemandFields DEF Carried
    <3>3. k.id = h.id /\ h.copy = NoAlert /\ (h.id \in Ids => alerts[h.id] = NoAlert)
      BY <1>3, <2>1, <3>1, <3>2, PartedObject
    <3>4. h.id \in Ids BY <2>1, <3>2, <3>3, Calm DEF AlertObjects
    <3> QED BY <1>3, <2>1, <3>3, <3>4 DEF HandsInv, Placed
  <2> QED BY <2>1 DEF HandsInv, Carried, Placed
<1>9. \A s \in Requests : request'[s].new.id = request[s].new.id
  <2>1. \A s \in Requests : request[s].new \in {NoHold} \cup AlertObjects BY RequestDemands, DemandFields
  <2> QED BY <1>3, <1>6, <2>1, PartedObject
<1>10. NumbersInv'
  <2>1. ASSUME NEW i \in Ids, i <= lastId, \A j \in Ids : j >= i => Loaded[j] = NoAlert
        PROVE  i \in dropped'
    <3>1. m \in 0..MaxAlerts /\ (m # 0 => Loaded[m] # NoAlert) BY <1>1, <1>5, LargestId
    <3>2. m \in Int /\ i \in Int /\ lastId \in Int /\ i > 0 /\ (m # 0 => m \in Ids)
      BY <1>3, <3>1, FleetAssumption DEF FleetTypes, Ids
    <3>3. ~(m >= i) BY <2>1, <3>1, <3>2
    <3>4. i \in (m + 1)..lastId BY <2>1, <3>2, <3>3
    <3> QED BY <1>2, <3>4
  <2> QED BY <1>2, <1>3, <1>9, <2>1 DEF NumbersInv
<1>11. RowsInv'
  <2> SUFFICES ASSUME NEW i \in Ids, i \notin dropped' PROVE RowInv(i)' BY DEF RowsInv
  <2>1. RowInv(i) BY <1>2, <1>3 DEF RowsInv
  <2>2. \A s \in Requests : request'[s].new.id = i => saved[i] = NoAlert /\ alerts'[i] = NoAlert
    BY <1>2, <1>5, <1>9, <2>1 DEF RowInv
  <2>3. NeedsHuman(alerts'[i]) => NeedsHuman(saved[i])
    BY <1>2, <1>5, <2>1 DEF RowInv, NeedsHuman, Open
  <2>4. NeedsHuman(alerts[i])' => NeedsHuman(saved[i])' BY <1>2, <2>3 DEF NeedsHuman, Open
  <2> QED BY <1>2, <1>9, <2>1, <2>2, <2>4 DEF RowInv
<1>12. ASSUME NEW i \in Ids PROVE AlertKept(i)
  <2>1. CASE \/ i \in dropped \/ loading[i] = NoAlert \/ i \in failed \/ Unwritten(i)
             \/ Cardinality(Newer(i)) > AlertLimit
    BY <1>2, <2>1 DEF AlertKept
  <2>2. CASE ~(\/ i \in dropped \/ loading[i] = NoAlert \/ i \in failed \/ Unwritten(i)
               \/ Cardinality(Newer(i)) > AlertLimit)
    <3>1. alerts'[i] = saved[i] BY <1>2, <1>3, <1>5, <2>2 DEF RowsInv, RowInv
    <3>2. NeedsHuman(alerts[i]) => NeedsHuman(alerts'[i])
      BY <1>3, <2>2, <3>1 DEF RowsInv, RowInv
    <3> QED BY <1>2, <3>2 DEF AlertKept
  <2> QED BY <2>1, <2>2
<1> QED BY <1>7, <1>8, <1>10, <1>11, <1>12 DEF Kept, AlertInv

\* Every step keeps what the theorems say.
LEMMA FleetStepKeeps == ASSUME AlertInv, NodeStep \/ AlertStep PROVE Kept
<1>1. ASSUME NEW n \in Nodes, Isolate(n) PROVE Kept BY <1>1, OtherSteps DEF Isolate, alertVars
<1>2. ASSUME NEW n \in Nodes, Restore(n) PROVE Kept BY <1>2, OtherSteps DEF Restore, alertVars
<1>3. ASSUME NEW n \in Nodes, Silence(n) PROVE Kept BY <1>3, OtherSteps DEF Silence, alertVars
<1>4. ASSUME NEW n \in Nodes, NEW st, PlainHeartbeat(n, st) PROVE Kept
  BY <1>4, OtherSteps DEF PlainHeartbeat, alertVars
<1>5. CASE NodeStep
  <2>1. ASSUME NEW n \in Nodes, NEW r \in Requests, Retire(r, n) PROVE Kept BY <2>1, RetireKeeps
  <2>2. ASSUME NEW n \in Nodes, NEW r \in Requests, NEW cool, NEW t \in Types, NEW finding,
               Metric(r, n, cool, finding, t)
        PROVE  Kept
    BY <2>2, MetricKeeps
  <2>3. ASSUME NEW r \in Requests, NEW x, MetricActs(r, x) PROVE Kept BY <2>3, MetricActsKeeps
  <2> QED BY <1>1, <1>2, <1>3, <1>4, <1>5, <2>1, <2>2, <2>3 DEF NodeStep
<1>6. ASSUME NEW r \in Requests, NEW n \in Nodes, NEW t \in Types, ConfirmAlert(r, n, t) PROVE Kept
  <2>1. "confirmed" \in Statuses /\ "operator" \in Handlers BY DEF Statuses, Handlers
  <2> QED BY <1>6, <2>1, TakeKeepsAlerts DEF ConfirmAlert
<1>7. ASSUME NEW r \in Requests, NEW n \in Nodes, NEW t \in Types, BeginDiagnosis(r, n, t) PROVE Kept
  <2>1. "diagnosed" \in Statuses /\ "ai" \in Handlers BY DEF Statuses, Handlers
  <2> QED BY <1>7, <2>1, TakeKeepsAlerts DEF BeginDiagnosis
<1>8. ASSUME NEW r \in Requests, NEW n \in Nodes, NEW t \in Types,
             NEW st \in {"observing", "closed"}, DecideIssue(r, n, t, st)
      PROVE  Kept
  <2>1. st \in Statuses /\ "operator" \in Handlers BY DEF Statuses, Handlers
  <2> QED BY <1>8, <2>1, TakeKeepsAlerts DEF DecideIssue
<1>9. CASE AlertStep
  <2>1. CASE BeginReload BY <2>1, BeginReloadKeeps
  <2>2. CASE FinishReload BY <2>2, FinishReloadKeeps
  <2>3. ASSUME NEW r \in Requests, NEW n \in Nodes, NEW t \in Types,
               AskEscalation(r, n, t) \/ \E x \in BOOLEAN : DecideEscalation(r, n, t, x)
        PROVE  Kept
    BY <2>3, AskKeeps, DecideKeeps
  <2>4. ASSUME NEW r \in Requests, NEW n \in Nodes, NEW st, NEW alarms \in SUBSET Types,
               BeginHeartbeat(r, n, st, alarms)
        PROVE  Kept
    BY <2>4, BeginHeartbeatKeeps
  <2>5. ASSUME NEW r \in Requests, NEW t \in Types, LookUpAlarm(r, t) PROVE Kept
    BY <2>5, LookUpKeeps
  <2>6. ASSUME NEW r \in Requests, NEW x \in BOOLEAN,
               \/ SaveAlert(r, x) \/ FinishDiagnosis(r, x)
               \/ \E h \in request[r].saves : SaveState(r, h, x)
        PROVE  Kept
    BY <2>6, SaveAlertKeeps, FinishDiagnosisKeeps, SaveStateKeeps
  <2>7. ASSUME NEW r \in Requests,
               \/ CreateAlert(r) \/ ResolveCleared(r) \/ Mark(r) \/ Escalate(r)
               \/ ReportEscalation(r) \/ CloseNext(r)
        PROVE  Kept
    BY <2>7, CreateAlertKeeps, ResolveKeeps, MarkKeeps, EscalateKeeps, ReportKeeps, CloseNextKeeps
  <2> QED BY <1>6, <1>7, <1>8, <1>9, <2>1, <2>2, <2>3, <2>4, <2>5, <2>6, <2>7 DEF AlertStep
<1> QED BY <1>5, <1>9

\* The fleet begins without alerts and requests.
LEMMA AlertsBegin == FleetInit => AlertInv
<1> SUFFICES ASSUME FleetInit PROVE AlertInv OBVIOUS
<1>1. /\ alerts = [i \in Ids |-> NoAlert] /\ saved = alerts /\ loading = NotLoading
      /\ request = [r \in Requests |-> Quiet] /\ lastId = 0
  BY DEF FleetInit
<1>2. FleetTypes BY <1>1, Calm, FleetAssumption DEF FleetTypes, Alert
<1>3. HandsInv BY <1>1, Calm DEF HandsInv, Carried, Placed
<1>4. \A i \in Ids : i \in Int /\ i > 0 BY FleetAssumption DEF Ids
<1>5. NumbersInv BY <1>1, <1>4, Calm DEF NumbersInv
<1>6. RowsInv BY <1>1, <1>4, Calm DEF RowsInv, RowInv, NeedsHuman, Open
<1> QED BY <1>2, <1>3, <1>5, <1>6 DEF AlertInv

\* The alert routes, the heartbeat's recovery and the late saves of both: what waits for a
\* person waits until a person acts, for every length of the list and number of alerts, nodes
\* and requests, and whenever the list is reloaded, but for the exceptions of EscalationKept.
THEOREM EscalationsKept == FleetSpec => EscalationKept
<1>1. AlertInv /\ [NodeStep \/ AlertStep]_fleetVars => Kept
  <2>1. CASE UNCHANGED fleetVars BY <2>1, OtherSteps DEF fleetVars, alertVars
  <2> QED BY <2>1, FleetStepKeeps
<1>2. Kept => [\A i \in Ids : NeedsHuman(alerts[i]) =>
          \/ NeedsHuman(alerts'[i]) \/ alerts'[i].by = "operator"
          \/ alerts'[i] = NoAlert /\ Cardinality(Listed(alerts)) >= AlertLimit
          \/ /\ loading # NotLoading /\ loading' = NotLoading
             /\ \/ loading[i] = NoAlert \/ Cardinality(Newer(i)) > AlertLimit
                \/ i \in failed \/ Unwritten(i)
          \/ \E r \in Requests : WritesBack(r, i)
          \/ i \in dropped']_fleetVars
  BY DEF Kept, AlertKept
<1>3. Kept => AlertInv' BY DEF Kept
<1> QED BY <1>1, <1>2, <1>3, AlertsBegin, PTL DEF FleetSpec, EscalationKept

\* create_alert and persist_alert: no row of the alerts table passes to another alert.
THEOREM AlertRows == FleetSpec => AlertRowsKept
<1>1. AlertInv /\ [NodeStep \/ AlertStep]_fleetVars => Kept
  <2>1. CASE UNCHANGED fleetVars BY <2>1, OtherSteps DEF fleetVars, alertVars
  <2> QED BY <2>1, FleetStepKeeps
<1>2. Kept => [\A i \in Ids : saved[i] # NoAlert =>
          \/ saved'[i].node = saved[i].node /\ saved'[i].type = saved[i].type
          \/ i \in dropped']_fleetVars
  BY DEF Kept, AlertKept
<1>3. Kept => AlertInv' BY DEF Kept
<1> QED BY <1>1, <1>2, <1>3, AlertsBegin, PTL DEF FleetSpec, AlertRowsKept
=============================================================================
