---------------------------- MODULE CatalogProofs ----------------------------
(***************************************************************************)
(* The scans of the greeter, for inputs of any length: the command of a    *)
(* session, the accounts, and the session that is selected.                *)
(***************************************************************************)
EXTENDS Catalog, Induction, FiniteSetTheorems, SequenceTheorems, TLAPS

-----------------------------------------------------------------------------
(* Recursive functions over the positions of a sequence.                   *)

(* A loop over n elements that keeps a state in D is a function.           *)
IsLoop(n, D, base, step) ==
    n \in Nat /\ base \in D /\ step \in [(1..n) \X D -> D]

Turns(f, n, D, base, step) ==
    /\ f \in [0..n -> D]
    /\ f[0] = base
    /\ \A i \in 1..n : f[i] = step[<<i, f[i - 1]>>]

(* Every such loop has one: the states it is in, turn by turn.             *)
LEMMA LoopExists ==
    ASSUME NEW n, NEW D, NEW base, NEW step, IsLoop(n, D, base, step)
    PROVE  \E f : Turns(f, n, D, base, step)
<1> DEFINE S == {m \in Nat : m <= n => \E f : Turns(f, m, D, base, step)}
<1> USE DEF IsLoop
<1>1. 0 \in S
  <2>1. Turns([i \in 0..0 |-> base], 0, D, base, step)
    BY DEF Turns
  <2>2. QED
    BY <2>1
<1>2. ASSUME NEW m \in Nat, m \in S PROVE m + 1 \in S
  <2>1. SUFFICES ASSUME m + 1 <= n PROVE \E f : Turns(f, m + 1, D, base, step)
    OBVIOUS
  <2>2. PICK f : Turns(f, m, D, base, step)
    BY <1>2, <2>1
  <2> DEFINE last == step[<<m + 1, f[m]>>]
             more == [i \in 0..(m + 1) |-> IF i <= m THEN f[i] ELSE last]
  <2>3. last \in D
    BY <2>1, <2>2 DEF Turns
  <2> HIDE DEF last
  <2>4. more \in [0..(m + 1) -> D] /\ more[0] = base
    BY <2>2, <2>3 DEF Turns
  <2>5. ASSUME NEW i \in 1..(m + 1) PROVE more[i] = step[<<i, more[i - 1]>>]
    <3>1. i - 1 \in 0..m /\ i \in 0..(m + 1) /\ i - 1 \in 0..(m + 1)
      OBVIOUS
    <3>2. more[i - 1] = f[i - 1]
      BY <3>1
    <3>3. CASE i <= m
      <4>1. i \in 1..m
        BY <3>3
      <4>2. f[i] = step[<<i, f[i - 1]>>]
        BY <2>2, <4>1 DEF Turns
      <4>3. more[i] = f[i]
        BY <3>1, <3>3
      <4>4. QED
        BY <3>2, <4>2, <4>3
    <3>4. CASE i = m + 1
      <4>1. more[i] = last /\ i - 1 = m
        BY <3>1, <3>4
      <4>2. QED
        BY <3>2, <3>4, <4>1 DEF last
    <3>5. QED
      BY <3>3, <3>4
  <2> HIDE DEF more
  <2>6. Turns(more, m + 1, D, base, step)
    BY <2>4, <2>5 DEF Turns
  <2>7. QED
    BY <2>6
<1>3. n \in S
  <2> HIDE DEF S
  <2>1. QED
    BY <1>1, <1>2, StepInduction
<1>4. QED
  BY <1>3

(* What is left of a sequence without the elements of S.                   *)
LEMMA WithoutTurns ==
    ASSUME NEW T, NEW s \in Seq(T), NEW S
    PROVE  \E r : /\ r[0] = <<>>
                  /\ \A i \in 1..Len(s) :
                       r[i] = IF s[i] \in S THEN r[i - 1] ELSE Append(r[i - 1], s[i])
                  /\ Without(s, S) = r[Len(s)]
<1> DEFINE n == Len(s)
           D == Seq(T)
           Go(i, q) == IF s[i] \in S THEN q ELSE Append(q, s[i])
           step == [p \in (1..n) \X D |-> Go(p[1], p[2])]
           Turn(r, i) == IF i = 0 THEN <<>> ELSE Go(i, r[i - 1])
           rest == CHOOSE r : r = [i \in 0..n |-> Turn(r, i)]
<1>1. n \in Nat /\ <<>> \in D /\ \A i \in 1..n, q \in D : Go(i, q) \in D
  OBVIOUS
<1>2. Without(s, S) = rest[n]
  BY DEF Without
<1> HIDE DEF n, D, Go
<1>3. IsLoop(n, D, <<>>, step)
  BY <1>1 DEF IsLoop
<1>4. \A i \in 1..n, q \in D : step[<<i, q>>] = Go(i, q)
  OBVIOUS
<1> HIDE DEF step
<1>5. PICK f : Turns(f, n, D, <<>>, step)
  BY <1>3, LoopExists
<1>6. ASSUME NEW i \in 0..n PROVE f[i] = Turn(f, i)
  <2>1. CASE i = 0
    BY <1>5, <2>1 DEF Turns
  <2>2. CASE i # 0
    <3>1. i \in 1..n /\ f[i - 1] \in D
      BY <1>1, <1>5, <2>2 DEF Turns
    <3>2. QED
      BY <1>4, <1>5, <2>2, <3>1 DEF Turns
  <2>3. QED
    BY <2>1, <2>2
<1> HIDE DEF Turn
<1>7. f = [i \in 0..n |-> Turn(f, i)]
  BY <1>5, <1>6 DEF Turns
<1>8. rest = [i \in 0..n |-> Turn(rest, i)]
  BY <1>7
<1> HIDE DEF rest
<1>9. \A i \in 0..n : rest[i] = Turn(rest, i)
  BY <1>8
<1>10. rest[0] = <<>> /\ \A i \in 1..n : rest[i] = Go(i, rest[i - 1])
  BY <1>1, <1>9 DEF Turn
<1>11. QED
  BY <1>2, <1>10 DEF n, Go

(* It is a sequence of what is not in S, and nothing else is lost.         *)
Among(s) == {s[i] : i \in DOMAIN s}

(* An element more at the end of a list (push, throughout the scans).      *)
LEMMA Appended ==
    ASSUME NEW T, NEW q \in Seq(T), NEW x \in T
    PROVE  /\ Append(q, x) \in Seq(T)
           /\ Len(Append(q, x)) = Len(q) + 1
           /\ \A k \in 1..Len(q) : Append(q, x)[k] = q[k]
           /\ Append(q, x)[Len(q) + 1] = x
           /\ Among(Append(q, x)) = Among(q) \union {x}
<1>1. Append(q, x) \in Seq(T) /\ Len(Append(q, x)) = Len(q) + 1
  OBVIOUS
<1>2. \A k \in 1..Len(q) : Append(q, x)[k] = q[k]
  OBVIOUS
<1>3. Append(q, x)[Len(q) + 1] = x
  OBVIOUS
<1>4. Among(Append(q, x)) = Among(q) \union {x}
  <2> DEFINE a == Append(q, x)
             n == Len(q)
  <2>1. DOMAIN a = 1..(n + 1) /\ DOMAIN q = 1..n /\ n \in Nat
    BY <1>1
  <2>2. (\A k \in 1..n : a[k] = q[k]) /\ a[n + 1] = x
    BY <1>2, <1>3
  <2> HIDE DEF a, n
  <2>3. 1..(n + 1) = (1..n) \union {n + 1}
    BY <2>1
  <2>4. {a[i] : i \in 1..(n + 1)} = {a[i] : i \in 1..n} \union {a[n + 1]}
    BY <2>3
  <2>5. {a[i] : i \in 1..n} = {q[i] : i \in 1..n}
    BY <2>2
  <2>6. Among(a) = Among(q) \union {x}
    BY <2>1, <2>2, <2>4, <2>5 DEF Among
  <2>7. QED
    BY <2>6 DEF a
<1>5. QED
  BY <1>1, <1>2, <1>3, <1>4

(* filter (split_exec, parse): all that is not in S is left, and no more.  *)
LEMMA WithoutElements ==
    ASSUME NEW T, NEW s \in Seq(T), NEW S
    PROVE  Without(s, S) \in Seq(T) /\ Among(Without(s, S)) = Among(s) \ S
<1>1. PICK r : /\ r[0] = <<>>
               /\ \A i \in 1..Len(s) :
                    r[i] = IF s[i] \in S THEN r[i - 1] ELSE Append(r[i - 1], s[i])
               /\ Without(s, S) = r[Len(s)]
  BY WithoutTurns
<1> DEFINE Upto(i) == {s[j] : j \in 1..i}
           Good == {i \in Nat : i <= Len(s) =>
                      r[i] \in Seq(T) /\ Among(r[i]) = Upto(i) \ S}
<1>2. 0 \in Good
  <2>1. r[0] \in Seq(T) /\ Among(r[0]) = {}
    BY <1>1 DEF Among
  <2>2. Upto(0) = {}
    OBVIOUS
  <2>3. QED
    BY <2>1, <2>2
<1>3. ASSUME NEW i \in Nat, i \in Good PROVE i + 1 \in Good
  <2>1. SUFFICES ASSUME i + 1 <= Len(s)
                 PROVE  r[i + 1] \in Seq(T) /\ Among(r[i + 1]) = Upto(i + 1) \ S
    OBVIOUS
  <2>2. r[i] \in Seq(T) /\ Among(r[i]) = Upto(i) \ S
    BY <1>3, <2>1
  <2>3. i + 1 \in 1..Len(s) /\ (i + 1) - 1 = i /\ s[i + 1] \in T
    BY <2>1
  <2>4. Upto(i + 1) = Upto(i) \union {s[i + 1]}
    <3>1. 1..(i + 1) = (1..i) \union {i + 1}
      OBVIOUS
    <3>2. QED
      BY <3>1
  <2> HIDE DEF Upto
  <2>5. CASE s[i + 1] \in S
    <3>1. r[i + 1] = r[i]
      BY <1>1, <2>3, <2>5
    <3>2. QED
      BY <2>2, <2>4, <2>5, <3>1
  <2>6. CASE s[i + 1] \notin S
    <3>1. r[i + 1] = Append(r[i], s[i + 1])
      BY <1>1, <2>3, <2>6
    <3> DEFINE q == r[i]
               x == s[i + 1]
    <3>2. q \in Seq(T) /\ x \in T
      BY <2>2, <2>3
    <3>3. Append(q, x) \in Seq(T) /\ Among(Append(q, x)) = Among(q) \union {x}
      <4> HIDE DEF q, x
      <4>1. QED
        BY <3>2, Appended
    <3>4. QED
      BY <2>2, <2>4, <2>6, <3>1, <3>3
  <2>7. QED
    BY <2>5, <2>6
<1>4. Nat \subseteq Good
  <2> HIDE DEF Good
  <2>1. QED
    BY <1>2, <1>3, StepInduction
<1>5. r[Len(s)] \in Seq(T) /\ Among(r[Len(s)]) = Upto(Len(s)) \ S
  <2>1. Len(s) \in Nat
    OBVIOUS
  <2> HIDE DEF Upto
  <2>2. QED
    BY <1>4, <2>1
<1>6. Upto(Len(s)) = Among(s)
  BY DEF Among
<1>7. QED
  BY <1>1, <1>5, <1>6

-----------------------------------------------------------------------------
(* Sorting: any sequence has an order that a relation like that of numbers *)
(* allows, ties being left as they are.                                    *)
Ordering(R, T) ==
    /\ \A a, b \in T : <<a, b>> \in R => <<b, a>> \notin R
    /\ \A a, b, c \in T : <<a, b>> \notin R /\ <<b, c>> \notin R => <<a, c>> \notin R

InOrder(p, s, R, n) ==
    /\ p \in Bijection(1..n, 1..n)
    /\ \A i, j \in 1..n : i < j => <<s[p[j]], s[p[i]]>> \notin R

(* What it means to put n elements in an order.                             *)
LEMMA OneToOne ==
    ASSUME NEW n, NEW S, NEW p
    PROVE  p \in Bijection(1..n, S) <=>
              /\ p \in [1..n -> S]
              /\ \A i, j \in 1..n : p[i] = p[j] => i = j
              /\ \A x \in S : \E i \in 1..n : p[i] = x
BY DEF Bijection, Injection, Surjection, IsInjective

(* sort_by: there is an order to find, by insertion of one after another.  *)
LEMMA OrderExists ==
    ASSUME NEW T, NEW n \in Nat, NEW s \in [1..n -> T], NEW R, Ordering(R, T)
    PROVE  \E p : InOrder(p, s, R, n)
<1> DEFINE S == {m \in Nat : m <= n => \E p : InOrder(p, s, R, m)}
<1>1. 0 \in S
  <2> DEFINE p == [i \in 1..0 |-> i]
  <2>1. 1..0 = {} /\ p \in [1..0 -> 1..0]
    OBVIOUS
  <2> HIDE DEF p
  <2>2. /\ \A i, j \in 1..0 : p[i] = p[j] => i = j
        /\ \A k \in 1..0 : \E i \in 1..0 : p[i] = k
        /\ \A i, j \in 1..0 : i < j => <<s[p[j]], s[p[i]]>> \notin R
    BY <2>1
  <2>3. InOrder(p, s, R, 0)
    BY <2>1, <2>2, OneToOne DEF InOrder
  <2>4. QED
    BY <2>3
<1>2. ASSUME NEW m \in Nat, m \in S PROVE m + 1 \in S
  <2>1. SUFFICES ASSUME m + 1 <= n PROVE \E p : InOrder(p, s, R, m + 1)
    OBVIOUS
  <2>2. PICK p : InOrder(p, s, R, m)
    BY <1>2, <2>1
  <2>3. /\ p \in [1..m -> 1..m]
        /\ \A i, j \in 1..m : p[i] = p[j] => i = j
        /\ \A k \in 1..m : \E i \in 1..m : p[i] = k
        /\ \A i, j \in 1..m : i < j => <<s[p[j]], s[p[i]]>> \notin R
    <3>1. /\ p \in Bijection(1..m, 1..m)
          /\ \A i, j \in 1..m : i < j => <<s[p[j]], s[p[i]]>> \notin R
      BY <2>2 DEF InOrder
    <3>2. /\ p \in [1..m -> 1..m]
          /\ \A i, j \in 1..m : p[i] = p[j] => i = j
          /\ \A k \in 1..m : \E i \in 1..m : p[i] = k
      BY <3>1 DEF Bijection, Injection, Surjection, IsInjective
    <3>3. QED
      BY <3>1, <3>2
  <2> DEFINE new == s[m + 1]
             Places == {i \in 1..(m + 1) : i = m + 1 \/ <<new, s[p[i]]>> \in R}
  <2>4. PICK k \in Places : \A i \in Places : k <= i
    <3>1. Places \subseteq Nat /\ m + 1 \in Places
      OBVIOUS
    <3> HIDE DEF Places
    <3>2. QED
      BY <3>1, LeastOfSet
  <2>5. /\ k \in 1..(m + 1)
        /\ k = m + 1 \/ <<new, s[p[k]]>> \in R
        /\ \A i \in 1..m : i < k => <<new, s[p[i]]>> \notin R
    BY <2>4
  <2> DEFINE q == [i \in 1..(m + 1) |->
                     IF i < k THEN p[i] ELSE IF i = k THEN m + 1 ELSE p[i - 1]]
  <2>6. /\ \A i \in 1..m : i < k => q[i] = p[i]
        /\ q[k] = m + 1
        /\ \A i \in 1..m : i >= k => q[i + 1] = p[i]
    BY <2>5
  <2>7. q = [i \in 1..(m + 1) |-> q[i]]
    OBVIOUS
  <2> HIDE DEF q
  <2>8. ASSUME NEW i \in 1..(m + 1)
        PROVE  \/ i = k /\ q[i] = m + 1
               \/ i < k /\ i \in 1..m /\ q[i] = p[i]
               \/ i > k /\ i - 1 \in 1..m /\ i - 1 >= k /\ q[i] = p[i - 1]
    <3>1. CASE i = k
      BY <2>6, <3>1
    <3>2. CASE i < k
      BY <2>5, <2>6, <3>2
    <3>3. CASE i > k
      <4>1. i - 1 \in 1..m /\ i - 1 >= k /\ (i - 1) + 1 = i
        BY <2>5, <3>3
      <4>2. QED
        BY <2>6, <3>3, <4>1
    <3>4. QED
      BY <2>5, <3>1, <3>2, <3>3
  <2>9. ASSUME NEW i \in 1..(m + 1), NEW j \in 1..(m + 1), q[i] = q[j] PROVE i = j
    <3>1. ASSUME NEW l \in 1..m PROVE p[l] # m + 1
      BY <2>3
    <3>2. CASE i = k \/ j = k
      BY <2>8, <2>9, <3>1, <3>2
    <3>3. CASE i # k /\ j # k
      <4> DEFINE a == IF i < k THEN i ELSE i - 1
                 b == IF j < k THEN j ELSE j - 1
      <4>1. a \in 1..m /\ q[i] = p[a]
        BY <2>5, <2>8, <3>3
      <4>2. b \in 1..m /\ q[j] = p[b]
        BY <2>5, <2>8, <3>3
      <4>3. a = b => i = j
        BY <2>5, <3>3
      <4> HIDE DEF a, b
      <4>4. p[a] = p[b]
        BY <2>9, <4>1, <4>2
      <4>5. a = b
        BY <2>3, <4>1, <4>2, <4>4
      <4>6. QED
        BY <4>3, <4>5
    <3>4. QED
      BY <3>2, <3>3
  <2>10. ASSUME NEW l \in 1..(m + 1) PROVE \E i \in 1..(m + 1) : q[i] = l
    <3>1. CASE l = m + 1
      BY <2>5, <2>6, <3>1
    <3>2. CASE l \in 1..m
      <4>1. PICK i \in 1..m : p[i] = l
        BY <2>3, <3>2
      <4>2. i \in 1..(m + 1) /\ i + 1 \in 1..(m + 1)
        OBVIOUS
      <4>3. q[i] = l \/ q[i + 1] = l
        BY <2>5, <2>6, <4>1
      <4>4. QED
        BY <4>2, <4>3
    <3>3. QED
      BY <3>1, <3>2
  <2>11. ASSUME NEW i \in 1..(m + 1), NEW j \in 1..(m + 1), i < j
         PROVE  <<s[q[j]], s[q[i]]>> \notin R
    <3>1. \A a, b \in T : <<a, b>> \in R => <<b, a>> \notin R
      BY DEF Ordering
    <3>2. \A a, b, c \in T : <<a, b>> \notin R /\ <<b, c>> \notin R => <<a, c>> \notin R
      BY DEF Ordering
    <3>3. new \in T /\ \A l \in 1..m : s[p[l]] \in T
      <4>1. m + 1 \in 1..n
        BY <2>1
      <4>2. ASSUME NEW l \in 1..m PROVE p[l] \in 1..n
        <5>1. p[l] \in 1..m
          BY <2>3
        <5>2. QED
          BY <2>1, <5>1
      <4>3. QED
        BY <4>1, <4>2
    <3>4. CASE i = k
      <4>1. /\ k \in 1..m /\ j - 1 \in 1..m /\ j - 1 >= k
            /\ q[j] = p[j - 1] /\ s[q[i]] = new
        BY <2>5, <2>8, <2>11, <3>4
      <4>2. <<new, s[p[k]]>> \in R
        BY <2>5, <4>1
      <4>3. <<s[p[k]], new>> \notin R
        BY <3>1, <3>3, <4>1, <4>2
      <4>4. <<s[p[j - 1]], s[p[k]]>> \notin R
        <5>1. CASE j - 1 = k
          BY <3>1, <3>3, <4>1, <5>1
        <5>2. CASE j - 1 > k
          BY <2>3, <4>1, <5>2
        <5>3. QED
          BY <4>1, <5>1, <5>2
      <4>5. s[p[j - 1]] \in T /\ s[p[k]] \in T
        BY <3>3, <4>1
      <4>6. QED
        BY <3>2, <3>3, <4>1, <4>3, <4>4, <4>5
    <3>5. CASE j = k
      <4>1. i \in 1..m /\ i < k /\ q[i] = p[i] /\ s[q[j]] = new
        BY <2>5, <2>8, <2>11, <3>5
      <4>2. QED
        BY <2>5, <4>1
    <3>6. CASE i # k /\ j # k
      <4> DEFINE a == IF i < k THEN i ELSE i - 1
                 b == IF j < k THEN j ELSE j - 1
      <4>1. a \in 1..m /\ q[i] = p[a]
        BY <2>5, <2>8, <3>6
      <4>2. b \in 1..m /\ q[j] = p[b]
        BY <2>5, <2>8, <3>6
      <4>3. a < b
        BY <2>5, <2>11, <3>6
      <4> HIDE DEF a, b
      <4>4. QED
        BY <2>3, <4>1, <4>2, <4>3
    <3>7. QED
      BY <3>4, <3>5, <3>6
  <2>12. InOrder(q, s, R, m + 1)
    <3> DEFINE n1 == m + 1
    <3>1. q \in [1..n1 -> 1..n1]
      <4>1. ASSUME NEW i \in 1..n1 PROVE q[i] \in 1..n1
        <5>1. \A l \in 1..m : p[l] \in 1..m
          BY <2>3
        <5>2. q[i] = m + 1 \/ q[i] \in 1..m
          BY <2>8, <5>1
        <5>3. QED
          BY <5>2
      <4>2. QED
        BY <2>7, <4>1
    <3>2. /\ q \in [1..n1 -> 1..n1]
          /\ \A i, j \in 1..n1 : q[i] = q[j] => i = j
          /\ \A l \in 1..n1 : \E i \in 1..n1 : q[i] = l
          /\ \A i, j \in 1..n1 : i < j => <<s[q[j]], s[q[i]]>> \notin R
      BY <2>9, <2>10, <2>11, <3>1
    <3> HIDE DEF n1
    <3>3. InOrder(q, s, R, n1)
      BY <3>2, OneToOne DEF InOrder
    <3>4. QED
      BY <3>3 DEF n1
  <2>13. QED
    BY <2>12
<1>3. n \in S
  <2> HIDE DEF S
  <2>1. QED
    BY <1>1, <1>2, StepInduction
<1>4. QED
  BY <1>3

-----------------------------------------------------------------------------
(* The accounts.                                                           *)
LEMMA LineNumbers ==
    ASSUME NEW line \in PasswdLines PROVE line.uid \in Nat /\ line.name \in Nat
<1>1. CASE line \in [name : Names, uid : Uids, shell : BOOLEAN, garbled : {FALSE}]
  <2>1. line.name \in Names /\ line.uid \in Uids
    BY <1>1
  <2>2. QED
    BY <2>1, AccountsAssumption DEF AccountsAssumption
<1>2. CASE line \in [name : Names, uid : {0}, shell : {TRUE}, garbled : {TRUE}]
  <2>1. line.name \in Names /\ line.uid = 0
    BY <1>2
  <2>2. line.name \in Nat
    BY <2>1, AccountsAssumption DEF AccountsAssumption
  <2>3. QED
    BY <2>1, <2>2
<1>3. QED
  BY <1>1, <1>2 DEF PasswdLines

(* sort_by.                                                                *)
LEMMA SortedElements ==
    ASSUME NEW s \in Seq(PasswdLines)
    PROVE  /\ Sorted(s) \in Seq(PasswdLines)
           /\ Len(Sorted(s)) = Len(s)
           /\ Among(Sorted(s)) = Among(s)
           /\ \A i, j \in 1..Len(s) : i < j => ~Before(Sorted(s)[j], Sorted(s)[i])
<1> DEFINE R == {p \in PasswdLines \X PasswdLines : Before(p[1], p[2])}
           n == Len(s)
           Fits1(p) == \A i, j \in DOMAIN s : i < j => ~Before(s[p[j]], s[p[i]])
           order == CHOOSE p \in Bijection(DOMAIN s, DOMAIN s) : Fits1(p)
           sorted == [i \in DOMAIN s |-> s[order[i]]]
<1>1. n \in Nat /\ DOMAIN s = 1..n /\ s \in [1..n -> PasswdLines]
  OBVIOUS
<1>2. ASSUME NEW a \in PasswdLines, NEW b \in PasswdLines
      PROVE  <<a, b>> \in R <=> Before(a, b)
  OBVIOUS
<1> HIDE DEF R
<1>3. Ordering(R, PasswdLines)
  <2>1. ASSUME NEW a \in PasswdLines, NEW b \in PasswdLines, <<a, b>> \in R
        PROVE  <<b, a>> \notin R
    BY <1>2, <2>1, LineNumbers DEF Before
  <2>2. ASSUME NEW a \in PasswdLines, NEW b \in PasswdLines, NEW c \in PasswdLines,
               <<a, b>> \notin R, <<b, c>> \notin R
        PROVE  <<a, c>> \notin R
    <3>1. /\ a.uid \in Nat /\ a.name \in Nat /\ b.uid \in Nat /\ b.name \in Nat
          /\ c.uid \in Nat /\ c.name \in Nat
      BY LineNumbers
    <3>2. ~Before(a, b) /\ ~Before(b, c)
      BY <1>2, <2>2
    <3>3. ~Before(a, c)
      BY <3>1, <3>2 DEF Before
    <3>4. QED
      BY <1>2, <3>3
  <2>3. QED
    BY <2>1, <2>2 DEF Ordering
<1>4. Sorted(s) = sorted
  BY DEF Sorted
<1> HIDE DEF n
<1>5. PICK p : InOrder(p, s, R, n)
  BY <1>1, <1>3, OrderExists
<1>6. p \in Bijection(DOMAIN s, DOMAIN s) /\ Fits1(p)
  <2>1. \A i \in 1..n : p[i] \in 1..n
    <3>1. p \in Bijection(1..n, 1..n)
      BY <1>5 DEF InOrder
    <3>2. p \in [1..n -> 1..n]
      BY <3>1, OneToOne
    <3>3. QED
      BY <3>2
  <2>2. QED
    BY <1>1, <1>2, <1>5, <2>1 DEF InOrder
<1>7. order \in Bijection(DOMAIN s, DOMAIN s) /\ Fits1(order)
  <2> HIDE DEF Fits1
  <2>1. QED
    BY <1>6
<1> HIDE DEF order
<1>8. /\ \A i \in 1..n : order[i] \in 1..n
      /\ \A k \in 1..n : \E i \in 1..n : order[i] = k
  <2>1. order \in Bijection(1..n, 1..n)
    BY <1>1, <1>7
  <2>2. /\ order \in [1..n -> 1..n]
        /\ \A k \in 1..n : \E i \in 1..n : order[i] = k
    BY <2>1, OneToOne
  <2>3. QED
    BY <2>2
<1>9. /\ sorted \in Seq(PasswdLines) /\ Len(sorted) = n
      /\ \A i \in 1..n : sorted[i] = s[order[i]]
  BY <1>1, <1>8
<1> HIDE DEF sorted
<1>10. Among(sorted) = Among(s)
  <2>1. DOMAIN sorted = 1..n
    BY <1>9
  <2>2. {sorted[i] : i \in 1..n} = {s[order[i]] : i \in 1..n}
    BY <1>9
  <2>3. {s[order[i]] : i \in 1..n} = {s[k] : k \in 1..n}
    BY <1>8
  <2>4. QED
    BY <1>1, <2>1, <2>2, <2>3 DEF Among
<1>11. \A i, j \in 1..n : i < j => ~Before(sorted[j], sorted[i])
  BY <1>1, <1>7, <1>9
<1>12. QED
  BY <1>4, <1>9, <1>10, <1>11 DEF n

(* dedup_by.                                                               *)
LEMMA DedupedTurns ==
    ASSUME NEW T, NEW s \in Seq(T)
    PROVE  \E r : /\ r[0] = <<>>
                  /\ \A i \in 1..Len(s) :
                       r[i] = IF i > 1 /\ s[i].name = s[i - 1].name THEN r[i - 1]
                              ELSE Append(r[i - 1], s[i])
                  /\ Deduped(s) = r[Len(s)]
<1> DEFINE n == Len(s)
           D == Seq(T)
           Go(i, q) == IF i > 1 /\ s[i].name = s[i - 1].name THEN q ELSE Append(q, s[i])
           step == [p \in (1..n) \X D |-> Go(p[1], p[2])]
           Turn(r, i) == IF i = 0 THEN <<>>
                         ELSE IF i > 1 /\ s[i].name = s[i - 1].name THEN r[i - 1]
                         ELSE Append(r[i - 1], s[i])
           kept == CHOOSE r : r = [i \in 0..n |-> Turn(r, i)]
<1>1. n \in Nat /\ <<>> \in D /\ \A i \in 1..n, q \in D : Go(i, q) \in D
  OBVIOUS
<1>2. Deduped(s) = kept[n]
  BY DEF Deduped
<1>3. \A r, i : Turn(r, i) = IF i = 0 THEN <<>> ELSE Go(i, r[i - 1])
  OBVIOUS
<1> HIDE DEF n, D, Go
<1>4. IsLoop(n, D, <<>>, step)
  BY <1>1 DEF IsLoop
<1>5. \A i \in 1..n, q \in D : step[<<i, q>>] = Go(i, q)
  OBVIOUS
<1> HIDE DEF step, Turn
<1>6. PICK f : Turns(f, n, D, <<>>, step)
  BY <1>4, LoopExists
<1>7. ASSUME NEW i \in 0..n PROVE f[i] = Turn(f, i)
  <2>1. CASE i = 0
    BY <1>3, <1>6, <2>1 DEF Turns
  <2>2. CASE i # 0
    <3>1. i \in 1..n /\ f[i - 1] \in D
      BY <1>1, <1>6, <2>2 DEF Turns
    <3>2. QED
      BY <1>3, <1>5, <1>6, <2>2, <3>1 DEF Turns
  <2>3. QED
    BY <2>1, <2>2
<1>8. f = [i \in 0..n |-> Turn(f, i)]
  BY <1>6, <1>7 DEF Turns
<1>9. kept = [i \in 0..n |-> Turn(kept, i)]
  BY <1>8
<1> HIDE DEF kept
<1>10. \A i \in 0..n : kept[i] = Turn(kept, i)
  BY <1>9
<1>11. kept[0] = <<>> /\ \A i \in 1..n : kept[i] = Go(i, kept[i - 1])
  BY <1>1, <1>3, <1>10
<1>12. QED
  BY <1>2, <1>11 DEF n, Go

(* Of a sorted list it keeps every name under its first line, in the order *)
(* of the list, and no two of one name in a row.                           *)
FirstOf(d, line) == \E k \in 1..Len(d) :
    /\ d[k].name = line.name
    /\ d[k].uid <= line.uid
    /\ \A l \in 1..(k - 1) : d[l].name # d[k].name

Rising(d) == \A k \in 2..Len(d) :
    Before(d[k - 1], d[k]) /\ d[k].name # d[k - 1].name

(* dedup_by on a sorted list: every name is still there under its first    *)
(* uid, and a name never stands twice in a row.                            *)
LEMMA DedupedElements ==
    ASSUME NEW s \in Seq(PasswdLines),
           \A i, j \in 1..Len(s) : i < j => ~Before(s[j], s[i])
    PROVE  /\ Deduped(s) \in Seq(PasswdLines)
           /\ Among(Deduped(s)) \subseteq Among(s)
           /\ Rising(Deduped(s))
           /\ \A line \in Among(s) : FirstOf(Deduped(s), line)
<1>1. PICK r : /\ r[0] = <<>>
               /\ \A i \in 1..Len(s) :
                    r[i] = IF i > 1 /\ s[i].name = s[i - 1].name THEN r[i - 1]
                           ELSE Append(r[i - 1], s[i])
               /\ Deduped(s) = r[Len(s)]
  BY DedupedTurns
<1> DEFINE n == Len(s)
           Kept1(d, i) ==
               /\ d \in Seq(PasswdLines)
               /\ Among(d) \subseteq {s[j] : j \in 1..i}
               /\ i > 0 => Len(d) > 0 /\ d[Len(d)].name = s[i].name
               /\ Rising(d)
               /\ \A j \in 1..i : FirstOf(d, s[j])
           Good == {i \in Nat : i <= n => Kept1(r[i], i)}
<1>2. n \in Nat /\ \A i \in 1..n : s[i] \in PasswdLines
  OBVIOUS
<1>3. \A i \in 1..n : s[i].uid \in Nat /\ s[i].name \in Nat
  BY <1>2, LineNumbers
<1>4. ASSUME NEW i \in 1..n, NEW j \in 1..n, i < j
      PROVE  /\ s[i].uid <= s[j].uid
             /\ s[i].name # s[j].name => Before(s[i], s[j])
  <2>1. ~Before(s[j], s[i])
    BY <1>4
  <2>2. /\ s[i].uid \in Nat /\ s[i].name \in Nat
        /\ s[j].uid \in Nat /\ s[j].name \in Nat
    BY <1>3
  <2>3. QED
    BY <2>1, <2>2 DEF Before
<1> HIDE DEF n
<1>5. 0 \in Good
  <2>1. r[0] \in Seq(PasswdLines) /\ Len(r[0]) = 0 /\ Among(r[0]) = {}
    BY <1>1 DEF Among
  <2>2. Rising(r[0])
    BY <2>1 DEF Rising
  <2>3. QED
    BY <2>1, <2>2
<1>6. ASSUME NEW i \in Nat, i \in Good PROVE i + 1 \in Good
  <2> DEFINE d == r[i]
             e == r[i + 1]
             new == s[i + 1]
  <2>1. SUFFICES ASSUME i + 1 <= n PROVE Kept1(e, i + 1)
    OBVIOUS
  <2>2. Kept1(d, i)
    BY <1>2, <1>6, <2>1
  <2>3. i + 1 \in 1..n /\ (i + 1) - 1 = i /\ new \in PasswdLines
    BY <1>2, <2>1
  <2>4. e = IF i + 1 > 1 /\ new.name = s[i].name THEN d ELSE Append(d, new)
    BY <1>1, <2>3 DEF n
  <2>5. \A j \in 1..(i + 1) : j \in 1..i \/ j = i + 1
    OBVIOUS
  <2>6. {s[j] : j \in 1..i} \subseteq {s[j] : j \in 1..(i + 1)}
    OBVIOUS
  <2>7. \A j \in 1..i : j \in 1..n /\ s[j].uid <= new.uid
    BY <1>2, <1>4, <2>1, <2>3
  <2>8. /\ new.uid \in Nat
        /\ \A j \in 1..i : s[j].uid \in Nat
    BY <1>3, <2>3, <2>7
  <2> HIDE DEF d, e, new
  <2>9. d \in Seq(PasswdLines) /\ Len(d) \in Nat
    BY <2>2
  <2>10. \A k \in 1..Len(d) : d[k] \in PasswdLines /\ d[k].uid \in Nat
    BY <2>9, LineNumbers
  <2>11. CASE i + 1 > 1 /\ new.name = s[i].name
    <3>1. e = d
      BY <2>4, <2>11
    <3>2. i \in 1..i /\ FirstOf(d, s[i]) /\ s[i].uid <= new.uid /\ s[i].uid \in Nat
      BY <2>2, <2>7, <2>8, <2>11
    <3>3. FirstOf(d, new)
      <4>1. PICK k \in 1..Len(d) : /\ d[k].name = s[i].name
                                   /\ d[k].uid <= s[i].uid
                                   /\ \A l \in 1..(k - 1) : d[l].name # d[k].name
        BY <3>2 DEF FirstOf
      <4>2. d[k].uid <= new.uid
        BY <2>8, <2>10, <3>2, <4>1
      <4>3. QED
        BY <2>11, <4>1, <4>2 DEF FirstOf
    <3>4. \A j \in 1..(i + 1) : FirstOf(d, s[j])
      BY <2>2, <2>5, <3>3 DEF new
    <3>5. Len(d) > 0 /\ d[Len(d)].name = s[i + 1].name
      BY <2>2, <2>11 DEF new
    <3>6. QED
      BY <2>2, <2>6, <3>1, <3>4, <3>5
  <2>12. CASE ~(i + 1 > 1 /\ new.name = s[i].name)
    <3>1. /\ e = Append(d, new)
          /\ e \in Seq(PasswdLines) /\ Len(e) = Len(d) + 1
          /\ \A k \in 1..Len(d) : e[k] = d[k]
          /\ e[Len(d) + 1] = new
          /\ Among(e) = Among(d) \union {new}
      BY <2>3, <2>4, <2>9, <2>12, Appended
    <3>2. Among(e) \subseteq {s[j] : j \in 1..(i + 1)}
      <4>1. new \in {s[j] : j \in 1..(i + 1)}
        BY DEF new
      <4>2. QED
        BY <2>2, <2>6, <3>1, <4>1
    <3>3. \A k \in 1..Len(d) : \E j \in 1..i : d[k] = s[j]
      <4>1. DOMAIN d = 1..Len(d)
        BY <2>9
      <4>2. \A k \in 1..Len(d) : d[k] \in Among(d)
        BY <4>1 DEF Among
      <4>3. QED
        BY <2>2, <4>2
    <3>4. Rising(e)
      <4> SUFFICES ASSUME NEW k \in 2..Len(e)
                   PROVE  Before(e[k - 1], e[k]) /\ e[k].name # e[k - 1].name
        BY DEF Rising
      <4>1. CASE k <= Len(d)
        <5>1. k \in 2..Len(d) /\ e[k] = d[k] /\ e[k - 1] = d[k - 1]
          BY <2>9, <3>1, <4>1
        <5>2. QED
          BY <2>2, <5>1 DEF Rising
      <4>2. CASE k = Len(d) + 1
        <5>1. Len(d) \in 1..Len(d) /\ e[k - 1] = d[Len(d)] /\ e[k] = new
          BY <2>9, <3>1, <4>2
        <5>2. PICK j \in 1..i : d[Len(d)] = s[j]
          BY <3>3, <5>1
        <5>3. d[Len(d)].name = s[i].name /\ i >= 1
          BY <2>2, <5>2
        <5>4. d[Len(d)].name # new.name
          BY <2>12, <5>3
        <5>5. j \in 1..n /\ i + 1 \in 1..n /\ j < i + 1
          BY <2>3, <2>7
        <5>6. Before(s[j], new)
          BY <1>4, <5>2, <5>4, <5>5 DEF new
        <5>7. QED
          BY <5>1, <5>2, <5>4, <5>6
      <4>3. QED
        BY <2>9, <3>1, <4>1, <4>2
    <3>5. ASSUME NEW line, FirstOf(d, line) PROVE FirstOf(e, line)
      <4>1. PICK k \in 1..Len(d) : /\ d[k].name = line.name
                                   /\ d[k].uid <= line.uid
                                   /\ \A l \in 1..(k - 1) : d[l].name # d[k].name
        BY <3>5 DEF FirstOf
      <4>2. k \in 1..Len(e) /\ e[k] = d[k] /\ \A l \in 1..(k - 1) : e[l] = d[l]
        BY <2>9, <3>1
      <4>3. QED
        BY <4>1, <4>2 DEF FirstOf
    <3>6. FirstOf(e, new)
      <4>1. CASE \E l \in 1..Len(d) : d[l].name = new.name
        <5>1. PICK l \in 1..Len(d) : d[l].name = new.name
          BY <4>1
        <5>2. PICK j \in 1..i : d[l] = s[j]
          BY <3>3
        <5>3. FirstOf(d, s[j])
          BY <2>2
        <5>4. PICK k \in 1..Len(d) : /\ d[k].name = s[j].name
                                     /\ d[k].uid <= s[j].uid
                                     /\ \A m \in 1..(k - 1) : d[m].name # d[k].name
          BY <5>3 DEF FirstOf
        <5>5. d[k].uid <= new.uid
          BY <2>7, <2>8, <2>10, <5>4
        <5>6. FirstOf(d, new)
          BY <5>1, <5>2, <5>4, <5>5 DEF FirstOf
        <5>7. QED
          BY <3>5, <5>6
      <4>2. CASE \A l \in 1..Len(d) : d[l].name # new.name
        <5> DEFINE k == Len(d) + 1
        <5>1. k \in 1..Len(e) /\ e[k] = new
          BY <2>9, <3>1
        <5>2. \A l \in 1..(k - 1) : e[l].name # new.name
          BY <2>9, <3>1, <4>2
        <5>3. new.uid <= new.uid
          BY <2>8
        <5> HIDE DEF k
        <5>4. QED
          BY <5>1, <5>2, <5>3 DEF FirstOf
      <4>3. QED
        BY <4>1, <4>2
    <3>7. \A j \in 1..(i + 1) : FirstOf(e, s[j])
      BY <2>2, <2>5, <3>5, <3>6 DEF new
    <3>8. Len(e) > 0 /\ e[Len(e)].name = s[i + 1].name
      BY <2>9, <3>1 DEF new
    <3>9. QED
      BY <3>1, <3>2, <3>4, <3>7, <3>8
  <2>13. QED
    BY <2>11, <2>12
<1>7. Kept1(r[n], n)
  <2>1. Nat \subseteq Good
    <3> HIDE DEF Good
    <3>1. QED
      BY <1>5, <1>6, StepInduction
  <2>2. n \in Good
    BY <1>2, <2>1
  <2>3. QED
    BY <1>2, <2>2
<1>8. Among(s) = {s[j] : j \in 1..n}
  BY DEF Among, n
<1>9. QED
  BY <1>1, <1>7, <1>8 DEF n

(* users.rs, parse: for any file.                                          *)
LEMMA OfferedIsRight ==
    ASSUME passwd \in Seq(PasswdLines) PROVE AccountsOffered
<1> DEFINE human == Human(passwd)
           sorted == Sorted(human)
           users == OfferedAccounts(passwd)
           Out == {line \in PasswdLines : ~MayLogIn(line)}
<1>1. human \in Seq(PasswdLines) /\ Among(human) = Among(passwd) \ Out
  <2>1. human = Without(passwd, Out)
    BY DEF Human
  <2> HIDE DEF Out, human
  <2>2. QED
    BY <2>1, WithoutElements
<1>2. users = Deduped(sorted)
  BY DEF OfferedAccounts
<1>3. \A line \in Among(passwd) : line \in PasswdLines
  <2>1. DOMAIN passwd = 1..Len(passwd)
    OBVIOUS
  <2>2. QED
    BY <2>1 DEF Among
<1> HIDE DEF human, users
<1>4. /\ sorted \in Seq(PasswdLines)
      /\ Among(sorted) = Among(human)
      /\ \A i, j \in 1..Len(sorted) : i < j => ~Before(sorted[j], sorted[i])
  BY <1>1, SortedElements
<1> HIDE DEF sorted
<1>5. /\ users \in Seq(PasswdLines)
      /\ Among(users) \subseteq Among(sorted)
      /\ Rising(users)
      /\ \A line \in Among(sorted) : FirstOf(users, line)
  BY <1>2, <1>4, DedupedElements
<1>6. DOMAIN users = 1..Len(users) /\ Len(users) \in Nat
  BY <1>5
<1>7. Among(sorted) = {line \in Among(passwd) : MayLogIn(line)}
  BY <1>1, <1>3, <1>4
<1>8. ASSUME NEW k \in DOMAIN users
      PROVE  \E i \in {j \in DOMAIN passwd : MayLogIn(passwd[j])} : users[k] = passwd[i]
  <2>1. users[k] \in Among(users)
    BY DEF Among
  <2>2. users[k] \in Among(passwd) /\ MayLogIn(users[k])
    BY <1>5, <1>7, <2>1
  <2>3. QED
    BY <2>2 DEF Among
<1>9. ASSUME NEW i \in {j \in DOMAIN passwd : MayLogIn(passwd[j])}
      PROVE  \E k \in DOMAIN users :
                /\ users[k].name = passwd[i].name
                /\ users[k].uid <= passwd[i].uid
                /\ \A j \in 1..(k - 1) : users[j].name # users[k].name
  <2>1. passwd[i] \in Among(sorted)
    BY <1>7 DEF Among
  <2>2. FirstOf(users, passwd[i])
    BY <1>5, <2>1
  <2>3. QED
    BY <1>6, <2>2 DEF FirstOf
<1>10. ASSUME NEW k \in DOMAIN users, k > 1
       PROVE  Before(users[k - 1], users[k]) /\ users[k].name # users[k - 1].name
  <2>1. k \in 2..Len(users)
    BY <1>6, <1>10
  <2>2. QED
    BY <1>5, <2>1 DEF Rising
<1>11. QED
  BY <1>8, <1>9, <1>10 DEF AccountsOffered, users

-----------------------------------------------------------------------------
(* Reading a line in two parts.                                            *)

(* tokenize_exec takes one character after the other.                        *)
LEMMA ReadTurns ==
    ASSUME NEW t, NEW line, Len(line) \in Nat
    PROVE  \E r : /\ r[0] = t
                  /\ \A i \in 1..Len(line) : r[i] = Token(r[i - 1], line[i])
                  /\ Read(t, line) = r[Len(line)]
<1> DEFINE n == Len(line)
           Turn(r, i) == IF i = 0 THEN t ELSE Token(r[i - 1], line[i])
           Loop(r, m) == r = [i \in 0..m |-> Turn(r, i)]
           S == {m \in Nat : \E r : Loop(r, m)}
           read == CHOOSE r : Loop(r, n)
<1>1. Read(t, line) = read[n]
  BY DEF Read
<1> HIDE DEF n
<1>2. 0 \in S
  <2> DEFINE r == [i \in 0..0 |-> t]
  <2>1. Loop(r, 0)
    OBVIOUS
  <2> HIDE DEF r
  <2>2. QED
    BY <2>1
<1>3. ASSUME NEW m \in Nat, m \in S PROVE m + 1 \in S
  <2>1. PICK r : Loop(r, m)
    BY <1>3
  <2> DEFINE more == [i \in 0..(m + 1) |-> IF i <= m THEN r[i] ELSE Turn(r, m + 1)]
  <2>2. ASSUME NEW i \in 0..(m + 1) PROVE more[i] = Turn(more, i)
    <3>1. CASE i = 0
      BY <2>1, <3>1
    <3>2. CASE i # 0
      <4>1. i - 1 \in 0..m /\ more[i - 1] = r[i - 1]
        BY <3>2
      <4>2. Turn(more, i) = Turn(r, i)
        BY <4>1
      <4>3. i <= m => r[i] = Turn(r, i)
        <5> HIDE DEF Turn
        <5>1. QED
          BY <2>1
      <4>4. more[i] = Turn(r, i)
        <5> HIDE DEF Turn
        <5>1. QED
          BY <4>3
      <4>5. QED
        BY <4>2, <4>4
    <3>3. QED
      BY <3>1, <3>2
  <2>3. more = [i \in 0..(m + 1) |-> more[i]]
    OBVIOUS
  <2> HIDE DEF more, Turn
  <2>4. Loop(more, m + 1)
    BY <2>2, <2>3
  <2>5. QED
    BY <2>4
<1>4. n \in S
  <2> HIDE DEF S
  <2>1. QED
    BY <1>2, <1>3, StepInduction DEF n
<1>5. Loop(read, n)
  <2> HIDE DEF Loop
  <2>1. QED
    BY <1>4
<1> HIDE DEF read, Turn
<1>6. \A i \in 0..n : read[i] = Turn(read, i)
  BY <1>5
<1>7. read[0] = t /\ \A i \in 1..n : read[i] = Token(read[i - 1], line[i])
  BY <1>6 DEF Turn, n
<1>8. QED
  BY <1>1, <1>7 DEF n

(* One character of the line.                                              *)
LEMMA ReadOne ==
    ASSUME NEW t, NEW c PROVE Read(t, <<c>>) = Token(t, c)
<1> DEFINE line == <<c>>
<1>1. Len(line) = 1 /\ line[1] = c
  OBVIOUS
<1> HIDE DEF line
<1>2. PICK r : /\ r[0] = t
               /\ \A i \in 1..Len(line) : r[i] = Token(r[i - 1], line[i])
               /\ Read(t, line) = r[Len(line)]
  BY <1>1, ReadTurns
<1>3. r[1] = Token(r[0], line[1])
  BY <1>1, <1>2
<1>4. QED
  BY <1>1, <1>2, <1>3 DEF line

(* Nothing of the line.                                                    *)
LEMMA ReadEmpty == ASSUME NEW t PROVE Read(t, <<>>) = t
<1> DEFINE line == <<>>
<1>1. Len(line) = 0
  OBVIOUS
<1> HIDE DEF line
<1>2. QED
  BY <1>1, ReadTurns DEF line

(* tokenize_exec keeps all it knows in its state: a line may be read in    *)
(* two parts.                                                              *)
LEMMA ReadConcat ==
    ASSUME NEW T, NEW t, NEW a \in Seq(T), NEW b \in Seq(T)
    PROVE  Read(t, a \o b) = Read(Read(t, a), b)
<1> DEFINE ab == a \o b
           n == Len(a)
           m == Len(b)
           u == Read(t, a)
<1>1. /\ n \in Nat /\ m \in Nat /\ Len(ab) = n + m
      /\ \A i \in 1..n : ab[i] = a[i]
      /\ \A i \in 1..m : ab[n + i] = b[i]
  OBVIOUS
<1> HIDE DEF ab, n, m, u
<1>2. PICK p : /\ p[0] = t
               /\ \A i \in 1..n : p[i] = Token(p[i - 1], a[i])
               /\ u = p[n]
  BY <1>1, ReadTurns DEF n, u
<1>3. PICK q : /\ q[0] = u
               /\ \A i \in 1..m : q[i] = Token(q[i - 1], b[i])
               /\ Read(u, b) = q[m]
  <2>1. Len(b) \in Nat
    BY <1>1 DEF m
  <2>2. QED
    BY <2>1, ReadTurns DEF m
<1>4. PICK r : /\ r[0] = t
               /\ \A i \in 1..(n + m) : r[i] = Token(r[i - 1], ab[i])
               /\ Read(t, ab) = r[n + m]
  <2>1. Len(ab) \in Nat
    BY <1>1
  <2>2. \E r : /\ r[0] = t
               /\ \A i \in 1..Len(ab) : r[i] = Token(r[i - 1], ab[i])
               /\ Read(t, ab) = r[Len(ab)]
    BY <2>1, ReadTurns
  <2>3. QED
    BY <1>1, <2>2
<1> DEFINE First == {i \in Nat : i <= n => r[i] = p[i]}
           Second == {i \in Nat : i <= m => r[n + i] = q[i]}
<1>5. r[n] = p[n]
  <2>1. 0 \in First
    BY <1>2, <1>4
  <2>2. ASSUME NEW i \in Nat, i \in First PROVE i + 1 \in First
    <3>1. SUFFICES ASSUME i + 1 <= n PROVE r[i + 1] = p[i + 1]
      OBVIOUS
    <3>2. /\ i + 1 \in 1..n /\ i + 1 \in 1..(n + m) /\ (i + 1) - 1 = i
          /\ r[i] = p[i]
      BY <1>1, <2>2, <3>1
    <3>3. r[i + 1] = Token(r[i], ab[i + 1]) /\ p[i + 1] = Token(p[i], a[i + 1])
      BY <1>2, <1>4, <3>2
    <3>4. QED
      BY <1>1, <3>2, <3>3
  <2> HIDE DEF First
  <2>3. n \in First
    BY <1>1, <2>1, <2>2, StepInduction
  <2>4. QED
    BY <1>1, <2>3 DEF First
<1>6. r[n + m] = q[m]
  <2>1. 0 \in Second
    BY <1>1, <1>2, <1>3, <1>5
  <2>2. ASSUME NEW i \in Nat, i \in Second PROVE i + 1 \in Second
    <3>1. SUFFICES ASSUME i + 1 <= m PROVE r[n + (i + 1)] = q[i + 1]
      OBVIOUS
    <3>2. /\ i + 1 \in 1..m /\ n + (i + 1) \in 1..(n + m)
          /\ (i + 1) - 1 = i /\ (n + (i + 1)) - 1 = n + i
          /\ r[n + i] = q[i]
      BY <1>1, <2>2, <3>1
    <3>3. /\ r[n + (i + 1)] = Token(r[n + i], ab[n + (i + 1)])
          /\ q[i + 1] = Token(q[i], b[i + 1])
      BY <1>3, <1>4, <3>2
    <3>4. ab[n + (i + 1)] = b[i + 1]
      BY <1>1, <3>2
    <3>5. QED
      BY <3>2, <3>3, <3>4
  <2> HIDE DEF Second
  <2>3. m \in Second
    BY <1>1, <2>1, <2>2, StepInduction
  <2>4. QED
    BY <1>1, <2>3 DEF Second
<1>7. QED
  BY <1>3, <1>4, <1>6 DEF ab, u

(* So does unescape_percent.                                                *)
LEMMA HalvedTurns ==
    ASSUME NEW t, NEW line, Len(line) \in Nat
    PROVE  \E r : /\ r[0] = t
                  /\ \A i \in 1..Len(line) : r[i] = Unescaped(r[i - 1], line[i])
                  /\ Halved(t, line) = r[Len(line)]
<1> DEFINE n == Len(line)
           Turn(r, i) == IF i = 0 THEN t ELSE Unescaped(r[i - 1], line[i])
           Loop(r, m) == r = [i \in 0..m |-> Turn(r, i)]
           S == {m \in Nat : \E r : Loop(r, m)}
           read == CHOOSE r : Loop(r, n)
<1>1. Halved(t, line) = read[n]
  BY DEF Halved
<1> HIDE DEF n
<1>2. 0 \in S
  <2> DEFINE r == [i \in 0..0 |-> t]
  <2>1. Loop(r, 0)
    OBVIOUS
  <2> HIDE DEF r
  <2>2. QED
    BY <2>1
<1>3. ASSUME NEW m \in Nat, m \in S PROVE m + 1 \in S
  <2>1. PICK r : Loop(r, m)
    BY <1>3
  <2> DEFINE more == [i \in 0..(m + 1) |-> IF i <= m THEN r[i] ELSE Turn(r, m + 1)]
  <2>2. ASSUME NEW i \in 0..(m + 1) PROVE more[i] = Turn(more, i)
    <3>1. CASE i = 0
      BY <2>1, <3>1
    <3>2. CASE i # 0
      <4>1. i - 1 \in 0..m /\ more[i - 1] = r[i - 1]
        BY <3>2
      <4>2. Turn(more, i) = Turn(r, i)
        BY <4>1
      <4>3. i <= m => r[i] = Turn(r, i)
        <5> HIDE DEF Turn
        <5>1. QED
          BY <2>1
      <4>4. more[i] = Turn(r, i)
        <5> HIDE DEF Turn
        <5>1. QED
          BY <4>3
      <4>5. QED
        BY <4>2, <4>4
    <3>3. QED
      BY <3>1, <3>2
  <2>3. more = [i \in 0..(m + 1) |-> more[i]]
    OBVIOUS
  <2> HIDE DEF more, Turn
  <2>4. Loop(more, m + 1)
    BY <2>2, <2>3
  <2>5. QED
    BY <2>4
<1>4. n \in S
  <2> HIDE DEF S
  <2>1. QED
    BY <1>2, <1>3, StepInduction DEF n
<1>5. Loop(read, n)
  <2> HIDE DEF Loop
  <2>1. QED
    BY <1>4
<1> HIDE DEF read, Turn
<1>6. \A i \in 0..n : read[i] = Turn(read, i)
  BY <1>5
<1>7. read[0] = t /\ \A i \in 1..n : read[i] = Unescaped(read[i - 1], line[i])
  BY <1>6 DEF Turn, n
<1>8. QED
  BY <1>1, <1>7 DEF n

(* One character of the argument.                                          *)
LEMMA HalvedOne ==
    ASSUME NEW t, NEW c PROVE Halved(t, <<c>>) = Unescaped(t, c)
<1> DEFINE line == <<c>>
<1>1. Len(line) = 1 /\ line[1] = c
  OBVIOUS
<1> HIDE DEF line
<1>2. PICK r : /\ r[0] = t
               /\ \A i \in 1..Len(line) : r[i] = Unescaped(r[i - 1], line[i])
               /\ Halved(t, line) = r[Len(line)]
  BY <1>1, HalvedTurns
<1>3. r[1] = Unescaped(r[0], line[1])
  BY <1>1, <1>2
<1>4. QED
  BY <1>1, <1>2, <1>3 DEF line

(* Nothing of the argument.                                                *)
LEMMA HalvedEmpty == ASSUME NEW t PROVE Halved(t, <<>>) = t
<1> DEFINE line == <<>>
<1>1. Len(line) = 0
  OBVIOUS
<1> HIDE DEF line
<1>2. QED
  BY <1>1, HalvedTurns DEF line

(* An argument may be unescaped in two parts.                              *)
LEMMA HalvedConcat ==
    ASSUME NEW T, NEW t, NEW a \in Seq(T), NEW b \in Seq(T)
    PROVE  Halved(t, a \o b) = Halved(Halved(t, a), b)
<1> DEFINE ab == a \o b
           n == Len(a)
           m == Len(b)
           u == Halved(t, a)
<1>1. /\ n \in Nat /\ m \in Nat /\ Len(ab) = n + m
      /\ \A i \in 1..n : ab[i] = a[i]
      /\ \A i \in 1..m : ab[n + i] = b[i]
  OBVIOUS
<1> HIDE DEF ab, n, m, u
<1>2. PICK p : /\ p[0] = t
               /\ \A i \in 1..n : p[i] = Unescaped(p[i - 1], a[i])
               /\ u = p[n]
  BY <1>1, HalvedTurns DEF n, u
<1>3. PICK q : /\ q[0] = u
               /\ \A i \in 1..m : q[i] = Unescaped(q[i - 1], b[i])
               /\ Halved(u, b) = q[m]
  <2>1. Len(b) \in Nat
    BY <1>1 DEF m
  <2>2. QED
    BY <2>1, HalvedTurns DEF m
<1>4. PICK r : /\ r[0] = t
               /\ \A i \in 1..(n + m) : r[i] = Unescaped(r[i - 1], ab[i])
               /\ Halved(t, ab) = r[n + m]
  <2>1. Len(ab) \in Nat
    BY <1>1
  <2>2. \E r : /\ r[0] = t
               /\ \A i \in 1..Len(ab) : r[i] = Unescaped(r[i - 1], ab[i])
               /\ Halved(t, ab) = r[Len(ab)]
    BY <2>1, HalvedTurns
  <2>3. QED
    BY <1>1, <2>2
<1> DEFINE First == {i \in Nat : i <= n => r[i] = p[i]}
           Second == {i \in Nat : i <= m => r[n + i] = q[i]}
<1>5. r[n] = p[n]
  <2>1. 0 \in First
    BY <1>2, <1>4
  <2>2. ASSUME NEW i \in Nat, i \in First PROVE i + 1 \in First
    <3>1. SUFFICES ASSUME i + 1 <= n PROVE r[i + 1] = p[i + 1]
      OBVIOUS
    <3>2. /\ i + 1 \in 1..n /\ i + 1 \in 1..(n + m) /\ (i + 1) - 1 = i
          /\ r[i] = p[i]
      BY <1>1, <2>2, <3>1
    <3>3. r[i + 1] = Unescaped(r[i], ab[i + 1]) /\ p[i + 1] = Unescaped(p[i], a[i + 1])
      BY <1>2, <1>4, <3>2
    <3>4. QED
      BY <1>1, <3>2, <3>3
  <2> HIDE DEF First
  <2>3. n \in First
    BY <1>1, <2>1, <2>2, StepInduction
  <2>4. QED
    BY <1>1, <2>3 DEF First
<1>6. r[n + m] = q[m]
  <2>1. 0 \in Second
    BY <1>1, <1>2, <1>3, <1>5
  <2>2. ASSUME NEW i \in Nat, i \in Second PROVE i + 1 \in Second
    <3>1. SUFFICES ASSUME i + 1 <= m PROVE r[n + (i + 1)] = q[i + 1]
      OBVIOUS
    <3>2. /\ i + 1 \in 1..m /\ n + (i + 1) \in 1..(n + m)
          /\ (i + 1) - 1 = i /\ (n + (i + 1)) - 1 = n + i
          /\ r[n + i] = q[i]
      BY <1>1, <2>2, <3>1
    <3>3. /\ r[n + (i + 1)] = Unescaped(r[n + i], ab[n + (i + 1)])
          /\ q[i + 1] = Unescaped(q[i], b[i + 1])
      BY <1>3, <1>4, <3>2
    <3>4. ab[n + (i + 1)] = b[i + 1]
      BY <1>1, <3>2
    <3>5. QED
      BY <3>2, <3>3, <3>4
  <2> HIDE DEF Second
  <2>3. m \in Second
    BY <1>1, <2>1, <2>2, StepInduction
  <2>4. QED
    BY <1>1, <2>3 DEF Second
<1>7. QED
  BY <1>3, <1>4, <1>6 DEF ab, u

(* The pieces that a flat sequence is put together of, one after the other. *)
Parted(seqs, n, T) == n \in Nat /\ seqs \in [1..n -> Seq(T)]

Joined(f, seqs, n, T) ==
    /\ f[0] = <<>>
    /\ \A i \in 0..n : f[i] \in Seq(T)
    /\ \A i \in 1..n : f[i] = f[i - 1] \o seqs[i]
    /\ FlattenSeq(seqs) = f[n]

(* A flat sequence is put together by adding one part after the other.     *)
LEMMA FlattenTurns ==
    ASSUME NEW T, NEW n, NEW seqs, Parted(seqs, n, T)
    PROVE  \E f : Joined(f, seqs, n, T)
<1> DEFINE D == Seq(T)
           step == [p \in (1..n) \X D |-> p[2] \o seqs[p[1]]]
           Turn(r, i) == IF i = 1 THEN seqs[i] ELSE r[i - 1] \o seqs[i]
           flatten == CHOOSE r : r = [i \in 1..Len(seqs) |-> Turn(r, i)]
<1> USE DEF Parted, Joined
<1>1. Len(seqs) = n /\ <<>> \in D /\ \A i \in 1..n, q \in D : q \o seqs[i] \in D
  OBVIOUS
<1>2. n = 0 => FlattenSeq(seqs) = <<>>
  BY <1>1 DEF FlattenSeq
<1>3. n # 0 => FlattenSeq(seqs) = flatten[n]
  BY <1>1 DEF FlattenSeq
<1>4. \A q \in D : <<>> \o q = q
  OBVIOUS
<1>5. \A i \in 1..n : seqs[i] \in D
  OBVIOUS
<1> HIDE DEF D
<1>6. IsLoop(n, D, <<>>, step)
  BY <1>1 DEF IsLoop
<1>7. \A i \in 1..n, q \in D : step[<<i, q>>] = q \o seqs[i]
  OBVIOUS
<1> HIDE DEF step
<1>8. PICK f : Turns(f, n, D, <<>>, step)
  BY <1>6, LoopExists
<1>9. /\ f[0] = <<>>
      /\ \A i \in 0..n : f[i] \in D
      /\ \A i \in 1..n : f[i] = f[i - 1] \o seqs[i]
  <2>1. ASSUME NEW i \in 1..n PROVE f[i] = f[i - 1] \o seqs[i]
    <3>1. i - 1 \in 0..n /\ f[i - 1] \in D
      BY <1>8 DEF Turns
    <3>2. QED
      BY <1>7, <1>8, <3>1 DEF Turns
  <2>2. QED
    BY <1>8, <2>1 DEF Turns
<1>10. CASE n = 0
  BY <1>2, <1>9, <1>10 DEF D
<1>11. CASE n # 0
  <2> DEFINE g == [i \in 1..n |-> f[i]]
  <2>1. ASSUME NEW i \in 1..n PROVE g[i] = Turn(g, i)
    <3>1. CASE i = 1
      <4>1. f[1] = <<>> \o seqs[1]
        <5>1. 1 \in 1..n /\ 1 - 1 = 0
          BY <3>1
        <5>2. f[1] = f[1 - 1] \o seqs[1]
          BY <1>9, <5>1
        <5>3. QED
          BY <1>9, <5>1, <5>2
      <4>2. QED
        BY <1>4, <1>5, <3>1, <4>1
    <3>2. CASE i # 1
      <4>1. i - 1 \in 1..n /\ g[i - 1] = f[i - 1]
        BY <3>2
      <4>2. QED
        BY <1>9, <3>2, <4>1
    <3>3. QED
      BY <3>1, <3>2
  <2>2. g = [i \in 1..n |-> g[i]]
    OBVIOUS
  <2> HIDE DEF g, Turn
  <2>3. g = [i \in 1..Len(seqs) |-> Turn(g, i)]
    BY <1>1, <2>1, <2>2
  <2>4. flatten = [i \in 1..Len(seqs) |-> Turn(flatten, i)]
    BY <2>3
  <2> HIDE DEF flatten
  <2>5. \A i \in 1..n : flatten[i] = Turn(flatten, i)
    BY <1>1, <2>4
  <2> DEFINE Good == {i \in Nat : 1 <= i /\ i <= n => flatten[i] = f[i]}
  <2>6. 0 \in Good
    OBVIOUS
  <2>7. ASSUME NEW i \in Nat, i \in Good PROVE i + 1 \in Good
    <3>1. SUFFICES ASSUME i + 1 <= n PROVE flatten[i + 1] = f[i + 1]
      OBVIOUS
    <3>2. i + 1 \in 1..n /\ (i + 1) - 1 = i
      BY <3>1
    <3>3. CASE i = 0
      <4>1. flatten[1] = seqs[1]
        BY <2>5, <3>2, <3>3 DEF Turn
      <4>2. f[1] = <<>> \o seqs[1]
        <5>1. 1 \in 1..n /\ 1 - 1 = 0
          BY <3>2, <3>3
        <5>2. f[1] = f[1 - 1] \o seqs[1]
          BY <1>9, <5>1
        <5>3. QED
          BY <1>9, <5>1, <5>2
      <4>3. QED
        BY <1>4, <1>5, <3>2, <3>3, <4>1, <4>2
    <3>4. CASE i # 0
      <4>1. flatten[i] = f[i]
        BY <2>7, <3>1, <3>4
      <4>2. flatten[i + 1] = flatten[i] \o seqs[i + 1]
        <5>1. flatten[i + 1] = Turn(flatten, i + 1) /\ i + 1 # 1
          BY <2>5, <3>2, <3>4
        <5>2. flatten[i + 1] = flatten[(i + 1) - 1] \o seqs[i + 1]
          BY <5>1 DEF Turn
        <5>3. QED
          BY <3>2, <5>2
      <4>3. QED
        BY <1>9, <3>2, <4>1, <4>2
    <3>5. QED
      BY <3>3, <3>4
  <2> HIDE DEF Good
  <2>8. n \in Good
    BY <2>6, <2>7, StepInduction
  <2>9. flatten[n] = f[n]
    BY <1>11, <2>8 DEF Good
  <2>10. QED
    BY <1>3, <1>9, <1>11, <2>9 DEF D
<1>12. QED
  BY <1>10, <1>11

-----------------------------------------------------------------------------
(* The command of a session.                                               *)
State(args, current, quote) ==
    [args |-> args, current |-> current, quote |-> quote, escaped |-> FALSE]

(* Two characters that stand for one.                                      *)
LEMMA Two ==
    ASSUME NEW T, NEW a \in T, NEW b \in T, NEW q \in Seq(T)
    PROVE  /\ <<a>> \in Seq(T) /\ <<b>> \in Seq(T)
           /\ <<a, b>> = <<a>> \o <<b>>
           /\ Append(q, a) = q \o <<a>>
           /\ Append(Append(q, a), b) = q \o <<a, b>>
<1>1. /\ <<a>> \in Seq(T) /\ <<b>> \in Seq(T) /\ <<a, b>> \in Seq(T)
      /\ Append(q, a) = q \o <<a>>
  OBVIOUS
<1>2. <<a, b>> = <<a>> \o <<b>>
  <2> DEFINE u == <<a, b>>
             v == <<a>> \o <<b>>
  <2>1. u \in Seq(T) /\ v \in Seq(T)
    OBVIOUS
  <2>2. Len(u) = 2 /\ Len(v) = 2
    OBVIOUS
  <2>3. u[1] = a /\ u[2] = b /\ v[1] = a /\ v[2] = b
    OBVIOUS
  <2> HIDE DEF u, v
  <2>4. \A i \in 1..Len(u) : u[i] = v[i]
    <3>1. 1..2 = {1, 2}
      OBVIOUS
    <3>2. QED
      BY <2>2, <2>3, <3>1
  <2>5. u = v
    BY <2>1, <2>2, <2>4, SeqEqual
  <2>6. QED
    BY <2>5 DEF u, v
<1>3. Append(Append(q, a), b) = q \o <<a, b>>
  OBVIOUS
<1>4. QED
  BY <1>1, <1>2, <1>3

(* The characters of an argument, one at a time: what stands for one in    *)
(* the line is one character of the token, but "%%" stays.                 *)
Piece(c, form) == IF c = "%" /\ form \notin CodeForms THEN <<"%", "%">> ELSE <<c>>

(* Only quoting and escaping make room for what is special, and single     *)
(* quotes for all but their own.                                           *)
WordForms == {"plain", "quoted", "single", "escaped"}

Suits(c, form) ==
    /\ form \in WordForms \union CodeForms
    /\ form \in {"plain"} \union CodeForms => c \notin Special
    /\ form = "single" => c # "'"

(* tokenize_exec on one character of an argument, however it is written.   *)
LEMMA CharIsRead ==
    ASSUME NEW args, NEW current \in Seq(Chars), NEW c \in Chars, NEW form,
           Suits(c, form)
    PROVE  Read(State(args, current, Quote(form)), Written(c, form)) =
           State(args, current \o Piece(c, form), Quote(form))
<1> DEFINE q == Quote(form)
           t == State(args, current, q)
<1>1. /\ q \in {"none", "\"", "'"}
      /\ form \in {"quoted", "quoted code"} => q = "\""
      /\ form = "single" => q = "'"
      /\ form \in {"plain", "escaped", "code"} => q = "none"
  BY DEF Quote
<1>2. "%" \in Chars /\ "\\" \in Chars
  BY DEF Chars
<1>3. \A d \in Chars : Append(current, d) = current \o <<d>>
  OBVIOUS
<1>4. CASE c = "%" /\ form \notin CodeForms
  <2> DEFINE once == State(args, Append(current, "%"), q)
  <2>1. Written(c, form) = <<"%">> \o <<"%">> /\ Piece(c, form) = <<"%", "%">>
    <3>1. Written(c, form) = <<"%", "%">> /\ Piece(c, form) = <<"%", "%">>
      BY <1>4 DEF Written, Piece, Special
    <3>2. QED
      BY <1>2, <3>1, Two
  <2>2. Token(t, "%") = once
    BY <1>1 DEF State, Token, Push
  <2>3. Token(once, "%") = State(args, Append(Append(current, "%"), "%"), q)
    BY <1>1 DEF State, Token, Push
  <2>4. Append(Append(current, "%"), "%") = current \o <<"%", "%">>
    BY <1>2, Two
  <2>5. Read(t, <<"%">> \o <<"%">>) = Read(Read(t, <<"%">>), <<"%">>)
    <3> DEFINE a == <<"%">>
    <3>1. a \in Seq(Chars)
      BY <1>2, Two
    <3> HIDE DEF t, a
    <3>2. Read(t, a \o a) = Read(Read(t, a), a)
      BY <3>1, ReadConcat
    <3>3. QED
      BY <3>2 DEF a
  <2> HIDE DEF t, once
  <2>6. Read(t, <<"%">>) = once
    BY <2>2, ReadOne
  <2>7. Read(once, <<"%">>) = State(args, Append(Append(current, "%"), "%"), q)
    BY <2>3, ReadOne
  <2>8. QED
    BY <2>1, <2>4, <2>5, <2>6, <2>7 DEF t
<1>5. CASE /\ ~(c = "%" /\ form \notin CodeForms)
           /\ (c \in {"\"", "\\"} /\ form = "quoted") \/ (c \in Special /\ form = "escaped")
  <2> DEFINE once == [t EXCEPT !.escaped = TRUE]
  <2>1. Written(c, form) = <<"\\">> \o <<c>> /\ Piece(c, form) = <<c>>
    <3>1. Written(c, form) = <<"\\", c>> /\ Piece(c, form) = <<c>>
      BY <1>5 DEF Written, Piece, Special
    <3>2. QED
      BY <1>2, <3>1, Two
  <2>2. Token(t, "\\") = once
    <3>1. q \in {"none", "\""}
      BY <1>1, <1>5
    <3>2. QED
      BY <3>1 DEF State, Token, Push
  <2>3. Token(once, c) = State(args, Append(current, c), q)
    BY <1>1 DEF State, Token, Push
  <2>4. Read(t, <<"\\">> \o <<c>>) = Read(Read(t, <<"\\">>), <<c>>)
    <3> DEFINE a == <<"\\">>
               b == <<c>>
    <3>1. a \in Seq(Chars) /\ b \in Seq(Chars)
      BY <1>2, Two
    <3> HIDE DEF t, a, b
    <3>2. Read(t, a \o b) = Read(Read(t, a), b)
      BY <3>1, ReadConcat
    <3>3. QED
      BY <3>2 DEF a, b
  <2> HIDE DEF t, once
  <2>5. Read(t, <<"\\">>) = once
    BY <2>2, ReadOne
  <2>6. Read(once, <<c>>) = State(args, Append(current, c), q)
    BY <2>3, ReadOne
  <2>7. QED
    BY <1>3, <2>1, <2>4, <2>5, <2>6 DEF t
<1>6. CASE /\ ~(c = "%" /\ form \notin CodeForms)
           /\ ~(c \in {"\"", "\\"} /\ form = "quoted")
           /\ ~(c \in Special /\ form = "escaped")
  <2>1. Written(c, form) = <<c>> /\ Piece(c, form) = <<c>>
    BY <1>6 DEF Written, Piece, Special
  <2>2. CASE form = "quoted"
    <3>1. q = "\"" /\ c # "\"" /\ c # "\\"
      BY <1>1, <1>6, <2>2
    <3>2. Token(t, c) = State(args, Append(current, c), q)
      BY <3>1 DEF State, Token, Push, Chars
    <3>3. QED
      BY <1>3, <2>1, <3>2, ReadOne
  <2>3. CASE form = "single"
    <3>1. q = "'" /\ c # "'"
      BY <1>1, <2>3 DEF Suits
    <3>2. Token(t, c) = State(args, Append(current, c), q)
      BY <3>1 DEF State, Token, Push, Chars
    <3>3. QED
      BY <1>3, <2>1, <3>2, ReadOne
  <2>4. CASE form \in {"plain", "escaped"} \union CodeForms
    <3>1. q \in {"none", "\""} /\ c \notin Special
      BY <1>1, <1>6, <2>4 DEF Suits, CodeForms
    <3>2. Token(t, c) = State(args, Append(current, c), q)
      BY <3>1 DEF State, Token, Push, Chars, Special
    <3>3. QED
      BY <1>3, <2>1, <3>2, ReadOne
  <2>5. QED
    BY <2>2, <2>3, <2>4 DEF Suits, WordForms
<1>7. QED
  BY <1>4, <1>5, <1>6

Arguments ==
    {a \in [word : Words, form : WordForms] :
        \A i \in DOMAIN a.word : Suits(a.word[i], a.form)}
    \union CodeArguments

(* An argument is not empty, and its form suits its characters.            *)
LEMMA ArgumentFacts ==
    ASSUME NEW a \in Arguments
    PROVE  /\ a.word \in Seq(Chars)
           /\ Len(a.word) \in Nat /\ Len(a.word) >= 1 /\ DOMAIN a.word = 1..Len(a.word)
           /\ \A i \in 1..Len(a.word) : a.word[i] \in Chars
           /\ a.form \in WordForms \union CodeForms
           /\ \A i \in 1..Len(a.word) : Suits(a.word[i], a.form)
           /\ a \in CodeArguments <=> a.form \in CodeForms
           /\ a.form \in CodeForms => a.word = <<"%", "f">>
<1>1. CASE a \in CodeArguments
  <2>1. a.word = <<"%", "f">> /\ a.form \in CodeForms
    BY <1>1 DEF CodeArguments, Codes
  <2> DEFINE w == <<"%", "f">>
  <2>2. w \in Seq(Chars) /\ Len(w) = 2 /\ w[1] = "%" /\ w[2] = "f" /\ DOMAIN w = 1..2
    BY DEF Chars
  <2> HIDE DEF w
  <2>3. \A i \in 1..2 : w[i] \in Chars /\ Suits(w[i], a.form)
    <3>1. \A i \in 1..2 : w[i] = "%" \/ w[i] = "f"
      <4>1. 1..2 = {1, 2}
        OBVIOUS
      <4>2. QED
        BY <2>2, <4>1
    <3>2. "%" \in Chars \ Special /\ "f" \in Chars \ Special /\ "'" \in Special
      BY DEF Chars, Special
    <3>3. QED
      BY <2>1, <3>1, <3>2 DEF Suits
  <2>4. a.word = w
    BY <2>1 DEF w
  <2>5. QED
    BY <1>1, <2>1, <2>2, <2>3, <2>4
<1>2. CASE a \notin CodeArguments
  <2>1. a \in [word : Words, form : WordForms]
    BY <1>2 DEF Arguments
  <2>2. a.word \in Words /\ a.form \in WordForms /\ a.form \notin CodeForms
    BY <2>1 DEF WordForms, CodeForms
  <2>3. \A i \in DOMAIN a.word : Suits(a.word[i], a.form)
    BY <1>2 DEF Arguments
  <2>4. PICK n \in 1..MaxWord : a.word \in [1..n -> Chars]
    BY <2>2 DEF Words
  <2> DEFINE w == a.word
  <2>5. n \in Nat /\ n >= 1 /\ w \in [1..n -> Chars]
    BY <2>4, ExecAssumption DEF ExecAssumption
  <2> HIDE DEF w
  <2>6. w \in Seq(Chars) /\ Len(w) = n /\ DOMAIN w = 1..n /\ \A i \in 1..n : w[i] \in Chars
    BY <2>5
  <2>7. QED
    BY <1>2, <2>2, <2>3, <2>5, <2>6 DEF w
<1>3. QED
  BY <1>1, <1>2

Body(a) == FlattenSeq([i \in DOMAIN a.word |-> Written(a.word[i], a.form)])

Doubled(a) == FlattenSeq([i \in DOMAIN a.word |-> Piece(a.word[i], a.form)])

(* Both are written in characters.                                         *)
LEMMA WrittenChars ==
    ASSUME NEW c \in Chars, NEW form
    PROVE  Written(c, form) \in Seq(Chars) /\ Piece(c, form) \in Seq(Chars)
<1>1. "%" \in Chars /\ "\\" \in Chars
  BY DEF Chars
<1>2. <<c>> \in Seq(Chars) /\ <<"%", "%">> \in Seq(Chars) /\ <<"\\", c>> \in Seq(Chars)
  BY <1>1
<1>3. Written(c, form) \in {<<"%", "%">>, <<"\\", c>>, <<c>>}
  BY DEF Written
<1>4. Piece(c, form) \in {<<"%", "%">>, <<c>>}
  BY DEF Piece
<1>5. QED
  BY <1>2, <1>3, <1>4

(* The token that an argument is read as, piece by piece.                  *)
LEMMA DoubledTurns ==
    ASSUME NEW a \in Arguments
    PROVE  \E f : /\ f[0] = <<>>
                  /\ \A i \in 0..Len(a.word) : f[i] \in Seq(Chars)
                  /\ \A i \in 1..Len(a.word) : f[i] = f[i - 1] \o Piece(a.word[i], a.form)
                  /\ Doubled(a) = f[Len(a.word)]
<1> DEFINE n == Len(a.word)
           pieces == [i \in DOMAIN a.word |-> Piece(a.word[i], a.form)]
<1>1. n \in Nat /\ DOMAIN a.word = 1..n /\ \A i \in 1..n : a.word[i] \in Chars
  BY ArgumentFacts
<1> HIDE DEF n
<1>2. pieces \in [1..n -> Seq(Chars)] /\ \A i \in 1..n : pieces[i] = Piece(a.word[i], a.form)
  <2>1. \A i \in 1..n : Piece(a.word[i], a.form) \in Seq(Chars)
    BY <1>1, WrittenChars
  <2>2. QED
    BY <1>1, <2>1
<1>3. Doubled(a) = FlattenSeq(pieces) /\ Parted(pieces, n, Chars)
  BY <1>1, <1>2 DEF Doubled, Parted
<1> HIDE DEF pieces
<1>4. PICK f : Joined(f, pieces, n, Chars)
  BY <1>3, FlattenTurns
<1>5. QED
  BY <1>2, <1>3, <1>4 DEF Joined, n

(* What stands for the argument in the line, piece by piece.               *)
LEMMA BodyTurns ==
    ASSUME NEW a \in Arguments
    PROVE  \E f : /\ f[0] = <<>>
                  /\ \A i \in 0..Len(a.word) : f[i] \in Seq(Chars)
                  /\ \A i \in 1..Len(a.word) : f[i] = f[i - 1] \o Written(a.word[i], a.form)
                  /\ Body(a) = f[Len(a.word)]
<1> DEFINE n == Len(a.word)
           pieces == [i \in DOMAIN a.word |-> Written(a.word[i], a.form)]
<1>1. n \in Nat /\ DOMAIN a.word = 1..n /\ \A i \in 1..n : a.word[i] \in Chars
  BY ArgumentFacts
<1> HIDE DEF n
<1>2. pieces \in [1..n -> Seq(Chars)] /\ \A i \in 1..n : pieces[i] = Written(a.word[i], a.form)
  <2>1. \A i \in 1..n : Written(a.word[i], a.form) \in Seq(Chars)
    BY <1>1, WrittenChars
  <2>2. QED
    BY <1>1, <2>1
<1>3. Body(a) = FlattenSeq(pieces) /\ Parted(pieces, n, Chars)
  BY <1>1, <1>2 DEF Body, Parted
<1> HIDE DEF pieces
<1>4. PICK f : Joined(f, pieces, n, Chars)
  BY <1>3, FlattenTurns
<1>5. QED
  BY <1>2, <1>3, <1>4 DEF Joined, n

(* Between its quotes an argument is read as its doubled form.             *)
LEMMA BodyIsRead ==
    ASSUME NEW a \in Arguments, NEW args
    PROVE  /\ Body(a) \in Seq(Chars) /\ Doubled(a) \in Seq(Chars)
           /\ Read(State(args, <<>>, Quote(a.form)), Body(a)) =
              State(args, Doubled(a), Quote(a.form))
<1> DEFINE n == Len(a.word)
           form == a.form
           word == a.word
<1>1. /\ n \in Nat /\ \A i \in 1..n : word[i] \in Chars
      /\ \A i \in 1..n : Suits(word[i], form)
  BY ArgumentFacts
<1>2. PICK f : /\ f[0] = <<>>
               /\ \A i \in 0..n : f[i] \in Seq(Chars)
               /\ \A i \in 1..n : f[i] = f[i - 1] \o Piece(word[i], form)
               /\ Doubled(a) = f[n]
  BY DoubledTurns
<1>3. PICK g : /\ g[0] = <<>>
               /\ \A i \in 0..n : g[i] \in Seq(Chars)
               /\ \A i \in 1..n : g[i] = g[i - 1] \o Written(word[i], form)
               /\ Body(a) = g[n]
  BY BodyTurns
<1> HIDE DEF n, form, word
<1> DEFINE t == State(args, <<>>, Quote(form))
           Good == {i \in Nat : i <= n => Read(t, g[i]) = State(args, f[i], Quote(form))}
<1>4. 0 \in Good
  <2>1. Read(t, <<>>) = t
    <3> HIDE DEF t
    <3>1. QED
      BY ReadEmpty
  <2>2. QED
    BY <1>2, <1>3, <2>1
<1>5. ASSUME NEW i \in Nat, i \in Good PROVE i + 1 \in Good
  <2>1. SUFFICES ASSUME i + 1 <= n
                 PROVE  Read(t, g[i + 1]) = State(args, f[i + 1], Quote(form))
    OBVIOUS
  <2>2. i + 1 \in 1..n /\ (i + 1) - 1 = i /\ i \in 0..n
    BY <1>1, <2>1
  <2> DEFINE b == g[i]
             c == word[i + 1]
             w == Written(c, form)
             current == f[i]
  <2>3. c \in Chars /\ Suits(c, form)
    BY <1>1, <2>2
  <2>4. b \in Seq(Chars) /\ current \in Seq(Chars) /\ w \in Seq(Chars)
    BY <1>2, <1>3, <2>2, <2>3, WrittenChars
  <2>5. g[i + 1] = b \o w /\ f[i + 1] = current \o Piece(c, form)
    BY <1>2, <1>3, <2>2
  <2>6. Read(t, b) = State(args, current, Quote(form))
    BY <1>1, <1>5, <2>1
  <2> HIDE DEF t, b, c, current
  <2>7. Read(State(args, current, Quote(form)), w) = State(args, current \o Piece(c, form), Quote(form))
    BY <1>1, <2>3, <2>4, CharIsRead
  <2> HIDE DEF w
  <2>8. Read(t, b \o w) = Read(Read(t, b), w)
    BY <2>4, ReadConcat
  <2>9. QED
    BY <2>5, <2>6, <2>7, <2>8
<1>6. n \in Good
  <2> HIDE DEF Good
  <2>1. QED
    BY <1>1, <1>4, <1>5, StepInduction
<1>7. Read(t, g[n]) = State(args, f[n], Quote(form))
  BY <1>1, <1>6
<1>8. n \in 0..n
  BY <1>1
<1>9. QED
  BY <1>2, <1>3, <1>7, <1>8 DEF form

(* What the doubled form begins with tells a field code from an argument.  *)
LEMMA DoubledBegins ==
    ASSUME NEW a \in Arguments
    PROVE  /\ Doubled(a) # <<>>
           /\ Doubled(a) \in Codes <=> a \in CodeArguments
<1> DEFINE n == Len(a.word)
           form == a.form
           word == a.word
<1>1. /\ n \in Nat /\ n >= 1 /\ \A i \in 1..n : word[i] \in Chars
      /\ a \in CodeArguments <=> form \in CodeForms
      /\ form \in CodeForms => word = <<"%", "f">>
  BY ArgumentFacts
<1>2. PICK f : /\ f[0] = <<>>
               /\ \A i \in 0..n : f[i] \in Seq(Chars)
               /\ \A i \in 1..n : f[i] = f[i - 1] \o Piece(word[i], form)
               /\ Doubled(a) = f[n]
  BY DoubledTurns
<1>3. form \in CodeForms => n = 2 /\ word[1] = "%" /\ word[2] = "f"
  <2>1. SUFFICES ASSUME form \in CodeForms PROVE n = 2 /\ word[1] = "%" /\ word[2] = "f"
    OBVIOUS
  <2>2. word = <<"%", "f">>
    BY <1>1, <2>1
  <2> DEFINE w == <<"%", "f">>
  <2>3. Len(w) = 2 /\ w[1] = "%" /\ w[2] = "f"
    OBVIOUS
  <2>4. QED
    BY <2>2, <2>3
<1> HIDE DEF n, form, word
<1> DEFINE Begins(q) ==
             /\ Len(q) >= 1 /\ q[1] = word[1]
             /\ form \notin CodeForms /\ word[1] = "%" => Len(q) >= 2 /\ q[2] = "%"
           Good == {i \in Nat : 1 <= i /\ i <= n => Begins(f[i])}
<1>4. \A i \in 1..n : Piece(word[i], form) \in Seq(Chars)
  BY <1>1, WrittenChars
<1>5. f[1] = Piece(word[1], form)
  <2>1. 1 \in 1..n /\ 1 - 1 = 0
    BY <1>1
  <2>2. f[1] = f[0] \o Piece(word[1], form)
    BY <1>2, <2>1
  <2> DEFINE p == Piece(word[1], form)
  <2>3. p \in Seq(Chars)
    BY <1>4, <2>1
  <2> HIDE DEF p
  <2>4. <<>> \o p = p
    BY <2>3
  <2>5. QED
    BY <1>2, <2>2, <2>4 DEF p
<1>6. 0 \in Good
  OBVIOUS
<1>7. ASSUME NEW i \in Nat, i \in Good PROVE i + 1 \in Good
  <2>1. SUFFICES ASSUME i + 1 <= n PROVE Begins(f[i + 1])
    OBVIOUS
  <2>2. CASE i = 0
    <3>1. CASE word[1] = "%" /\ form \notin CodeForms
      <4> DEFINE w == <<"%", "%">>
      <4>1. Len(w) = 2 /\ w[1] = "%" /\ w[2] = "%"
        OBVIOUS
      <4>2. f[1] = w
        BY <1>5, <3>1 DEF Piece
      <4> HIDE DEF w
      <4>3. QED
        BY <2>2, <3>1, <4>1, <4>2
    <3>2. CASE ~(word[1] = "%" /\ form \notin CodeForms)
      <4> DEFINE w == <<word[1]>>
      <4>1. Len(w) = 1 /\ w[1] = word[1]
        OBVIOUS
      <4>2. f[1] = w
        BY <1>5, <3>2 DEF Piece
      <4> HIDE DEF w
      <4>3. Begins(w)
        BY <3>2, <4>1
      <4>4. f[i + 1] = w
        BY <2>2, <4>2
      <4>5. QED
        BY <4>3, <4>4
    <3>3. QED
      BY <3>1, <3>2
  <2>3. CASE i # 0
    <3>1. i + 1 \in 1..n /\ (i + 1) - 1 = i /\ i \in 0..n /\ 1 <= i /\ i <= n
      BY <1>1, <2>1, <2>3
    <3> DEFINE q == f[i]
               p == Piece(word[i + 1], form)
    <3>2. Begins(q)
      <4> HIDE DEF Begins
      <4>1. QED
        BY <1>7, <3>1
    <3>3. q \in Seq(Chars) /\ p \in Seq(Chars) /\ f[i + 1] = q \o p
      BY <1>2, <1>4, <3>1
    <3> HIDE DEF q, p
    <3>4. Len(q \o p) >= Len(q) /\ \A k \in 1..Len(q) : (q \o p)[k] = q[k]
      BY <3>3
    <3>5. Len(q) \in Nat /\ Len(q \o p) \in Nat
      BY <3>3
    <3> DEFINE qp == q \o p
    <3>6. Len(qp) >= Len(q) /\ Len(qp) \in Nat /\ \A k \in 1..Len(q) : qp[k] = q[k]
      BY <3>4, <3>5
    <3> HIDE DEF qp
    <3>7. Len(qp) >= 1 /\ qp[1] = word[1]
      BY <3>2, <3>5, <3>6
    <3>8. form \notin CodeForms /\ word[1] = "%" => Len(qp) >= 2 /\ qp[2] = "%"
      <4>1. SUFFICES ASSUME form \notin CodeForms, word[1] = "%" PROVE Len(qp) >= 2 /\ qp[2] = "%"
        OBVIOUS
      <4>2. Len(q) >= 2 /\ q[2] = "%"
        BY <3>2, <4>1
      <4>3. 2 \in 1..Len(q)
        BY <3>5, <4>2
      <4>4. QED
        BY <3>5, <3>6, <4>2, <4>3
    <3>9. Begins(qp)
      BY <3>7, <3>8
    <3>10. f[i + 1] = qp
      BY <3>3 DEF qp
    <3>11. QED
      BY <3>9, <3>10
  <2>4. QED
    BY <2>2, <2>3
<1>8. Begins(f[n])
  <2> HIDE DEF Begins
  <2>1. n \in Good
    <3> HIDE DEF Good
    <3>1. QED
      BY <1>1, <1>6, <1>7, StepInduction
  <2>2. QED
    BY <1>1, <2>1
<1>9. f[n] \in Seq(Chars) /\ Len(<<>>) = 0
  BY <1>1, <1>2
<1>10. Doubled(a) # <<>>
  BY <1>2, <1>8, <1>9
<1>11. CASE form \in CodeForms
  <2>1. f[2] = f[1] \o <<"f">>
    <3>1. 2 \in 1..n /\ 2 - 1 = 1
      BY <1>3, <1>11
    <3>2. f[2] = f[1] \o Piece(word[2], form)
      BY <1>2, <3>1
    <3>3. Piece(word[2], form) = <<"f">>
      BY <1>3, <1>11 DEF Piece
    <3>4. QED
      BY <3>2, <3>3
  <2>2. f[1] = <<"%">>
    BY <1>3, <1>5, <1>11 DEF Piece
  <2>3. <<"%">> \o <<"f">> = <<"%", "f">>
    <3>1. "%" \in Chars /\ "f" \in Chars /\ <<>> \in Seq(Chars)
      BY DEF Chars
    <3>2. QED
      BY <3>1, Two
  <2>4. Doubled(a) = <<"%", "f">>
    BY <1>2, <1>3, <1>11, <2>1, <2>2, <2>3
  <2>5. QED
    BY <1>1, <1>10, <1>11, <2>4 DEF Codes
<1>12. CASE form \notin CodeForms
  <2> DEFINE w == <<"%", "f">>
  <2>1. w[1] = "%" /\ w[2] = "f" /\ "f" # "%"
    OBVIOUS
  <2> HIDE DEF w
  <2>2. f[n] # w
    BY <1>8, <1>12, <2>1
  <2>3. Doubled(a) \notin Codes
    BY <1>2, <2>2 DEF Codes, w
  <2>4. QED
    BY <1>1, <1>10, <1>12, <2>3
<1>13. QED
  BY <1>11, <1>12

(* A sequence is built up from its beginnings, one element at a time.       *)
Upto(s, i) == [j \in 1..i |-> s[j]]

(* From one beginning to the next.                                         *)
LEMMA PrefixGrows ==
    ASSUME NEW T, NEW s \in Seq(T), NEW i \in Nat, i + 1 <= Len(s)
    PROVE  /\ Upto(s, i) \in Seq(T) /\ s[i + 1] \in T
           /\ Upto(s, i + 1) = Append(Upto(s, i), s[i + 1])
<1> DEFINE u == Upto(s, i)
           x == s[i + 1]
           v == Append(u, x)
           z == Upto(s, i + 1)
<1>1. x \in T /\ \A j \in 1..(i + 1) : s[j] \in T
  OBVIOUS
<1>2. u \in [1..i -> T] /\ z \in [1..(i + 1) -> T]
  BY <1>1 DEF Upto
<1>3. u \in Seq(T) /\ Len(u) = i
  <2> HIDE DEF u
  <2>1. QED
    BY <1>2
<1>4. z \in Seq(T) /\ Len(z) = i + 1
  <2> HIDE DEF z
  <2>1. QED
    BY <1>2
<1>5. z[i + 1] = x /\ \A k \in 1..i : z[k] = u[k]
  BY DEF Upto
<1>6. v \in Seq(T) /\ Len(v) = i + 1 /\ v[i + 1] = x /\ \A k \in 1..i : v[k] = u[k]
  <2> HIDE DEF u, x
  <2>1. QED
    BY <1>1, <1>3 DEF x
<1> HIDE DEF v, z, u, x
<1>7. \A k \in 1..(i + 1) : v[k] = z[k]
  BY <1>5, <1>6
<1>8. v = z
  BY <1>4, <1>6, <1>7, SeqEqual
<1>9. QED
  BY <1>1, <1>3, <1>8 DEF v, z, u, x

(* The first beginning and the last.                                       *)
LEMMA PrefixEnds ==
    ASSUME NEW T, NEW s \in Seq(T)
    PROVE  Upto(s, 0) = <<>> /\ Upto(s, Len(s)) = s
BY DEF Upto

(* unescape_percent undoes the doubling.                                   *)
LEMMA DoubledComesBack ==
    ASSUME NEW a \in Arguments, a \notin CodeArguments
    PROVE  UnescapePercent(Doubled(a)) = a.word
<1> DEFINE n == Len(a.word)
           form == a.form
           word == a.word
           Half(i) == [out |-> Upto(word, i), half |-> FALSE]
<1>1. /\ n \in Nat /\ \A i \in 1..n : word[i] \in Chars
      /\ form \notin CodeForms /\ word \in Seq(Chars)
  BY ArgumentFacts
<1>2. PICK f : /\ f[0] = <<>>
               /\ \A i \in 0..n : f[i] \in Seq(Chars)
               /\ \A i \in 1..n : f[i] = f[i - 1] \o Piece(word[i], form)
               /\ Doubled(a) = f[n]
  BY DoubledTurns
<1>3. Upto(word, 0) = <<>> /\ Upto(word, n) = word
  BY <1>1, PrefixEnds
<1> HIDE DEF n, form, word
<1>4. ASSUME NEW i \in Nat, i + 1 <= n
      PROVE  Append(Upto(word, i), word[i + 1]) = Upto(word, i + 1)
  BY <1>1, <1>4, PrefixGrows DEF n, word
<1> DEFINE t == [out |-> <<>>, half |-> FALSE]
           Good == {i \in Nat : i <= n => Halved(t, f[i]) = Half(i)}
<1>5. 0 \in Good
  <2>1. Halved(t, <<>>) = t
    <3> HIDE DEF t
    <3>1. QED
      BY HalvedEmpty
  <2>2. Half(0) = t
    BY <1>3
  <2>3. QED
    BY <1>2, <2>1, <2>2
<1>6. ASSUME NEW i \in Nat, i \in Good PROVE i + 1 \in Good
  <2>1. SUFFICES ASSUME i + 1 <= n PROVE Halved(t, f[i + 1]) = Half(i + 1)
    OBVIOUS
  <2>2. i + 1 \in 1..n /\ (i + 1) - 1 = i /\ i \in 0..n
    BY <1>1, <2>1
  <2> DEFINE q == f[i]
             c == word[i + 1]
             p == Piece(c, form)
             u == Upto(word, i)
             more == [out |-> Append(u, c), half |-> FALSE]
  <2>3. c \in Chars
    BY <1>1, <2>2
  <2>4. q \in Seq(Chars) /\ p \in Seq(Chars) /\ f[i + 1] = q \o p
    BY <1>2, <2>2, <2>3, WrittenChars
  <2>5. Halved(t, q) = [out |-> u, half |-> FALSE]
    <3>1. i <= n
      BY <1>1, <2>1
    <3> HIDE DEF Half, t
    <3>2. Halved(t, f[i]) = Half(i)
      BY <1>6, <3>1
    <3>3. QED
      BY <3>2 DEF Half
  <2>6. Append(u, c) = Upto(word, i + 1)
    BY <1>4, <2>1
  <2>7. more = Half(i + 1)
    BY <2>6
  <2> HIDE DEF u, c, q, t
  <2>8. Halved([out |-> u, half |-> FALSE], p) = more
    <3> DEFINE s == [out |-> u, half |-> FALSE]
    <3>1. CASE c = "%"
      <4> DEFINE mid == [out |-> Append(u, c), half |-> TRUE]
                 b == <<"%">>
      <4>1. p = <<"%", "%">>
        BY <1>1, <3>1 DEF Piece
      <4>2. "%" \in Chars
        BY DEF Chars
      <4>3. p = b \o b /\ b \in Seq(Chars)
        BY <4>1, <4>2, Two
      <4>4. Unescaped(s, "%") = mid
        BY <3>1 DEF Unescaped
      <4>5. Unescaped(mid, "%") = more
        BY <3>1 DEF Unescaped
      <4> HIDE DEF s, mid, more
      <4>6. Halved(s, b) = mid /\ Halved(mid, b) = more
        BY <4>4, <4>5, HalvedOne
      <4> HIDE DEF b, p
      <4>7. Halved(s, b \o b) = Halved(Halved(s, b), b)
        BY <4>3, HalvedConcat
      <4>8. QED
        BY <4>3, <4>6, <4>7 DEF s
    <3>2. CASE c # "%"
      <4>1. p = <<c>>
        BY <3>2 DEF Piece
      <4>2. Unescaped(s, c) = more
        BY <3>2 DEF Unescaped
      <4> HIDE DEF s, more
      <4>3. Halved(s, <<c>>) = more
        BY <4>2, HalvedOne
      <4>4. QED
        BY <4>1, <4>3 DEF s
    <3>3. QED
      BY <3>1, <3>2
  <2> HIDE DEF p, more
  <2>9. Halved(t, q \o p) = Halved(Halved(t, q), p)
    BY <2>4, HalvedConcat
  <2>10. QED
    BY <2>4, <2>5, <2>7, <2>8, <2>9
<1>7. n \in Good
  <2> HIDE DEF Good
  <2>1. QED
    BY <1>1, <1>5, <1>6, StepInduction
<1>8. Halved(t, f[n]) = Half(n)
  <2> HIDE DEF Half, t
  <2>1. QED
    BY <1>1, <1>7
<1>9. Half(n).out = word
  BY <1>3
<1>10. UnescapePercent(Doubled(a)) = Halved(t, f[n]).out
  BY <1>2 DEF UnescapePercent
<1>11. QED
  BY <1>8, <1>9, <1>10 DEF word

(* An argument in the line, whichever of its forms it has, is one token.    *)
LEMMA SpelledIsRead ==
    ASSUME NEW a \in Arguments, NEW args
    PROVE  /\ Spelled(a) \o <<" ">> \in Seq(Chars)
           /\ Read(State(args, <<>>, "none"), Spelled(a) \o <<" ">>) =
              State(Append(args, Doubled(a)), <<>>, "none")
<1> DEFINE body == Body(a)
           token == Doubled(a)
           blank == <<" ">>
           mark == <<Quote(a.form)>>
           before == State(args, <<>>, "none")
           done == State(args, token, "none")
           after == State(Append(args, token), <<>>, "none")
<1>1. blank \in Seq(Chars)
  BY DEF Chars
<1>2. body \in Seq(Chars) /\ token \in Seq(Chars) /\ token # <<>>
  BY BodyIsRead, DoubledBegins
<1>3. Spelled(a) = IF Quote(a.form) = "none" THEN body ELSE (mark \o body) \o mark
  BY DEF Spelled, Body
<1>4. Read(done, blank) = after
  <2>1. Token(done, " ") = after
    BY <1>2 DEF Token, State, Flush
  <2> HIDE DEF done, after
  <2>2. QED
    BY <2>1, ReadOne
<1>5. CASE Quote(a.form) # "none"
  <2> DEFINE opened == State(args, <<>>, Quote(a.form))
             closing == State(args, token, Quote(a.form))
             front == mark \o body
             whole == front \o mark
  <2>1. Quote(a.form) \in {"\"", "'"}
    BY <1>5 DEF Quote
  <2>2. mark \in Seq(Chars)
    <3>1. Quote(a.form) \in Chars
      BY <2>1 DEF Chars
    <3>2. QED
      BY <3>1
  <2>3. Token(before, Quote(a.form)) = opened /\ Token(closing, Quote(a.form)) = done
    BY <2>1 DEF Token, State
  <2>4. Read(opened, body) = closing
    BY BodyIsRead
  <2>5. Spelled(a) = whole
    BY <1>3, <1>5
  <2> HIDE DEF before, opened, closing, done, after, body, token
  <2>6. Read(before, mark) = opened /\ Read(closing, mark) = done
    BY <2>3, ReadOne
  <2> HIDE DEF mark, blank
  <2>7. front \in Seq(Chars) /\ whole \in Seq(Chars) /\ whole \o blank \in Seq(Chars)
    BY <1>1, <1>2, <2>2
  <2>8. Read(before, front) = closing
    BY <1>2, <2>2, <2>4, <2>6, ReadConcat
  <2> HIDE DEF front
  <2>9. Read(before, whole) = done
    BY <2>2, <2>6, <2>7, <2>8, ReadConcat
  <2> HIDE DEF whole
  <2>10. Read(before, whole \o blank) = after
    BY <1>1, <1>4, <2>7, <2>9, ReadConcat
  <2>11. QED
    BY <2>5, <2>7, <2>10 DEF before, after, token, blank
<1>6. CASE Quote(a.form) = "none"
  <2>1. Read(before, body) = done
    BY <1>6, BodyIsRead
  <2>2. Spelled(a) = body
    BY <1>3, <1>6
  <2> HIDE DEF before, done, after, body, token, mark, blank
  <2>3. Read(before, body \o blank) = after /\ body \o blank \in Seq(Chars)
    BY <1>1, <1>2, <1>4, <2>1, ReadConcat
  <2>4. QED
    BY <2>2, <2>3 DEF before, after, token, blank
<1>7. QED
  BY <1>5, <1>6

(* The tokens of a list of arguments.                                      *)
Tokens(s) == [i \in 1..Len(s) |-> Doubled(s[i])]

(* One argument more is one token more.                                    *)
LEMMA TokensGrow ==
    ASSUME NEW s \in Seq(Arguments), NEW a \in Arguments
    PROVE  Append(Tokens(s), Doubled(a)) = Tokens(Append(s, a))
<1> DEFINE D == Seq(Chars)
           n == Len(s)
           sa == Append(s, a)
           u == Tokens(s)
           x == Doubled(a)
           v == Append(u, x)
           z == Tokens(sa)
<1>1. /\ n \in Nat /\ sa \in Seq(Arguments) /\ Len(sa) = n + 1 /\ sa[n + 1] = a
      /\ \A i \in 1..n : sa[i] = s[i]
  OBVIOUS
<1>2. \A b \in Arguments : Doubled(b) \in D
  BY BodyIsRead
<1>3. \A i \in 1..(n + 1) : sa[i] \in Arguments
  BY <1>1
<1> HIDE DEF D, n, sa
<1>4. z \in [1..(n + 1) -> D] /\ z[n + 1] = x /\ \A i \in 1..n : z[i] = Doubled(s[i])
  BY <1>1, <1>2, <1>3 DEF Tokens
<1>5. u \in [1..n -> D] /\ \A i \in 1..n : u[i] = Doubled(s[i])
  <2>1. \A i \in 1..n : s[i] \in Arguments
    BY DEF n
  <2>2. u = [i \in 1..n |-> Doubled(s[i])]
    BY DEF Tokens, n
  <2>3. QED
    BY <1>2, <2>1, <2>2
<1>6. x \in D
  BY <1>2
<1> HIDE DEF u, x, z
<1>7. u \in Seq(D) /\ Len(u) = n /\ z \in Seq(D) /\ Len(z) = n + 1
  BY <1>1, <1>4, <1>5
<1>8. v \in Seq(D) /\ Len(v) = n + 1 /\ v[n + 1] = x /\ \A k \in 1..n : v[k] = u[k]
  BY <1>6, <1>7
<1> HIDE DEF v
<1>9. \A k \in 1..(n + 1) : v[k] = z[k]
  BY <1>1, <1>4, <1>5, <1>8
<1>10. v = z
  BY <1>7, <1>8, <1>9, SeqEqual
<1>11. QED
  BY <1>10 DEF v, u, x, z, sa

(* The line is read as the doubled forms of the arguments.                 *)
LEMMA LineIsRead ==
    ASSUME NEW list \in Seq(Arguments)
    PROVE  TokenizeExec(FlattenSeq([i \in DOMAIN list |-> Spelled(list[i]) \o <<" ">>])) =
           Tokens(list)
<1> DEFINE n == Len(list)
           written == [i \in DOMAIN list |-> Spelled(list[i]) \o <<" ">>]
<1>1. n \in Nat /\ DOMAIN list = 1..n /\ \A i \in 1..n : list[i] \in Arguments
  OBVIOUS
<1> HIDE DEF n
<1>2. written \in [1..n -> Seq(Chars)] /\ \A i \in 1..n : written[i] = Spelled(list[i]) \o <<" ">>
  <2>1. \A i \in 1..n : Spelled(list[i]) \o <<" ">> \in Seq(Chars)
    BY <1>1, SpelledIsRead
  <2>2. QED
    BY <1>1, <2>1
<1> HIDE DEF written
<1>3. PICK f : /\ f[0] = <<>>
               /\ \A i \in 0..n : f[i] \in Seq(Chars)
               /\ \A i \in 1..n : f[i] = f[i - 1] \o written[i]
               /\ FlattenSeq(written) = f[n]
  <2>1. Parted(written, n, Chars)
    BY <1>1, <1>2 DEF Parted
  <2>2. PICK f : Joined(f, written, n, Chars)
    BY <2>1, FlattenTurns
  <2>3. QED
    BY <2>2 DEF Joined
<1> DEFINE At(i) == State(Tokens(Upto(list, i)), <<>>, "none")
           Good == {i \in Nat : i <= n => Read(Start, f[i]) = At(i)}
<1>4. Tokens(<<>>) = <<>>
  BY DEF Tokens
<1>5. At(0) = Start
  <2>1. Upto(list, 0) = <<>>
    BY PrefixEnds
  <2>2. QED
    BY <1>4, <2>1 DEF Start, State
<1> HIDE DEF At
<1>6. 0 \in Good
  <2>1. Read(Start, <<>>) = Start
    BY ReadEmpty
  <2>2. QED
    BY <1>3, <1>5, <2>1
<1>7. ASSUME NEW i \in Nat, i \in Good PROVE i + 1 \in Good
  <2>1. SUFFICES ASSUME i + 1 <= n PROVE Read(Start, f[i + 1]) = At(i + 1)
    OBVIOUS
  <2>2. i + 1 \in 1..n /\ (i + 1) - 1 = i /\ i \in 0..n /\ i <= n
    BY <1>1, <2>1
  <2> DEFINE a == list[i + 1]
             b == f[i]
             w == written[i + 1]
             s == Upto(list, i)
  <2>3. a \in Arguments /\ b \in Seq(Chars) /\ w \in Seq(Chars) /\ f[i + 1] = b \o w
    BY <1>1, <1>2, <1>3, <2>2
  <2>4. w = Spelled(a) \o <<" ">>
    BY <1>2, <2>2
  <2>5. Read(Start, b) = State(Tokens(s), <<>>, "none")
    BY <1>7, <2>2 DEF At
  <2>6. s \in Seq(Arguments) /\ Upto(list, i + 1) = Append(s, a)
    BY <2>1, PrefixGrows DEF n
  <2> HIDE DEF a, b, w, s
  <2>7. Read(State(Tokens(s), <<>>, "none"), w) =
        State(Append(Tokens(s), Doubled(a)), <<>>, "none")
    BY <2>3, <2>4, SpelledIsRead
  <2>8. Append(Tokens(s), Doubled(a)) = Tokens(Upto(list, i + 1))
    BY <2>3, <2>6, TokensGrow
  <2>9. Read(Start, b \o w) = Read(Read(Start, b), w)
    BY <2>3, ReadConcat
  <2>10. QED
    BY <2>3, <2>5, <2>7, <2>8, <2>9 DEF At
<1>8. n \in Good
  <2> HIDE DEF Good
  <2>1. QED
    BY <1>1, <1>6, <1>7, StepInduction
<1>9. Read(Start, FlattenSeq(written)) = State(Tokens(list), <<>>, "none")
  <2>1. Upto(list, n) = list
    BY PrefixEnds DEF n
  <2>2. QED
    BY <1>1, <1>3, <1>8, <2>1 DEF At
<1>10. Flush(State(Tokens(list), <<>>, "none")).args = Tokens(list)
  BY DEF State, Flush
<1>11. State(Tokens(list), <<>>, "none").escaped = FALSE
  BY DEF State
<1>12. QED
  BY <1>9, <1>10, <1>11 DEF TokenizeExec, written

(* The field codes are dropped from the tokens as from the arguments.       *)
LEMMA KeptTokens ==
    ASSUME NEW s \in Seq(Arguments)
    PROVE  /\ Kept(Tokens(s)) = Tokens(Without(s, CodeArguments))
           /\ Without(s, CodeArguments) \in Seq(Arguments)
           /\ \A i \in DOMAIN Without(s, CodeArguments) :
                Without(s, CodeArguments)[i] \notin CodeArguments
<1> DEFINE tokens == Tokens(s)
           n == Len(s)
           D == Seq(Chars)
<1>1. n \in Nat /\ \A i \in 1..n : s[i] \in Arguments
  OBVIOUS
<1>2. \A i \in 1..n : tokens[i] = Doubled(s[i])
  BY DEF Tokens
<1>3. tokens \in Seq(D) /\ Len(tokens) = n
  <2>1. \A i \in 1..n : Doubled(s[i]) \in D
    BY <1>1, BodyIsRead
  <2> HIDE DEF D
  <2>2. tokens \in [1..n -> D]
    BY <2>1 DEF Tokens
  <2> HIDE DEF tokens
  <2>3. QED
    BY <1>1, <2>2
<1> HIDE DEF tokens, D
<1>4. PICK r : /\ r[0] = <<>>
               /\ \A i \in 1..n :
                    r[i] = IF tokens[i] \in Codes THEN r[i - 1] ELSE Append(r[i - 1], tokens[i])
               /\ Without(tokens, Codes) = r[n]
  BY <1>3, WithoutTurns
<1>5. PICK m : /\ m[0] = <<>>
               /\ \A i \in 1..n :
                    m[i] = IF s[i] \in CodeArguments THEN m[i - 1] ELSE Append(m[i - 1], s[i])
               /\ Without(s, CodeArguments) = m[n]
  BY WithoutTurns
<1> DEFINE Rest == Arguments \ CodeArguments
           Good == {i \in Nat : i <= n => r[i] = Tokens(m[i]) /\ m[i] \in Seq(Rest)}
<1> HIDE DEF n
<1>6. 0 \in Good
  BY <1>4, <1>5 DEF Tokens
<1>7. ASSUME NEW i \in Nat, i \in Good PROVE i + 1 \in Good
  <2>1. SUFFICES ASSUME i + 1 <= n PROVE r[i + 1] = Tokens(m[i + 1]) /\ m[i + 1] \in Seq(Rest)
    OBVIOUS
  <2>2. i + 1 \in 1..n /\ (i + 1) - 1 = i /\ i <= n
    BY <1>1, <2>1
  <2> DEFINE a == s[i + 1]
             q == m[i]
  <2>3. r[i] = Tokens(q) /\ q \in Seq(Rest)
    BY <1>7, <2>2
  <2>4. a \in Arguments /\ tokens[i + 1] = Doubled(a)
    BY <1>1, <1>2, <2>2
  <2>5. Doubled(a) \in Codes <=> a \in CodeArguments
    BY <2>4, DoubledBegins
  <2>6. r[i + 1] = IF Doubled(a) \in Codes THEN Tokens(q) ELSE Append(Tokens(q), Doubled(a))
    <3>1. r[i + 1] = IF tokens[i + 1] \in Codes THEN r[(i + 1) - 1]
                     ELSE Append(r[(i + 1) - 1], tokens[i + 1])
      BY <1>4, <2>2
    <3>2. QED
      BY <2>2, <2>3, <2>4, <3>1
  <2>7. m[i + 1] = IF a \in CodeArguments THEN q ELSE Append(q, a)
    <3>1. m[i + 1] = IF s[i + 1] \in CodeArguments THEN m[(i + 1) - 1]
                     ELSE Append(m[(i + 1) - 1], s[i + 1])
      BY <1>5, <2>2
    <3>2. QED
      BY <2>2, <3>1
  <2> HIDE DEF a, q
  <2>8. CASE a \in CodeArguments
    BY <2>3, <2>5, <2>6, <2>7, <2>8
  <2>9. CASE a \notin CodeArguments
    <3>1. a \in Rest
      BY <2>4, <2>9
    <3>2. Append(q, a) \in Seq(Rest) /\ q \in Seq(Arguments)
      <4>1. \A t : t \in Seq(Rest) => t \in Seq(Arguments)
        OBVIOUS
      <4> HIDE DEF Rest
      <4>2. QED
        BY <2>3, <3>1, <4>1
    <3>3. Append(Tokens(q), Doubled(a)) = Tokens(Append(q, a))
      BY <2>4, <3>2, TokensGrow
    <3>4. QED
      BY <2>5, <2>6, <2>7, <2>9, <3>2, <3>3
  <2>10. QED
    BY <2>8, <2>9
<1>8. n \in Good
  <2> HIDE DEF Good
  <2>1. QED
    BY <1>1, <1>6, <1>7, StepInduction
<1> DEFINE meant == Without(s, CodeArguments)
<1>9. r[n] = Tokens(meant) /\ meant \in Seq(Rest)
  BY <1>1, <1>5, <1>8
<1>10. meant \in Seq(Arguments) /\ \A i \in DOMAIN meant : meant[i] \notin CodeArguments
  <2> HIDE DEF meant
  <2>1. QED
    BY <1>9
<1>11. QED
  BY <1>4, <1>9, <1>10 DEF Kept, tokens

(* In whichever form its arguments are written, the command is as meant.    *)
LEMMA CommandComesBack ==
    ASSUME argv \in Seq(Arguments) PROVE ArgvComesBack
<1> DEFINE meant == Without(argv, CodeArguments)
           kept == Kept(TokenizeExec(Line))
<1>1. kept = Tokens(meant)
  BY LineIsRead, KeptTokens DEF Line
<1>2. meant \in Seq(Arguments) /\ \A i \in DOMAIN meant : meant[i] \notin CodeArguments
  BY KeptTokens
<1> HIDE DEF meant
<1>3. DOMAIN kept = DOMAIN meant
  BY <1>1, <1>2 DEF Tokens
<1>4. ASSUME NEW i \in DOMAIN meant PROVE UnescapePercent(kept[i]) = meant[i].word
  <2>1. kept[i] = Doubled(meant[i]) /\ meant[i] \in Arguments
    BY <1>1, <1>2 DEF Tokens
  <2> DEFINE a == meant[i]
  <2>2. a \in Arguments /\ a \notin CodeArguments
    BY <1>2, <2>1
  <2> HIDE DEF a
  <2>3. UnescapePercent(Doubled(a)) = a.word
    BY <2>2, DoubledComesBack
  <2>4. QED
    BY <2>1, <2>3 DEF a
<1>5. SplitExec(Line) = [i \in DOMAIN kept |-> UnescapePercent(kept[i])]
  BY DEF SplitExec
<1> HIDE DEF kept
<1>6. SplitExec(Line) = [i \in DOMAIN meant |-> meant[i].word]
  BY <1>3, <1>4, <1>5
<1>7. QED
  BY <1>6 DEF ArgvComesBack, meant

-----------------------------------------------------------------------------
(* The sessions.                                                           *)

(* The lines of a file, one at a time: the fields of an entry are what the *)
(* lines read so far say last.                                             *)
LEMMA EntryTurns ==
    ASSUME NEW lines, Len(lines) \in Nat
    PROVE  \E e : /\ e[0] = Empty
                  /\ \A i \in 1..Len(lines) : e[i] = Parsed(e[i - 1], lines[i])
                  /\ Entry(lines) = e[Len(lines)]
<1> DEFINE n == Len(lines)
           Turn(r, i) == IF i = 0 THEN Empty ELSE Parsed(r[i - 1], lines[i])
           Loop(r, m) == r = [i \in 0..m |-> Turn(r, i)]
           S == {m \in Nat : \E r : Loop(r, m)}
           entry == CHOOSE r : Loop(r, n)
<1>1. Entry(lines) = entry[n]
  BY DEF Entry
<1> HIDE DEF n
<1>2. 0 \in S
  <2> DEFINE r == [i \in 0..0 |-> Empty]
  <2>1. Loop(r, 0)
    OBVIOUS
  <2> HIDE DEF r
  <2>2. QED
    BY <2>1
<1>3. ASSUME NEW m \in Nat, m \in S PROVE m + 1 \in S
  <2>1. PICK r : Loop(r, m)
    BY <1>3
  <2> DEFINE more == [i \in 0..(m + 1) |-> IF i <= m THEN r[i] ELSE Turn(r, m + 1)]
  <2>2. ASSUME NEW i \in 0..(m + 1) PROVE more[i] = Turn(more, i)
    <3>1. CASE i = 0
      BY <2>1, <3>1
    <3>2. CASE i # 0
      <4>1. i - 1 \in 0..m /\ more[i - 1] = r[i - 1]
        BY <3>2
      <4>2. Turn(more, i) = Turn(r, i)
        BY <4>1
      <4>3. i <= m => r[i] = Turn(r, i)
        <5> HIDE DEF Turn
        <5>1. QED
          BY <2>1
      <4>4. more[i] = Turn(r, i)
        <5> HIDE DEF Turn
        <5>1. QED
          BY <4>3
      <4>5. QED
        BY <4>2, <4>4
    <3>3. QED
      BY <3>1, <3>2
  <2>3. more = [i \in 0..(m + 1) |-> more[i]]
    OBVIOUS
  <2> HIDE DEF more, Turn
  <2>4. Loop(more, m + 1)
    BY <2>2, <2>3
  <2>5. QED
    BY <2>4
<1>4. n \in S
  <2> HIDE DEF S
  <2>1. QED
    BY <1>2, <1>3, StepInduction DEF n
<1>5. Loop(entry, n)
  <2> HIDE DEF Loop
  <2>1. QED
    BY <1>4
<1> HIDE DEF entry, Turn
<1>6. \A i \in 0..n : entry[i] = Turn(entry, i)
  BY <1>5
<1>7. entry[0] = Empty /\ \A i \in 1..n : entry[i] = Parsed(entry[i - 1], lines[i])
  BY <1>6 DEF Turn, n
<1>8. QED
  BY <1>1, <1>7 DEF n

(* The section that the first i lines end in is the one of the entry.      *)
Inside(lines, i) == \E j \in 1..i :
    /\ lines[j] = Key("section", "true")
    /\ \A k \in (j + 1)..i : lines[k].key # "section"

(* The lines among the first i that give a key a value, and the last one.  *)
Sofar(lines, key, i) == {j \in Given(lines, key) : j <= i}

LastSofar(lines, key, value, i) == \E j \in Sofar(lines, key, i) :
    /\ lines[j].value = value
    /\ \A k \in Sofar(lines, key, i) : k <= j

(* A header decides which section the lines after it are in, until the     *)
(* next header (in_desktop_entry).                                         *)
LEMMA InsideNext ==
    ASSUME NEW lines, NEW i \in Nat
    PROVE  /\ lines[i + 1].key = "section" =>
                (Inside(lines, i + 1) <=> lines[i + 1] = Key("section", "true"))
           /\ lines[i + 1].key # "section" =>
                /\ Inside(lines, i + 1) <=> Inside(lines, i)
                /\ InSection(lines, i + 1) <=> Inside(lines, i)
<1>1. Key("section", "true").key = "section"
  BY DEF Key
<1>2. ASSUME lines[i + 1].key = "section"
      PROVE  Inside(lines, i + 1) <=> lines[i + 1] = Key("section", "true")
  <2>1. ASSUME lines[i + 1] = Key("section", "true") PROVE Inside(lines, i + 1)
    <3>1. i + 1 \in 1..(i + 1) /\ ((i + 1) + 1)..(i + 1) = {}
      OBVIOUS
    <3>2. QED
      BY <2>1, <3>1 DEF Inside
  <2>2. ASSUME Inside(lines, i + 1) PROVE lines[i + 1] = Key("section", "true")
    <3>1. PICK j \in 1..(i + 1) : /\ lines[j] = Key("section", "true")
                                  /\ \A k \in (j + 1)..(i + 1) : lines[k].key # "section"
      BY <2>2 DEF Inside
    <3>2. i + 1 \notin (j + 1)..(i + 1)
      BY <1>2, <3>1
    <3>3. j = i + 1
      BY <3>2
    <3>4. QED
      BY <3>1, <3>3
  <2>3. QED
    BY <2>1, <2>2
<1>3. ASSUME lines[i + 1].key # "section"
      PROVE  /\ Inside(lines, i + 1) <=> Inside(lines, i)
             /\ InSection(lines, i + 1) <=> Inside(lines, i)
  <2> DEFINE Opens(j) == /\ lines[j] = Key("section", "true")
                         /\ \A k \in (j + 1)..i : lines[k].key # "section"
             Stays(j) == /\ lines[j] = Key("section", "true")
                         /\ \A k \in (j + 1)..(i + 1) : lines[k].key # "section"
  <2>1. ASSUME NEW j \in 1..(i + 1), Stays(j) PROVE j \in 1..i /\ Opens(j)
    <3>1. j # i + 1
      BY <1>1, <1>3, <2>1
    <3>2. j \in 1..i /\ \A k \in (j + 1)..i : k \in (j + 1)..(i + 1)
      BY <3>1
    <3>3. QED
      BY <2>1, <3>2
  <2>2. ASSUME NEW j \in 1..i, Opens(j) PROVE j \in 1..(i + 1) /\ Stays(j)
    <3>1. \A k \in (j + 1)..(i + 1) : k = i + 1 \/ k \in (j + 1)..i
      OBVIOUS
    <3>2. Stays(j)
      BY <1>3, <2>2, <3>1
    <3>3. QED
      BY <3>2
  <2>3. /\ Inside(lines, i) <=> \E j \in 1..i : Opens(j)
        /\ Inside(lines, i + 1) <=> \E j \in 1..(i + 1) : Stays(j)
    BY DEF Inside
  <2>4. InSection(lines, i + 1) <=> \E j \in 1..i : Stays(j)
    <3>1. (i + 1) - 1 = i
      OBVIOUS
    <3>2. QED
      BY <3>1 DEF InSection
  <2> HIDE DEF Opens, Stays
  <2>5. \A j \in 1..i : j \in 1..(i + 1)
    OBVIOUS
  <2>6. QED
    BY <2>1, <2>2, <2>3, <2>4, <2>5
<1>4. QED
  BY <1>2, <1>3

(* A line that gives the key is the last one; any other changes nothing.   *)
LEMMA SofarNext ==
    ASSUME NEW lines, NEW i \in Nat, NEW key, DOMAIN lines \subseteq Nat
    PROVE  /\ i + 1 \in Given(lines, key) =>
                /\ Sofar(lines, key, i + 1) # {}
                /\ \A value : LastSofar(lines, key, value, i + 1) <=> lines[i + 1].value = value
           /\ i + 1 \notin Given(lines, key) => Sofar(lines, key, i + 1) = Sofar(lines, key, i)
<1>1. Given(lines, key) \subseteq Nat
  BY DEF Given
<1>2. ASSUME i + 1 \in Given(lines, key), NEW value
      PROVE  LastSofar(lines, key, value, i + 1) <=> lines[i + 1].value = value
  <2>1. i + 1 \in Sofar(lines, key, i + 1)
    BY <1>2 DEF Sofar
  <2>2. \A j \in Sofar(lines, key, i + 1) : j \in Nat /\ j <= i + 1
    BY <1>1 DEF Sofar
  <2>3. ASSUME NEW j \in Sofar(lines, key, i + 1),
               \A k \in Sofar(lines, key, i + 1) : k <= j
        PROVE  j = i + 1
    <3>1. i + 1 <= j /\ j \in Nat /\ j <= i + 1
      BY <2>1, <2>2, <2>3
    <3>2. QED
      BY <3>1
  <2>4. QED
    BY <2>1, <2>2, <2>3 DEF LastSofar
<1>3. ASSUME i + 1 \in Given(lines, key) PROVE Sofar(lines, key, i + 1) # {}
  BY <1>3 DEF Sofar
<1>4. ASSUME i + 1 \notin Given(lines, key)
      PROVE  Sofar(lines, key, i + 1) = Sofar(lines, key, i)
  <2>1. \A j \in Given(lines, key) : j <= i + 1 <=> j <= i
    BY <1>1, <1>4
  <2>2. QED
    BY <2>1 DEF Sofar
<1>5. QED
  BY <1>2, <1>3, <1>4

Entries == [inside : BOOLEAN, name : {"none", "text", ""}, exec : {"none", "text", ""},
            tryExec : {"", "found", "missing"}, hidden : BOOLEAN, noDisplay : BOOLEAN]

Follows(e, lines, i) ==
    /\ e \in Entries
    /\ e.inside <=> Inside(lines, i)
    /\ e.name # "none" <=> Sofar(lines, "Name", i) # {}
    /\ e.exec # "none" <=> Sofar(lines, "Exec", i) # {}
    /\ e.hidden <=> LastSofar(lines, "Hidden", "true", i)
    /\ e.noDisplay <=> LastSofar(lines, "NoDisplay", "true", i)
    /\ e.tryExec = "missing" <=> LastSofar(lines, "TryExec", "missing", i)

(* One line of a file.                                                     *)
LEMMA ParsedFollows ==
    ASSUME NEW lines \in Seq(Lines), NEW i \in Nat, i + 1 <= Len(lines),
           NEW e, Follows(e, lines, i)
    PROVE  Follows(Parsed(e, lines[i + 1]), lines, i + 1)
<1> DEFINE line == lines[i + 1]
           p == Parsed(e, line)
           Same(key) == /\ Sofar(lines, key, i + 1) = Sofar(lines, key, i)
                        /\ \A value : LastSofar(lines, key, value, i + 1) <=>
                                      LastSofar(lines, key, value, i)
           Set(key) == /\ Sofar(lines, key, i + 1) # {}
                       /\ \A value : LastSofar(lines, key, value, i + 1) <=> line.value = value
<1>1. DOMAIN lines \subseteq Nat /\ i + 1 \in DOMAIN lines /\ line \in Lines
  OBVIOUS
<1>2. /\ line.key \in {"section", "Name", "Exec", "Hidden", "NoDisplay", "TryExec"}
      /\ line.key \in {"section", "Hidden", "NoDisplay"} => line.value \in {"true", "false"}
      /\ line.key \in {"Name", "Exec"} => line.value \in {"text", ""}
      /\ line.key = "TryExec" => line.value \in {"found", "missing", ""}
      /\ line.key = "section" => (line = Key("section", "true") <=> line.value = "true")
  <2> HIDE DEF line
  <2>1. CASE line \in [key : {"section", "Hidden", "NoDisplay"}, value : {"true", "false"}]
    <3>1. line = [key |-> line.key, value |-> line.value]
      BY <2>1
    <3>2. line.key \in {"section", "Hidden", "NoDisplay"} /\ line.value \in {"true", "false"}
      BY <2>1
    <3>3. line.key = "section" => (line = Key("section", "true") <=> line.value = "true")
      BY <3>1 DEF Key
    <3>4. QED
      BY <3>2, <3>3
  <2>2. CASE line \in [key : {"Name", "Exec"}, value : {"text", ""}]
    BY <2>2
  <2>3. CASE line \in [key : {"TryExec"}, value : {"found", "missing", ""}]
    BY <2>3
  <2>4. QED
    BY <1>1, <2>1, <2>2, <2>3 DEF Lines
<1>3. ASSUME NEW key
      PROVE  i + 1 \in Given(lines, key) <=>
                /\ line.key = key
                /\ key = "TryExec" => line.value # ""
                /\ InSection(lines, i + 1)
  BY <1>1 DEF Given
<1>4. ASSUME NEW key, \/ line.key # key
                      \/ key = "TryExec" /\ line.value = ""
                      \/ ~InSection(lines, i + 1)
      PROVE  Same(key)
  <2>1. Sofar(lines, key, i + 1) = Sofar(lines, key, i)
    BY <1>1, <1>3, <1>4, SofarNext
  <2>2. QED
    BY <2>1 DEF LastSofar
<1>5. ASSUME NEW key, line.key = key, key = "TryExec" => line.value # "",
             InSection(lines, i + 1)
      PROVE  Set(key)
  BY <1>1, <1>3, <1>5, SofarNext
<1>6. /\ line.key = "section" => (Inside(lines, i + 1) <=> line = Key("section", "true"))
      /\ line.key # "section" => /\ Inside(lines, i + 1) <=> Inside(lines, i)
                                 /\ InSection(lines, i + 1) <=> Inside(lines, i)
  BY InsideNext
<1>7. /\ e \in Entries
      /\ e.inside <=> Inside(lines, i)
      /\ e.name # "none" <=> Sofar(lines, "Name", i) # {}
      /\ e.exec # "none" <=> Sofar(lines, "Exec", i) # {}
      /\ e.hidden <=> LastSofar(lines, "Hidden", "true", i)
      /\ e.noDisplay <=> LastSofar(lines, "NoDisplay", "true", i)
      /\ e.tryExec = "missing" <=> LastSofar(lines, "TryExec", "missing", i)
  BY DEF Follows
<1> HIDE DEF line, Same, Set
<1>8. CASE line.key = "section"
  <2>1. p = [e EXCEPT !.inside = line.value = "true"]
    BY <1>8 DEF Parsed
  <2>2. /\ p \in Entries /\ (p.inside <=> line.value = "true")
        /\ p.name = e.name /\ p.exec = e.exec /\ p.hidden = e.hidden
        /\ p.noDisplay = e.noDisplay /\ p.tryExec = e.tryExec
    BY <1>7, <2>1 DEF Entries
  <2>3. Same("Name") /\ Same("Exec") /\ Same("Hidden") /\ Same("NoDisplay") /\ Same("TryExec")
    BY <1>4, <1>8
  <2> HIDE DEF p
  <2>4. p.inside <=> Inside(lines, i + 1)
    BY <1>2, <1>6, <1>8, <2>2
  <2>5. QED
    BY <1>7, <2>2, <2>3, <2>4 DEF Follows, Same, p, line
<1>9. CASE line.key # "section" /\ ~e.inside
  <2>1. p = e
    BY <1>2, <1>9 DEF Parsed
  <2>2. ~InSection(lines, i + 1)
    BY <1>6, <1>7, <1>9
  <2>3. Same("Name") /\ Same("Exec") /\ Same("Hidden") /\ Same("NoDisplay") /\ Same("TryExec")
    BY <1>4, <2>2
  <2>4. e.inside <=> Inside(lines, i + 1)
    BY <1>6, <1>7, <1>9
  <2> HIDE DEF p
  <2>5. QED
    BY <1>7, <2>1, <2>3, <2>4 DEF Follows, Same, p, line
<1>10. CASE line.key # "section" /\ e.inside
  <2>1. InSection(lines, i + 1) /\ (e.inside <=> Inside(lines, i + 1))
    BY <1>6, <1>7, <1>10
  <2>2. CASE line.key = "Name"
    <3>1. p = [e EXCEPT !.name = line.value]
      BY <1>10, <2>2 DEF Parsed
    <3>2. /\ p \in Entries /\ p.name # "none" /\ p.inside = e.inside
          /\ p.exec = e.exec /\ p.hidden = e.hidden
          /\ p.noDisplay = e.noDisplay /\ p.tryExec = e.tryExec
      BY <1>2, <1>7, <2>2, <3>1 DEF Entries
    <3>3. Same("Exec") /\ Same("Hidden") /\ Same("NoDisplay") /\ Same("TryExec")
      BY <1>4, <2>2
    <3>4. Set("Name")
      BY <1>2, <1>5, <2>1, <2>2
    <3> HIDE DEF p
    <3>5. QED
      BY <1>7, <2>1, <3>2, <3>3, <3>4 DEF Follows, Same, Set, p, line
  <2>3. CASE line.key = "Exec"
    <3>1. p = [e EXCEPT !.exec = line.value]
      BY <1>10, <2>3 DEF Parsed
    <3>2. /\ p \in Entries /\ p.exec # "none" /\ p.inside = e.inside
          /\ p.name = e.name /\ p.hidden = e.hidden
          /\ p.noDisplay = e.noDisplay /\ p.tryExec = e.tryExec
      BY <1>2, <1>7, <2>3, <3>1 DEF Entries
    <3>3. Same("Name") /\ Same("Hidden") /\ Same("NoDisplay") /\ Same("TryExec")
      BY <1>4, <2>3
    <3>4. Set("Exec")
      BY <1>2, <1>5, <2>1, <2>3
    <3> HIDE DEF p
    <3>5. QED
      BY <1>7, <2>1, <3>2, <3>3, <3>4 DEF Follows, Same, Set, p, line
  <2>4. CASE line.key = "Hidden"
    <3>1. p = [e EXCEPT !.hidden = line.value = "true"]
      BY <1>10, <2>4 DEF Parsed
    <3>2. /\ p \in Entries /\ (p.hidden <=> line.value = "true") /\ p.inside = e.inside
          /\ p.name = e.name /\ p.exec = e.exec
          /\ p.noDisplay = e.noDisplay /\ p.tryExec = e.tryExec
      BY <1>7, <3>1 DEF Entries
    <3>3. Same("Name") /\ Same("Exec") /\ Same("NoDisplay") /\ Same("TryExec")
      BY <1>4, <2>4
    <3>4. Set("Hidden")
      BY <1>2, <1>5, <2>1, <2>4
    <3> HIDE DEF p
    <3>5. QED
      BY <1>7, <2>1, <3>2, <3>3, <3>4 DEF Follows, Same, Set, p, line
  <2>5. CASE line.key = "NoDisplay"
    <3>1. p = [e EXCEPT !.noDisplay = line.value = "true"]
      BY <1>10, <2>5 DEF Parsed
    <3>2. /\ p \in Entries /\ (p.noDisplay <=> line.value = "true") /\ p.inside = e.inside
          /\ p.name = e.name /\ p.exec = e.exec
          /\ p.hidden = e.hidden /\ p.tryExec = e.tryExec
      BY <1>7, <3>1 DEF Entries
    <3>3. Same("Name") /\ Same("Exec") /\ Same("Hidden") /\ Same("TryExec")
      BY <1>4, <2>5
    <3>4. Set("NoDisplay")
      BY <1>2, <1>5, <2>1, <2>5
    <3> HIDE DEF p
    <3>5. QED
      BY <1>7, <2>1, <3>2, <3>3, <3>4 DEF Follows, Same, Set, p, line
  <2>6. CASE line.key = "TryExec"
    <3>1. p = [e EXCEPT !.tryExec = IF line.value = "" THEN @ ELSE line.value]
      BY <1>10, <2>6 DEF Parsed
    <3>2. /\ p \in Entries /\ p.inside = e.inside
          /\ p.tryExec = IF line.value = "" THEN e.tryExec ELSE line.value
          /\ p.name = e.name /\ p.exec = e.exec
          /\ p.hidden = e.hidden /\ p.noDisplay = e.noDisplay
      BY <1>2, <1>7, <2>6, <3>1 DEF Entries
    <3>3. Same("Name") /\ Same("Exec") /\ Same("Hidden") /\ Same("NoDisplay")
      BY <1>4, <2>6
    <3>4. IF line.value = "" THEN Same("TryExec") ELSE Set("TryExec")
      BY <1>4, <1>5, <2>1, <2>6
    <3> HIDE DEF p
    <3>5. QED
      BY <1>7, <2>1, <3>2, <3>3, <3>4 DEF Follows, Same, Set, p, line
  <2>7. QED
    BY <1>2, <1>10, <2>2, <2>3, <2>4, <2>5, <2>6
<1>11. QED
  BY <1>7, <1>8, <1>9, <1>10

(* A file is scanned if what its section says last offers it.              *)
LEMMA ScannedIsOffered ==
    ASSUME NEW lines \in Seq(Lines)
    PROVE  Scanned(lines) <=> Offered(lines)
<1> DEFINE n == Len(lines)
<1>1. n \in Nat /\ DOMAIN lines = 1..n
  OBVIOUS
<1>2. PICK e : /\ e[0] = Empty
               /\ \A i \in 1..n : e[i] = Parsed(e[i - 1], lines[i])
               /\ Entry(lines) = e[n]
  BY <1>1, EntryTurns
<1> DEFINE Good == {i \in Nat : i <= n => Follows(e[i], lines, i)}
<1> HIDE DEF n
<1>3. \A key : Given(lines, key) \subseteq 1..n
  BY <1>1 DEF Given
<1>4. 0 \in Good
  <2>1. \A key : Sofar(lines, key, 0) = {}
    BY <1>3 DEF Sofar
  <2>2. ~Inside(lines, 0)
    BY DEF Inside
  <2>3. \A key, value : ~LastSofar(lines, key, value, 0)
    BY <2>1 DEF LastSofar
  <2>4. /\ Empty \in Entries
        /\ ~Empty.inside /\ Empty.name = "none" /\ Empty.exec = "none" /\ ~Empty.hidden
        /\ ~Empty.noDisplay /\ Empty.tryExec # "missing"
    BY DEF Empty, Entries
  <2>5. Follows(Empty, lines, 0)
    BY <2>1, <2>2, <2>3, <2>4 DEF Follows
  <2>6. QED
    BY <1>2, <2>5
<1>5. ASSUME NEW i \in Nat, i \in Good PROVE i + 1 \in Good
  <2>1. SUFFICES ASSUME i + 1 <= n PROVE Follows(e[i + 1], lines, i + 1)
    OBVIOUS
  <2>2. i + 1 \in 1..n /\ (i + 1) - 1 = i /\ i <= n
    BY <1>1, <2>1
  <2>3. e[i + 1] = Parsed(e[i], lines[i + 1])
    BY <1>2, <2>2
  <2>4. Follows(e[i], lines, i)
    BY <1>5, <2>2
  <2>5. QED
    BY <2>1, <2>3, <2>4, ParsedFollows DEF n
<1>6. Follows(e[n], lines, n)
  <2>1. n \in Good
    <3> HIDE DEF Good
    <3>1. QED
      BY <1>1, <1>4, <1>5, StepInduction
  <2>2. QED
    BY <1>1, <2>1
<1>7. \A key : Sofar(lines, key, n) = Given(lines, key)
  BY <1>1, <1>3 DEF Sofar
<1>8. \A key, value : LastSofar(lines, key, value, n) <=> LastIs(lines, key, value)
  BY <1>7 DEF LastSofar, LastIs
<1>9. QED
  BY <1>2, <1>6, <1>7, <1>8 DEF Follows, Offered, Scanned

(* Where each element of a flat sequence comes from, in the order in which *)
(* the first m of its parts are put together.                              *)
Placed(f, origin, place, seqs, m) ==
    /\ origin \in [1..Len(f) -> 1..m]
    /\ place \in [1..Len(f) -> Nat]
    /\ \A k \in 1..Len(f) : /\ place[k] \in 1..Len(seqs[origin[k]])
                            /\ f[k] = seqs[origin[k]][place[k]]
    /\ \A k, l \in 1..Len(f) : k < l =>
          origin[k] < origin[l] \/ (origin[k] = origin[l] /\ place[k] < place[l])
    /\ \A i \in 1..m : \A j \in 1..Len(seqs[i]) :
          \E k \in 1..Len(f) : origin[k] = i /\ place[k] = j

(* The next part.                                                          *)
LEMMA PlacedNext ==
    ASSUME NEW T, NEW n \in Nat, NEW seqs \in [1..n -> Seq(T)], NEW m \in Nat, m + 1 <= n,
           NEW f \in Seq(T), NEW origin, NEW place, Placed(f, origin, place, seqs, m)
    PROVE  \E o, w : Placed(f \o seqs[m + 1], o, w, seqs, m + 1)
<1> DEFINE a == Len(f)
           s == seqs[m + 1]
           b == Len(s)
           fs == f \o s
           o == [k \in 1..(a + b) |-> IF k <= a THEN origin[k] ELSE m + 1]
           w == [k \in 1..(a + b) |-> IF k <= a THEN place[k] ELSE k - a]
<1>1. s \in Seq(T)
  OBVIOUS
<1>2. /\ a \in Nat /\ b \in Nat /\ Len(fs) = a + b
      /\ \A k \in 1..a : fs[k] = f[k]
      /\ \A k \in 1..b : fs[a + k] = s[k]
  <2> HIDE DEF s
  <2>1. QED
    BY <1>1
<1>3. /\ origin \in [1..a -> 1..m]
      /\ place \in [1..a -> Nat]
      /\ \A k \in 1..a : place[k] \in 1..Len(seqs[origin[k]]) /\ f[k] = seqs[origin[k]][place[k]]
      /\ \A k, l \in 1..a : k < l =>
            origin[k] < origin[l] \/ (origin[k] = origin[l] /\ place[k] < place[l])
      /\ \A i \in 1..m : \A j \in 1..Len(seqs[i]) :
            \E k \in 1..a : origin[k] = i /\ place[k] = j
  BY DEF Placed
<1> HIDE DEF a, b, fs, s
<1>4. ASSUME NEW k \in 1..(a + b)
      PROVE  \/ k \in 1..a /\ o[k] = origin[k] /\ w[k] = place[k] /\ o[k] \in 1..m
             \/ k > a /\ k - a \in 1..b /\ o[k] = m + 1 /\ w[k] = k - a
  BY <1>2, <1>3
<1>5. o \in [1..(a + b) -> 1..(m + 1)] /\ w \in [1..(a + b) -> Nat]
  <2>1. ASSUME NEW k \in 1..(a + b) PROVE o[k] \in 1..(m + 1)
    BY <1>4
  <2>2. ASSUME NEW k \in 1..(a + b) PROVE w[k] \in Nat
    BY <1>2, <1>3, <1>4
  <2>3. QED
    BY <2>1, <2>2
<1> HIDE DEF o, w
<1>6. ASSUME NEW k \in 1..(a + b)
      PROVE  w[k] \in 1..Len(seqs[o[k]]) /\ fs[k] = seqs[o[k]][w[k]]
  <2>1. CASE k \in 1..a /\ o[k] = origin[k] /\ w[k] = place[k]
    BY <1>2, <1>3, <2>1
  <2>2. CASE k > a /\ k - a \in 1..b /\ o[k] = m + 1 /\ w[k] = k - a
    <3>1. a + (k - a) = k
      BY <1>2
    <3>2. fs[a + (k - a)] = s[k - a]
      BY <1>2, <2>2
    <3>3. QED
      BY <2>2, <3>1, <3>2 DEF s, b
  <2>3. QED
    BY <1>4, <2>1, <2>2
<1>7. ASSUME NEW k \in 1..(a + b), NEW l \in 1..(a + b), k < l
      PROVE  o[k] < o[l] \/ (o[k] = o[l] /\ w[k] < w[l])
  <2>1. CASE l \in 1..a
    <3>1. k \in 1..a
      BY <1>2, <1>7, <2>1
    <3>2. QED
      BY <1>2, <1>3, <1>4, <1>7, <2>1, <3>1
  <2>2. CASE l > a /\ k > a
    <3>1. l \notin 1..a /\ k \notin 1..a
      BY <1>2, <2>2
    <3>2. o[l] = m + 1 /\ w[l] = l - a /\ o[k] = m + 1 /\ w[k] = k - a
      BY <1>4, <3>1
    <3>3. k - a < l - a
      BY <1>2, <1>7
    <3>4. QED
      BY <3>2, <3>3
  <2>3. CASE l > a /\ k \in 1..a
    <3>1. o[l] = m + 1 /\ o[k] \in 1..m
      BY <1>2, <1>4, <2>3
    <3>2. QED
      BY <3>1
  <2>4. QED
    BY <1>2, <2>1, <2>2, <2>3
<1>8. ASSUME NEW i \in 1..(m + 1), NEW j \in 1..Len(seqs[i])
      PROVE  \E k \in 1..(a + b) : o[k] = i /\ w[k] = j
  <2>1. CASE i \in 1..m
    <3>1. PICK k \in 1..a : origin[k] = i /\ place[k] = j
      BY <1>3, <2>1
    <3>2. k \in 1..(a + b) /\ ~(k > a)
      BY <1>2, <3>1
    <3>3. QED
      BY <1>4, <3>1, <3>2
  <2>2. CASE i = m + 1
    <3>1. j \in 1..b
      BY <1>8, <2>2 DEF b, s
    <3>2. a + j \in 1..(a + b) /\ a + j > a /\ (a + j) - a = j
      BY <1>2, <3>1
    <3>3. o[a + j] = m + 1 /\ w[a + j] = j
      <4> DEFINE k == a + j
      <4>1. k \in 1..(a + b) /\ k \notin 1..a /\ k - a = j
        BY <1>2, <3>2
      <4> HIDE DEF k
      <4>2. QED
        BY <1>4, <4>1 DEF k
    <3>4. QED
      BY <2>2, <3>2, <3>3
  <2>3. QED
    BY <2>1, <2>2
<1>9. Placed(fs, o, w, seqs, m + 1)
  BY <1>2, <1>5, <1>6, <1>7, <1>8 DEF Placed
<1>10. QED
  BY <1>9 DEF fs, s

(* list: of a sequence put together of parts, each element has its part    *)
(* and its place there, and they are in that order.                        *)
LEMMA FlattenPlaces ==
    ASSUME NEW T, NEW n, NEW seqs, Parted(seqs, n, T)
    PROVE  /\ FlattenSeq(seqs) \in Seq(T)
           /\ \E o, w : Placed(FlattenSeq(seqs), o, w, seqs, n)
<1>1. n \in Nat /\ seqs \in [1..n -> Seq(T)]
  BY DEF Parted
<1>2. PICK f : /\ f[0] = <<>>
               /\ \A i \in 0..n : f[i] \in Seq(T)
               /\ \A i \in 1..n : f[i] = f[i - 1] \o seqs[i]
               /\ FlattenSeq(seqs) = f[n]
  <2>1. PICK f : Joined(f, seqs, n, T)
    BY FlattenTurns
  <2>2. QED
    BY <2>1 DEF Joined
<1> DEFINE Good == {m \in Nat : m <= n => \E o, w : Placed(f[m], o, w, seqs, m)}
<1>3. 0 \in Good
  <2> DEFINE none == [k \in 1..0 |-> 0]
  <2>1. none \in [1..0 -> 1..0] /\ none \in [1..0 -> Nat]
    OBVIOUS
  <2>2. Placed(<<>>, none, none, seqs, 0)
    BY <2>1 DEF Placed
  <2>3. QED
    BY <1>2, <2>2
<1>4. ASSUME NEW m \in Nat, m \in Good PROVE m + 1 \in Good
  <2>1. SUFFICES ASSUME m + 1 <= n PROVE \E o, w : Placed(f[m + 1], o, w, seqs, m + 1)
    OBVIOUS
  <2>2. m + 1 \in 1..n /\ (m + 1) - 1 = m /\ m \in 0..n /\ m <= n
    BY <1>1, <2>1
  <2>3. PICK o, w : Placed(f[m], o, w, seqs, m)
    BY <1>4, <2>2
  <2> DEFINE q == f[m]
  <2>4. q \in Seq(T) /\ f[m + 1] = q \o seqs[m + 1] /\ Placed(q, o, w, seqs, m)
    BY <1>2, <2>2, <2>3
  <2> HIDE DEF q
  <2>5. \E u, v : Placed(q \o seqs[m + 1], u, v, seqs, m + 1)
    BY <1>1, <2>1, <2>4, PlacedNext
  <2>6. QED
    BY <2>4, <2>5
<1>5. \E o, w : Placed(f[n], o, w, seqs, n)
  <2>1. n \in Good
    <3> HIDE DEF Good
    <3>1. QED
      BY <1>1, <1>3, <1>4, StepInduction
  <2>2. QED
    BY <1>1, <2>1
<1>6. n \in 0..n
  BY <1>1
<1>7. QED
  BY <1>2, <1>5, <1>6

(* scan_dir, sort_by: a finite set of stems can be listed from the least   *)
(* to the greatest.                                                        *)
LEMMA CountedInOrder ==
    ASSUME NEW S, IsFiniteSet(S), S \subseteq Nat
    PROVE  /\ Cardinality(S) \in Nat
           /\ \E s \in Bijection(1..Cardinality(S), S) :
                \A i, j \in 1..Cardinality(S) : i < j => s[i] < s[j]
<1> DEFINE n == Cardinality(S)
           R == {p \in Nat \X Nat : p[1] < p[2]}
<1>1. n \in Nat /\ \E b : b \in Bijection(1..n, S)
  BY FS_CardinalityType DEF ExistsBijection
<1>2. PICK b : b \in Bijection(1..n, S)
  BY <1>1
<1> HIDE DEF n
<1>3. /\ b \in [1..n -> S]
      /\ \A i, j \in 1..n : b[i] = b[j] => i = j
      /\ \A x \in S : \E i \in 1..n : b[i] = x
  BY <1>2, OneToOne
<1>4. b \in [1..n -> Nat]
  BY <1>3
<1>5. \A x, y \in Nat : <<x, y>> \in R <=> x < y
  OBVIOUS
<1>6. Ordering(R, Nat)
  <2> HIDE DEF R
  <2>1. \A x, y \in Nat : <<x, y>> \in R => <<y, x>> \notin R
    BY <1>5
  <2>2. \A x, y, z \in Nat : <<x, y>> \notin R /\ <<y, z>> \notin R => <<x, z>> \notin R
    BY <1>5
  <2>3. QED
    BY <2>1, <2>2 DEF Ordering
<1> HIDE DEF R
<1>7. PICK p : InOrder(p, b, R, n)
  BY <1>1, <1>4, <1>6, OrderExists
<1>8. /\ p \in [1..n -> 1..n]
      /\ \A i, j \in 1..n : p[i] = p[j] => i = j
      /\ \A k \in 1..n : \E i \in 1..n : p[i] = k
      /\ \A i, j \in 1..n : i < j => <<b[p[j]], b[p[i]]>> \notin R
  BY <1>7, OneToOne DEF InOrder
<1> DEFINE s == [i \in 1..n |-> b[p[i]]]
<1>9. /\ s \in [1..n -> S]
      /\ \A i, j \in 1..n : s[i] = s[j] => i = j
      /\ \A x \in S : \E i \in 1..n : s[i] = x
  <2>1. \A i \in 1..n : p[i] \in 1..n /\ b[p[i]] \in S
    BY <1>3, <1>8
  <2>2. s \in [1..n -> S] /\ \A i \in 1..n : s[i] = b[p[i]]
    BY <2>1
  <2> HIDE DEF s
  <2>3. ASSUME NEW i \in 1..n, NEW j \in 1..n, s[i] = s[j] PROVE i = j
    <3>1. p[i] = p[j]
      BY <1>3, <2>1, <2>2, <2>3
    <3>2. QED
      BY <1>8, <3>1
  <2>4. ASSUME NEW x \in S PROVE \E i \in 1..n : s[i] = x
    <3>1. PICK k \in 1..n : b[k] = x
      BY <1>3
    <3>2. PICK i \in 1..n : p[i] = k
      BY <1>8
    <3>3. QED
      BY <2>2, <3>1, <3>2
  <2>5. QED
    BY <2>2, <2>3, <2>4
<1>10. ASSUME NEW i \in 1..n, NEW j \in 1..n, i < j PROVE s[i] < s[j]
  <2> DEFINE x == s[i]
             y == s[j]
  <2>1. x \in Nat /\ y \in Nat
    BY <1>4, <1>8
  <2>2. x # y
    BY <1>1, <1>9, <1>10
  <2>3. <<y, x>> \notin R
    BY <1>8, <1>10
  <2> HIDE DEF x, y
  <2>4. ~(y < x)
    BY <1>5, <2>1, <2>3
  <2>5. x < y
    BY <2>1, <2>2, <2>4
  <2>6. QED
    BY <2>5 DEF x, y
<1> HIDE DEF s
<1>11. s \in Bijection(1..n, S)
  BY <1>9, OneToOne
<1>12. QED
  BY <1>1, <1>10, <1>11 DEF n

(* scan_dir: the files of a directory that are offered, in the order of     *)
(* their stems.                                                             *)
LEMMA ScanDirIs ==
    ASSUME NEW dir, files \in [Range(Dirs) \X Stems -> Seq(Lines)], dir \in Range(Dirs)
    PROVE  /\ ScanDir(dir) \in Seq(Range(Dirs) \X Stems)
           /\ \A i \in 1..Len(ScanDir(dir)) :
                \E stem \in Stems : /\ ScanDir(dir)[i] = <<dir, stem>>
                                    /\ Offered(files[<<dir, stem>>])
           /\ \A i, j \in 1..Len(ScanDir(dir)) :
                i < j => ScanDir(dir)[i][2] < ScanDir(dir)[j][2]
           /\ \A stem \in Stems : Offered(files[<<dir, stem>>]) =>
                \E i \in 1..Len(ScanDir(dir)) : ScanDir(dir)[i] = <<dir, stem>>
<1> DEFINE stems == {s \in Stems : Scanned(files[<<dir, s>>])}
           n == Cardinality(stems)
           Rises(s) == \A i, j \in 1..n : i < j => s[i] < s[j]
           sorted == CHOOSE s \in Bijection(1..n, stems) : Rises(s)
           d == [i \in 1..n |-> <<dir, sorted[i]>>]
<1>1. ScanDir(dir) = d
  BY DEF ScanDir
<1>2. \A s \in Stems : Scanned(files[<<dir, s>>]) <=> Offered(files[<<dir, s>>])
  <2>1. \A s \in Stems : files[<<dir, s>>] \in Seq(Lines)
    OBVIOUS
  <2>2. QED
    BY <2>1, ScannedIsOffered
<1>3. stems \subseteq Nat /\ IsFiniteSet(stems) /\ stems \subseteq Stems
  <2>1. stems \in SUBSET Stems
    OBVIOUS
  <2> HIDE DEF stems
  <2>2. QED
    BY <2>1, SessionsAssumption, FS_Subset DEF SessionsAssumption
<1>4. \A s \in Stems : s \in stems <=> Offered(files[<<dir, s>>])
  BY <1>2
<1> HIDE DEF stems
<1>5. n \in Nat /\ \E s \in Bijection(1..n, stems) : Rises(s)
  BY <1>3, CountedInOrder
<1>6. sorted \in Bijection(1..n, stems) /\ Rises(sorted)
  <2> HIDE DEF Rises, n
  <2>1. QED
    BY <1>5
<1> HIDE DEF sorted, n
<1>7. /\ sorted \in [1..n -> stems]
      /\ \A s \in stems : \E i \in 1..n : sorted[i] = s
  BY <1>6, OneToOne
<1>8. /\ d \in [1..n -> Range(Dirs) \X Stems]
      /\ \A i \in 1..n : d[i] = <<dir, sorted[i]>> /\ d[i][2] = sorted[i]
  BY <1>3, <1>7
<1> HIDE DEF d
<1>9. d \in Seq(Range(Dirs) \X Stems) /\ Len(d) = n
  <2> DEFINE T == Range(Dirs) \X Stems
  <2>1. d \in [1..n -> T]
    BY <1>8
  <2> HIDE DEF T
  <2>2. d \in Seq(T) /\ Len(d) = n
    BY <1>5, <2>1
  <2>3. QED
    BY <2>2 DEF T
<1>10. \A i \in 1..n : \E stem \in Stems : d[i] = <<dir, stem>> /\ Offered(files[<<dir, stem>>])
  BY <1>3, <1>4, <1>7, <1>8
<1>11. \A i, j \in 1..n : i < j => d[i][2] < d[j][2]
  BY <1>6, <1>8
<1>12. ASSUME NEW stem \in Stems, Offered(files[<<dir, stem>>])
       PROVE  \E i \in 1..n : d[i] = <<dir, stem>>
  BY <1>4, <1>7, <1>8, <1>12
<1>13. QED
  BY <1>1, <1>9, <1>10, <1>11, <1>12

(* list: every file that is offered, each where its directory is            *)
(* listed first and perhaps again later, ordered by directory and stem.     *)
Listed(list, origin) ==
    /\ list \in Seq(Range(Dirs) \X Stems)
    /\ origin \in [1..Len(list) -> DOMAIN Dirs]
    /\ \A k \in 1..Len(list) : list[k][1] = Dirs[origin[k]] /\ Offered(files[list[k]])
    /\ \A k, l \in 1..Len(list) : k < l =>
          origin[k] < origin[l] \/ (origin[k] = origin[l] /\ list[k][2] < list[l][2])
    /\ \A f \in Range(Dirs) \X Stems : Offered(files[f]) =>
          \A i \in DOMAIN Dirs : Dirs[i] = f[1] =>
             \E k \in 1..Len(list) : origin[k] = i /\ list[k] = f

(* list: the scans of the directories, one after the other.                *)
LEMMA ListIs ==
    ASSUME files \in [Range(Dirs) \X Stems -> Seq(Lines)]
    PROVE  \E origin : Listed(List, origin)
<1> DEFINE T == Range(Dirs) \X Stems
           n == Len(Dirs)
           scans == [i \in DOMAIN Dirs |-> ScanDir(Dirs[i])]
           list == List
           m == Len(list)
<1>1. n \in Nat /\ DOMAIN Dirs = 1..n /\ \A i \in 1..n : Dirs[i] \in Range(Dirs)
  <2>1. Dirs \in Seq(Range(Dirs))
    BY SessionsAssumption DEF SessionsAssumption
  <2> DEFINE D == Dirs
             R == Range(Dirs)
  <2>2. D \in Seq(R)
    BY <2>1
  <2> HIDE DEF D, R
  <2>3. Len(D) \in Nat /\ DOMAIN D = 1..Len(D) /\ \A i \in 1..Len(D) : D[i] \in R
    BY <2>2
  <2>4. QED
    BY <2>3 DEF D, R
<1> HIDE DEF n
<1>2. ASSUME NEW i \in 1..n
      PROVE  /\ ScanDir(Dirs[i]) \in Seq(T)
             /\ \A j \in 1..Len(ScanDir(Dirs[i])) :
                  \E stem \in Stems : /\ ScanDir(Dirs[i])[j] = <<Dirs[i], stem>>
                                      /\ Offered(files[<<Dirs[i], stem>>])
             /\ \A j, k \in 1..Len(ScanDir(Dirs[i])) :
                  j < k => ScanDir(Dirs[i])[j][2] < ScanDir(Dirs[i])[k][2]
             /\ \A stem \in Stems : Offered(files[<<Dirs[i], stem>>]) =>
                  \E j \in 1..Len(ScanDir(Dirs[i])) : ScanDir(Dirs[i])[j] = <<Dirs[i], stem>>
  BY <1>1, ScanDirIs
<1>3. Parted(scans, n, T) /\ \A i \in 1..n : scans[i] = ScanDir(Dirs[i])
  <2> HIDE DEF T
  <2>1. QED
    BY <1>1, <1>2 DEF Parted
<1>4. list = FlattenSeq(scans)
  BY DEF List
<1> HIDE DEF scans, list
<1>5. list \in Seq(T) /\ \E o, w : Placed(list, o, w, scans, n)
  <2> HIDE DEF T
  <2>1. QED
    BY <1>3, <1>4, FlattenPlaces
<1>6. PICK o, w : Placed(list, o, w, scans, n)
  BY <1>5
<1>7. /\ o \in [1..m -> 1..n]
      /\ \A k \in 1..m : w[k] \in 1..Len(scans[o[k]]) /\ list[k] = scans[o[k]][w[k]]
      /\ \A k, l \in 1..m : k < l =>
            o[k] < o[l] \/ (o[k] = o[l] /\ w[k] < w[l])
      /\ \A i \in 1..n : \A j \in 1..Len(scans[i]) :
            \E k \in 1..m : o[k] = i /\ w[k] = j
  BY <1>6 DEF Placed
<1>8. m \in Nat /\ \A k \in 1..m : list[k] \in T
  BY <1>5
<1> HIDE DEF m
<1>9. ASSUME NEW k \in 1..m
      PROVE  list[k][1] = Dirs[o[k]] /\ Offered(files[list[k]])
  <2> DEFINE i == o[k]
             d == ScanDir(Dirs[i])
  <2>1. i \in 1..n /\ w[k] \in 1..Len(d) /\ list[k] = d[w[k]]
    BY <1>3, <1>7
  <2>2. \A j \in 1..Len(d) : \E stem \in Stems : /\ d[j] = <<Dirs[i], stem>>
                                                 /\ Offered(files[<<Dirs[i], stem>>])
    BY <1>2, <2>1
  <2> HIDE DEF d
  <2>3. PICK stem \in Stems : /\ list[k] = <<Dirs[i], stem>>
                              /\ Offered(files[<<Dirs[i], stem>>])
    BY <2>1, <2>2
  <2>4. QED
    BY <2>3
<1>10. ASSUME NEW k \in 1..m, NEW l \in 1..m, k < l
       PROVE  o[k] < o[l] \/ (o[k] = o[l] /\ list[k][2] < list[l][2])
  <2>1. CASE o[k] < o[l]
    BY <2>1
  <2>2. CASE o[k] = o[l] /\ w[k] < w[l]
    <3> DEFINE i == o[k]
               d == ScanDir(Dirs[i])
    <3>1. /\ i \in 1..n /\ o[l] = i
          /\ w[k] \in 1..Len(d) /\ list[k] = d[w[k]]
          /\ w[l] \in 1..Len(d) /\ list[l] = d[w[l]]
      BY <1>3, <1>7, <2>2
    <3>2. \A x, y \in 1..Len(d) : x < y => d[x][2] < d[y][2]
      BY <1>2, <3>1
    <3> HIDE DEF d
    <3>3. list[k][2] < list[l][2]
      BY <2>2, <3>1, <3>2
    <3>4. QED
      BY <2>2, <3>3
  <2>3. QED
    BY <1>7, <1>10, <2>1, <2>2
<1>11. ASSUME NEW f \in T, Offered(files[f]), NEW i \in 1..n, Dirs[i] = f[1]
       PROVE  \E k \in 1..m : o[k] = i /\ list[k] = f
  <2>1. f = <<Dirs[i], f[2]>> /\ f[2] \in Stems
    BY <1>11
  <2>2. PICK j \in 1..Len(ScanDir(Dirs[i])) : ScanDir(Dirs[i])[j] = f
    <3> DEFINE stem == f[2]
    <3>1. stem \in Stems /\ f = <<Dirs[i], stem>>
      BY <2>1
    <3> HIDE DEF stem
    <3>2. QED
      BY <1>2, <1>11, <3>1
  <2>3. j \in 1..Len(scans[i]) /\ scans[i][j] = f
    BY <1>3, <2>2
  <2>4. \A l \in 1..Len(scans[i]) : \E k \in 1..m : o[k] = i /\ w[k] = l
    BY <1>7
  <2>5. PICK k \in 1..m : o[k] = i /\ w[k] = j
    BY <2>3, <2>4
  <2>6. list[k] = scans[o[k]][w[k]]
    BY <1>7
  <2>7. QED
    BY <2>3, <2>5, <2>6
<1>12. Listed(list, o)
  BY <1>1, <1>5, <1>7, <1>9, <1>10, <1>11 DEF Listed, m
<1>13. QED
  BY <1>12 DEF list

(* The first entry of the list that fits is ahead of every other that does. *)
LEMMA FirstIsAhead ==
    ASSUME NEW list, NEW origin, Listed(list, origin),
           NEW k \in 1..Len(list),
           NEW f \in Range(Dirs) \X Stems, Offered(files[f]), f # list[k],
           \A l \in 1..Len(list) : list[l] = f => k <= l
    PROVE  Ahead(list[k], f)
<1> DEFINE First(g, i) == /\ i \in DOMAIN Dirs /\ Dirs[i] = g[1]
                          /\ \A j \in DOMAIN Dirs : Dirs[j] = g[1] => i <= j
           g == list[k]
<1>1. DOMAIN Dirs \subseteq Nat
  <2>1. Dirs \in Seq(Range(Dirs))
    BY SessionsAssumption DEF SessionsAssumption
  <2> DEFINE D == Dirs
             R == Range(Dirs)
  <2>2. D \in Seq(R)
    BY <2>1
  <2> HIDE DEF D, R
  <2>3. DOMAIN D \subseteq Nat
    BY <2>2
  <2>4. QED
    BY <2>3 DEF D
<1>2. ASSUME NEW h, NEW i \in DOMAIN Dirs, Dirs[i] = h[1]
      PROVE  First(h, Place(h))
  <2> DEFINE At == {j \in DOMAIN Dirs : Dirs[j] = h[1]}
  <2>1. PICK j \in At : \A l \in At : j <= l
    <3>1. At \subseteq Nat /\ i \in At
      BY <1>1, <1>2
    <3> HIDE DEF At
    <3>2. QED
      BY <3>1, LeastOfSet
  <2>2. First(h, j)
    BY <2>1
  <2>3. Place(h) = CHOOSE p \in DOMAIN Dirs :
                     Dirs[p] = h[1] /\ \A q \in DOMAIN Dirs : Dirs[q] = h[1] => p <= q
    BY DEF Place
  <2>4. QED
    BY <2>2, <2>3
<1>3. /\ origin \in [1..Len(list) -> DOMAIN Dirs]
      /\ list[k][1] = Dirs[origin[k]]
      /\ list \in Seq(Range(Dirs) \X Stems)
  BY DEF Listed
<1>4. origin[k] \in DOMAIN Dirs /\ First(g, Place(g))
  BY <1>2, <1>3
<1>5. PICK i \in DOMAIN Dirs : Dirs[i] = f[1]
  <2>1. f[1] \in Range(Dirs)
    OBVIOUS
  <2>2. QED
    BY <2>1 DEF Range
<1>6. First(f, Place(f))
  BY <1>2, <1>5
<1>7. PICK l \in 1..Len(list) : origin[l] = Place(f) /\ list[l] = f
  BY <1>6 DEF Listed
<1>8. k <= l /\ k # l
  BY <1>7
<1>9. k < l
  BY <1>8
<1>10. origin[k] < origin[l] \/ (origin[k] = origin[l] /\ list[k][2] < list[l][2])
  BY <1>9 DEF Listed
<1>11. Place(g) <= origin[k]
  BY <1>3, <1>4
<1>12. /\ Place(g) \in Nat /\ Place(f) \in Nat /\ origin[k] \in Nat /\ origin[l] \in Nat
  BY <1>1, <1>3, <1>4, <1>6
<1>13. Place(g) < Place(f) \/ (Place(g) = Place(f) /\ g[2] < f[2])
  <2>1. CASE origin[k] < origin[l]
    BY <1>7, <1>11, <1>12, <2>1
  <2>2. CASE origin[k] = origin[l] /\ list[k][2] < list[l][2]
    <3>1. g[2] < f[2]
      BY <1>7, <2>2
    <3>2. Place(g) <= Place(f)
      BY <1>7, <1>11, <2>2
    <3>3. Place(g) < Place(f) \/ Place(g) = Place(f)
      BY <1>12, <3>2
    <3>4. QED
      BY <3>1, <3>3
  <2>3. QED
    BY <1>10, <2>1, <2>2
<1>14. QED
  BY <1>13 DEF Ahead

(* discover: the session selected is the first that fits.                   *)
LEMMA SelectedIsDefault ==
    ASSUME files \in [Range(Dirs) \X Stems -> Seq(Lines)]
    PROVE  DefaultSelected
<1> DEFINE offered == {f \in DOMAIN files : Offered(files[f])}
           named == {f \in offered : f[2] = Default}
           pool == IF named # {} THEN named ELSE offered
           list == List
           at == {i \in DOMAIN list : list[i][2] = Default}
<1>1. DOMAIN files = Range(Dirs) \X Stems
  OBVIOUS
<1>2. PICK origin : Listed(list, origin)
  BY ListIs
<1> HIDE DEF list
<1>3. /\ list \in Seq(Range(Dirs) \X Stems)
      /\ Len(list) \in Nat /\ DOMAIN list = 1..Len(list)
      /\ list = <<>> <=> Len(list) = 0
  BY <1>2 DEF Listed
<1>4. \A k \in 1..Len(list) : list[k] \in offered
  BY <1>1, <1>2, <1>3 DEF Listed
<1>5. ASSUME NEW f \in offered PROVE \E k \in 1..Len(list) : list[k] = f
  <2>1. f \in Range(Dirs) \X Stems /\ Offered(files[f])
    BY <1>1
  <2>2. PICK i \in DOMAIN Dirs : Dirs[i] = f[1]
    BY <2>1 DEF Range
  <2>3. QED
    BY <1>2, <2>1, <2>2 DEF Listed
<1>6. offered = {} <=> list = <<>>
  <2>1. ASSUME NEW f \in offered PROVE list # <<>>
    BY <1>3, <1>5
  <2>2. ASSUME list # <<>> PROVE offered # {}
    <3>1. 1 \in 1..Len(list)
      BY <1>3, <2>2
    <3>2. QED
      BY <1>4, <3>1
  <2>3. QED
    BY <2>1, <2>2
<1>7. Discovered = IF list = <<>> THEN NoFile ELSE list[DefaultIndex(list)]
  BY DEF Discovered, list
<1>8. CASE offered = {}
  BY <1>6, <1>7, <1>8 DEF DefaultSelected
<1>9. CASE offered # {}
  <2>1. Len(list) >= 1
    BY <1>3, <1>6, <1>9
  <2> DEFINE k == DefaultIndex(list)
  <2>2. /\ k \in 1..Len(list) /\ list[k] \in pool
        /\ \A f \in pool : \A l \in 1..Len(list) : list[l] = f => k <= l
    <3>1. k = IF at = {} THEN 1 ELSE CHOOSE i \in at : \A j \in at : i <= j
      BY DEF DefaultIndex
    <3> HIDE DEF k
    <3>2. CASE at = {}
      <4>1. ASSUME NEW f \in named PROVE FALSE
        <5>1. f \in offered /\ f[2] = Default
          OBVIOUS
        <5>2. PICK l \in 1..Len(list) : list[l] = f
          <6> HIDE DEF offered
          <6>1. QED
            BY <1>5, <5>1
        <5>3. l \in at
          BY <1>3, <5>1, <5>2
        <5>4. QED
          BY <3>2, <5>3
      <4>2. pool = offered /\ k = 1
        BY <3>1, <3>2, <4>1
      <4>3. k \in 1..Len(list)
        BY <1>3, <2>1, <4>2
      <4>4. \A l \in 1..Len(list) : k <= l
        BY <4>2
      <4>5. list[k] \in pool
        BY <1>4, <4>2, <4>3
      <4> HIDE DEF pool
      <4>6. QED
        BY <4>3, <4>4, <4>5
    <3>3. CASE at # {}
      <4>1. at \subseteq Nat /\ at \subseteq 1..Len(list)
        BY <1>3
      <4>2. \E i \in at : \A j \in at : i <= j
        <5> HIDE DEF at
        <5>1. QED
          BY <3>3, <4>1, LeastOfSet
      <4>3. k \in at /\ \A j \in at : k <= j
        <5> HIDE DEF at
        <5>1. QED
          BY <3>1, <3>3, <4>2
      <4>4. list[k] \in named
        BY <1>4, <4>1, <4>3
      <4>5. pool = named
        BY <4>4
      <4>6. ASSUME NEW f \in named, NEW l \in 1..Len(list), list[l] = f PROVE k <= l
        <5>1. l \in at
          BY <1>3, <4>6
        <5>2. QED
          BY <4>3, <5>1
      <4>7. k \in 1..Len(list)
        BY <4>1, <4>3
      <4> HIDE DEF pool, named, at
      <4>8. QED
        BY <4>4, <4>5, <4>6, <4>7
    <3>4. QED
      BY <3>2, <3>3
  <2> HIDE DEF k
  <2>3. \A f \in pool : f \in Range(Dirs) \X Stems /\ Offered(files[f])
    BY <1>1
  <2>4. Discovered = list[k]
    BY <1>6, <1>7, <1>9 DEF k
  <2>5. ASSUME NEW f \in pool \ {list[k]} PROVE Ahead(list[k], f)
    <3>1. /\ f \in Range(Dirs) \X Stems /\ Offered(files[f]) /\ f # list[k]
          /\ \A l \in 1..Len(list) : list[l] = f => k <= l
      BY <2>2, <2>3
    <3> HIDE DEF pool
    <3>2. QED
      BY <1>2, <2>2, <3>1, FirstIsAhead
  <2>6. QED
    BY <1>9, <2>2, <2>4, <2>5 DEF DefaultSelected
<1>10. QED
  BY <1>8, <1>9

-----------------------------------------------------------------------------
(* Whatever is written into the files, they hold what their formats allow. *)
Formatted ==
    /\ argv \in Seq(Arguments)
    /\ passwd \in Seq(PasswdLines)
    /\ files \in [Range(Dirs) \X Stems -> Seq(Lines)]

(* Lines and arguments are added one at a time, each of its format.        *)
LEMMA FormatsHold == Spec => []Formatted
<1>1. Init => Formatted
  <2>1. SUFFICES ASSUME Init PROVE Formatted
    OBVIOUS
  <2>2. argv = <<>> /\ passwd = <<>>
    BY <2>1 DEF Init, ExecInit, AccountsInit
  <2>3. NoFile \in Seq(Lines) /\ Whole \in Seq(Lines) /\ Nameless \in Seq(Lines)
    <3>1. /\ Key("section", "true") \in Lines
          /\ Key("Name", "text") \in Lines
          /\ Key("Exec", "text") \in Lines
      BY DEF Key, Lines
    <3>2. QED
      BY <3>1 DEF NoFile, Whole, Nameless
  <2>4. files \in [Range(Dirs) \X Stems -> {NoFile, Whole, Nameless}]
    BY <2>1 DEF Init, SessionsInit
  <2>5. files \in [Range(Dirs) \X Stems -> Seq(Lines)]
    BY <2>3, <2>4
  <2>6. QED
    BY <2>2, <2>5 DEF Formatted
<1>2. Formatted /\ [Next]_vars => Formatted'
  <2>1. SUFFICES ASSUME Formatted, [Next]_vars PROVE Formatted'
    OBVIOUS
  <2> USE DEF Formatted
  <2>2. CASE AddArgument /\ UNCHANGED <<accountVars, files>>
    <3>1. \E a \in Arguments : argv' = Append(argv, a)
      <4>1. ASSUME NEW word \in Words, NEW form \in Forms(word)
            PROVE  [word |-> word, form |-> form] \in Arguments
        <5>1. form \in WordForms
          BY DEF Forms, WordForms
        <5>2. \A i \in DOMAIN word : Suits(word[i], form)
          BY DEF Forms, WordForms, CodeForms, Suits
        <5>3. QED
          BY <5>1, <5>2 DEF Arguments
      <4>2. CodeArguments \subseteq Arguments
        BY DEF Arguments
      <4>3. QED
        BY <2>2, <4>1, <4>2 DEF AddArgument
    <3>2. argv' \in Seq(Arguments)
      <4>1. argv \in Seq(Arguments)
        BY <2>1
      <4> HIDE DEF Formatted
      <4>2. QED
        BY <3>1, <4>1
    <3>3. QED
      BY <2>1, <2>2, <3>2 DEF accountVars
  <2>3. CASE AddAccount /\ UNCHANGED <<argv, files>>
    <3>1. passwd' \in Seq(PasswdLines)
      BY <2>1, <2>3 DEF AddAccount
    <3>2. QED
      BY <2>1, <2>3, <3>1
  <2>4. CASE AddBound /\ UNCHANGED <<argv, files>>
    BY <2>1, <2>4 DEF AddBound
  <2>5. CASE AddLine /\ UNCHANGED <<argv, accountVars>>
    <3>1. PICK f \in DOMAIN files, line \in Lines :
              files' = [files EXCEPT ![f] = Append(@, line)]
      BY <2>5 DEF AddLine
    <3>2. files' \in [Range(Dirs) \X Stems -> Seq(Lines)]
      <4>1. files[f] \in Seq(Lines)
        BY <2>1
      <4>2. Append(files[f], line) \in Seq(Lines)
        BY <4>1
      <4>3. QED
        BY <2>1, <3>1, <4>2
    <3>3. QED
      BY <2>1, <2>5, <3>2 DEF accountVars
  <2>6. CASE UNCHANGED vars
    BY <2>1, <2>6 DEF vars, accountVars
  <2>7. QED
    BY <2>1, <2>2, <2>3, <2>4, <2>5, <2>6 DEF Next
<1>3. QED
  BY <1>1, <1>2, PTL DEF Spec

(* split_exec: the session is started with the arguments that were meant.  *)
THEOREM CommandIsMeant == Spec => []ArgvComesBack
<1>1. Formatted => ArgvComesBack
  BY CommandComesBack DEF Formatted
<1>2. QED
  BY <1>1, FormatsHold, PTL

(* parse: the accounts offered are those that may log in, sorted, each     *)
(* first under its lowest uid.                                             *)
THEOREM AccountsAreRight == Spec => []AccountsOffered
<1>1. Formatted => AccountsOffered
  BY OfferedIsRight DEF Formatted
<1>2. QED
  BY <1>1, FormatsHold, PTL

(* discover: the session selected is the first that is offered of the      *)
(* default's stem, or else the first that is offered at all, and none is    *)
(* selected only if none is offered.  It may have an empty command.         *)
THEOREM SelectionIsDefault == Spec => []DefaultSelected
<1>1. Formatted => DefaultSelected
  BY SelectedIsDefault DEF Formatted
<1>2. QED
  BY <1>1, FormatsHold, PTL
====
