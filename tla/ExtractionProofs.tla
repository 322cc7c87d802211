---------------------------- MODULE ExtractionProofs ----------------------------
(***************************************************************************)
(* Extraction, for any archives, names, folders and faults: what is        *)
(* refused is refused before anything is touched, what is written is held  *)
(* by the host under exactly its name, bytes go beyond a link only where a *)
(* zip's or 7z's entry has the very name of one to a file, the archive     *)
(* survives its own extraction, and a run that says so left all of it      *)
(* under its names.                                                        *)
(*                                                                         *)
(* First induction, in the form the provers can use: over a set, not over  *)
(* a predicate. Then what splitting a name makes of it, the type of every  *)
(* variable, how a step changes the folder, and the theorems.              *)
(***************************************************************************)
EXTENDS Extraction, FiniteSetTheorems, WellFoundedInduction, TLAPS

-----------------------------------------------------------------------------
(* Induction *)

(* A set of natural numbers that is not empty has a least element. *)
LEMMA Least ==
  ASSUME NEW T \in SUBSET Nat, T # {}
  PROVE  \E n \in T : \A m \in T : n <= m
<1> DEFINE R == OpToRel(<, Nat)
<1>1. IsWellFoundedOn(R, Nat)
  BY NatLessThanWellFounded
<1>2. \A x, y \in Nat : <<y, x>> \in R <=> y < x
  BY DEF OpToRel
<1> HIDE DEF R
<1>3. PICK x \in T : \A y \in T : ~ (<<y, x>> \in R)
  BY <1>1, WFMin
<1>4. \A y \in T : ~ (y < x)
  BY <1>2, <1>3, Zenon
<1> QED
  BY <1>4

(* A set with 0 and each successor has every natural number. *)
LEMMA Induction ==
  ASSUME NEW S, 0 \in S, \A n \in S : n + 1 \in S
  PROVE  Nat \subseteq S
<1> SUFFICES ASSUME Nat \ S # {} PROVE FALSE
  OBVIOUS
<1>1. PICK n \in Nat \ S : \A m \in Nat \ S : n <= m
  BY Least
<1>2. PICK m \in Nat : n = m + 1
  BY <1>1
<1>3. m \in S
  BY <1>1, <1>2
<1> QED
  BY <1>1, <1>2, <1>3

(* The same, up to a bound. *)
LEMMA BoundedInduction ==
  ASSUME NEW S, NEW N \in Nat, 0 \in S, \A n \in 1..N : n - 1 \in S => n \in S
  PROVE  0..N \subseteq S
<1> DEFINE U == {n \in Nat : n <= N => n \in S}
<1>1. 0 \in U
  OBVIOUS
<1>2. ASSUME NEW n \in U PROVE n + 1 \in U
  BY <1>2
<1> HIDE DEF U
<1>3. Nat \subseteq U
  BY <1>1, <1>2, Induction
<1> QED
  BY <1>3 DEF U

(* A function defined by recursion on a length exists. *)
LEMMA RecursionExists ==
  ASSUME NEW D, NEW start \in D, NEW N \in Nat, NEW step \in [1..N -> [D -> D]]
  PROVE  \E f \in [0..N -> D] : f[0] = start /\ \A n \in 1..N : f[n] = step[n][f[n - 1]]
<1> DEFINE S == {k \in Nat : \E f \in [0..k -> D] :
                   f[0] = start /\ \A n \in 1..k : n <= N => f[n] = step[n][f[n - 1]]}
<1>1. 0 \in S
  <2> DEFINE f == [n \in 0..0 |-> start]
  <2>1. f \in [0..0 -> D] /\ f[0] = start /\ \A n \in 1..0 : n <= N => f[n] = step[n][f[n - 1]]
    OBVIOUS
  <2> HIDE DEF f
  <2> QED
    BY <2>1
<1>2. ASSUME NEW k \in 1..N, k - 1 \in S PROVE k \in S
  <2>1. PICK f \in [0..(k - 1) -> D] :
          f[0] = start /\ \A n \in 1..(k - 1) : n <= N => f[n] = step[n][f[n - 1]]
    BY <1>2
  <2> DEFINE g == [n \in 0..k |-> IF n = k THEN step[k][f[k - 1]] ELSE f[n]]
  <2>2. step[k] \in [D -> D] /\ f[k - 1] \in D
    BY <1>2, <2>1
  <2>3. g \in [0..k -> D]
    BY <2>1, <2>2
  <2>4. g[0] = start /\ \A n \in 1..k : g[n] = step[n][g[n - 1]]
    BY <2>1
  <2> HIDE DEF g
  <2> QED
    BY <2>3, <2>4
<1> HIDE DEF S
<1>3. 0..N \subseteq S
  BY <1>1, <1>2, BoundedInduction
<1> QED
  BY <1>3 DEF S

(* What a function defined by recursion on a length is, once it is known what
   each step makes of a value of its range. *)
LEMMA RecursionIsTyped ==
  ASSUME NEW D, NEW start \in D, NEW N \in Nat, NEW step \in [1..N -> [D -> D]],
         NEW f, DOMAIN f = 0..N, f[0] = start,
         \A n \in 1..N : f[n - 1] \in D => f[n] = step[n][f[n - 1]]
  PROVE  \A n \in 0..N : f[n] \in D
<1> DEFINE S == {n \in 0..N : f[n] \in D}
<1>1. 0 \in S
  OBVIOUS
<1>2. ASSUME NEW n \in 1..N, n - 1 \in S PROVE n \in S
  BY <1>2
<1> HIDE DEF S
<1>3. 0..N \subseteq S
  BY <1>1, <1>2, BoundedInduction
<1> QED
  BY <1>3 DEF S

-----------------------------------------------------------------------------
(* Names *)

LEMMA PutIsTyped ==
  ASSUME NEW T, NEW parts \in Seq(Seq(T)) \ {<<>>}, NEW t \in T, NEW separators
  PROVE  Put(parts, t, separators) \in Seq(Seq(T)) \ {<<>>}
<1>1. Append(parts, <<>>) \in Seq(Seq(T)) \ {<<>>}
  OBVIOUS
<1>2. Len(parts) \in DOMAIN parts /\ Append(parts[Len(parts)], t) \in Seq(T)
  OBVIOUS
<1>3. [parts EXCEPT ![Len(parts)] = Append(@, t)] \in Seq(Seq(T)) \ {<<>>}
  BY <1>2
<1> QED
  BY <1>1, <1>3 DEF Put

(* What Split has of a name of tokens in T, after each of its tokens. *)
Splitting(parts, T, name, separators) ==
  /\ parts \in [0..Len(name) -> Seq(Seq(T)) \ {<<>>}]
  /\ parts[0] = << <<>> >>
  /\ \A n \in 1..Len(name) : parts[n] = Put(parts[n - 1], name[n], separators)
  /\ Split(name, separators) = parts[Len(name)]

(* Split is what its recursion says, one token after another. *)
LEMMA SplitStepwise ==
  ASSUME NEW T, NEW name \in Seq(T), NEW separators
  PROVE  \E parts : Splitting(parts, T, name, separators)
<1> DEFINE D == Seq(Seq(T)) \ {<<>>}
           N == Len(name)
           start == << <<>> >>
           step == [n \in 1..N |-> [p \in D |-> Put(p, name[n], separators)]]
           E(f) == f = [n \in 0..N |-> IF n = 0 THEN start
                                        ELSE Put(f[n - 1], name[n], separators)]
           parts == CHOOSE f : E(f)
<1>1. N \in Nat /\ start \in D
  OBVIOUS
<1>2. step \in [1..N -> [D -> D]]
  BY PutIsTyped
<1>3. \A n \in 1..N, p \in D : step[n][p] = Put(p, name[n], separators)
  OBVIOUS
<1>4. Split(name, separators) = parts[N]
  BY DEF Split
<1> HIDE DEF D, step, N, start
<1>5. PICK f \in [0..N -> D] : f[0] = start /\ \A n \in 1..N : f[n] = step[n][f[n - 1]]
  BY <1>1, <1>2, RecursionExists
<1>6. \A n \in 1..N : f[n - 1] \in D
  BY <1>1, <1>5
<1>7. \A n \in 1..N : f[n] = Put(f[n - 1], name[n], separators)
  BY <1>3, <1>5, <1>6
<1>8. E(f)
  BY <1>1, <1>5, <1>7
<1>9. E(parts)
  <2> HIDE DEF E
  <2> QED
    BY <1>8, Zenon
<1> HIDE DEF parts
<1>10. /\ DOMAIN parts = 0..N /\ parts[0] = start
       /\ \A n \in 1..N : parts[n] = Put(parts[n - 1], name[n], separators)
  BY <1>1, <1>9
<1>11. \A n \in 0..N : parts[n] \in D
  <2>1. \A n \in 1..N : parts[n - 1] \in D => parts[n] = step[n][parts[n - 1]]
    BY <1>3, <1>10
  <2> QED
    BY <1>1, <1>2, <1>10, <2>1, RecursionIsTyped
<1>12. parts \in [0..N -> D]
  BY <1>9, <1>11
<1> QED
  BY <1>4, <1>10, <1>12 DEF N, D, start, Splitting

(* What is appended is one more of what a sequence holds. *)
LEMMA AppendSpells ==
  ASSUME NEW T, NEW s \in Seq(T), NEW t \in T
  PROVE  ToSet(Append(s, t)) = ToSet(s) \union {t}
<1> DEFINE r == Append(s, t)
<1>1. /\ DOMAIN r = DOMAIN s \union {Len(s) + 1} /\ r[Len(s) + 1] = t
      /\ \A k \in DOMAIN s : r[k] = s[k]
  OBVIOUS
<1> HIDE DEF r
<1>2. ToSet(r) = ToSet(s) \union {t}
  BY <1>1 DEF ToSet
<1> QED
  BY <1>2 DEF r

(* One more value of a function of the natural numbers. *)
LEMMA OneMore ==
  ASSUME NEW f, NEW n \in Nat \ {0}
  PROVE  {f[j] : j \in 1..n} = {f[j] : j \in 1..(n - 1)} \union {f[n]}
<1>1. 1..n = 1..(n - 1) \union {n}
  OBVIOUS
<1> QED
  BY <1>1

(* A function of 1..n is a sequence of length n. *)
LEMMA FunctionIsSequence ==
  ASSUME NEW T, NEW n \in Nat, NEW f \in [1..n -> T]
  PROVE  f \in Seq(T) /\ Len(f) = n
OBVIOUS

(* A filtered sequence holds what it held, less what was dropped. *)
LEMMA WithoutIsWhatIsLeft ==
  ASSUME NEW T, NEW parts \in Seq(T), NEW dropped
  PROVE  /\ Without(parts, dropped) \in Seq(T)
         /\ ToSet(Without(parts, dropped)) = ToSet(parts) \ dropped
<1> DEFINE D == Seq(T)
           N == Len(parts)
           start == <<>>
           step == [n \in 1..N |-> [p \in D |-> Keep(p, parts[n], dropped)]]
           E(f) == f = [n \in 0..N |-> IF n = 0 THEN start
                                        ELSE Keep(f[n - 1], parts[n], dropped)]
           kept == CHOOSE f : E(f)
<1>1. N \in Nat /\ start \in D
  OBVIOUS
<1>2. step \in [1..N -> [D -> D]]
  BY DEF Keep
<1>3. \A n \in 1..N, p \in D : step[n][p] = Keep(p, parts[n], dropped)
  OBVIOUS
<1>4. Without(parts, dropped) = kept[N]
  BY DEF Without
<1> HIDE DEF D, step, N, start
<1>5. PICK f \in [0..N -> D] : f[0] = start /\ \A n \in 1..N : f[n] = step[n][f[n - 1]]
  BY <1>1, <1>2, RecursionExists
<1>6. \A n \in 1..N : f[n - 1] \in D
  BY <1>1, <1>5
<1>7. \A n \in 1..N : f[n] = Keep(f[n - 1], parts[n], dropped)
  BY <1>3, <1>5, <1>6
<1>8. E(f)
  BY <1>1, <1>5, <1>7
<1>9. E(kept)
  <2> HIDE DEF E
  <2> QED
    BY <1>8, Zenon
<1> HIDE DEF kept
<1>10. /\ DOMAIN kept = 0..N /\ kept[0] = start
       /\ \A n \in 1..N : kept[n] = Keep(kept[n - 1], parts[n], dropped)
  BY <1>1, <1>9
<1>11. \A n \in 0..N : kept[n] \in D
  <2>1. \A n \in 1..N : kept[n - 1] \in D => kept[n] = step[n][kept[n - 1]]
    BY <1>3, <1>10
  <2> QED
    BY <1>1, <1>2, <1>10, <2>1, RecursionIsTyped
<1> USE DEF D, N, start
<1> DEFINE S == {n \in 0..N : ToSet(kept[n]) = {parts[j] : j \in 1..n} \ dropped}
<1>12. 0 \in S
  BY <1>10 DEF ToSet
<1>13. ASSUME NEW n \in 1..N, n - 1 \in S PROVE n \in S
  <2>1. kept[n - 1] \in Seq(T) /\ parts[n] \in T
    BY <1>11
  <2>2. ToSet(Append(kept[n - 1], parts[n])) = ToSet(kept[n - 1]) \union {parts[n]}
    BY <2>1, AppendSpells
  <2>3. {parts[j] : j \in 1..n} = {parts[j] : j \in 1..(n - 1)} \union {parts[n]}
    BY OneMore
  <2>4. kept[n] = Keep(kept[n - 1], parts[n], dropped)
    BY <1>10
  <2> QED
    BY <1>13, <2>2, <2>3, <2>4 DEF Keep
<1> HIDE DEF S
<1>14. 0..N \subseteq S
  BY <1>1, <1>12, <1>13, BoundedInduction
<1>15. N \in 0..N /\ N \in S
  BY <1>1, <1>14
<1>16. ToSet(kept[N]) = {parts[j] : j \in 1..N} \ dropped
  BY <1>15 DEF S
<1>17. ToSet(parts) = {parts[j] : j \in 1..N}
  BY DEF ToSet
<1> QED
  BY <1>4, <1>11, <1>15, <1>16, <1>17

(* The tokens a sequence of parts is spelled with. *)
Spelled(parts) == UNION {ToSet(parts[k]) : k \in DOMAIN parts}

(* A token put is one more token spelled, unless it separates. *)
LEMMA PutSpells ==
  ASSUME NEW T, NEW parts \in Seq(Seq(T)) \ {<<>>}, NEW t \in T, NEW separators
  PROVE  Spelled(Put(parts, t, separators)) = Spelled(parts) \union ({t} \ separators)
<1>1. CASE t \in separators
  <2> DEFINE p == Append(parts, <<>>)
  <2>1. /\ DOMAIN p = DOMAIN parts \union {Len(parts) + 1}
        /\ \A k \in DOMAIN parts : p[k] = parts[k]
        /\ p[Len(parts) + 1] = <<>>
    OBVIOUS
  <2>2. ToSet(p[Len(parts) + 1]) = {}
    BY <2>1 DEF ToSet
  <2> HIDE DEF p
  <2>3. Spelled(p) = Spelled(parts)
    BY <2>1, <2>2 DEF Spelled
  <2> QED
    BY <1>1, <2>3 DEF Put, p
<1>2. CASE t \notin separators
  <2> DEFINE l == Len(parts)
             p == [parts EXCEPT ![l] = Append(@, t)]
  <2>1. /\ l \in DOMAIN parts /\ DOMAIN p = DOMAIN parts /\ parts[l] \in Seq(T)
        /\ p[l] = Append(parts[l], t)
        /\ \A k \in DOMAIN parts \ {l} : p[k] = parts[k]
    OBVIOUS
  <2>2. ToSet(p[l]) = ToSet(parts[l]) \union {t}
    BY <2>1, AppendSpells
  <2> HIDE DEF p, l
  <2>3. Spelled(p) = Spelled(parts) \union {t}
    BY <2>1, <2>2 DEF Spelled
  <2> QED
    BY <1>2, <2>3 DEF Put, p, l
<1> QED
  BY <1>1, <1>2

(* Splitting loses the separators and nothing else. *)
LEMMA SplitSpells ==
  ASSUME NEW T, NEW name \in Seq(T), NEW separators
  PROVE  /\ Split(name, separators) \in Seq(Seq(T)) \ {<<>>}
         /\ Spelled(Split(name, separators)) = ToSet(name) \ separators
<1> DEFINE N == Len(name)
<1>1. PICK parts : Splitting(parts, T, name, separators)
  BY SplitStepwise
<1> DEFINE S == {n \in 0..N : Spelled(parts[n]) = {name[j] : j \in 1..n} \ separators}
<1>2. 0 \in S
  BY <1>1 DEF Splitting, Spelled, ToSet
<1>3. ASSUME NEW n \in 1..N, n - 1 \in S PROVE n \in S
  <2>1. /\ parts[n - 1] \in Seq(Seq(T)) \ {<<>>} /\ name[n] \in T
        /\ parts[n] = Put(parts[n - 1], name[n], separators)
    BY <1>1 DEF Splitting
  <2>2. Spelled(parts[n]) = Spelled(parts[n - 1]) \union ({name[n]} \ separators)
    BY <2>1, PutSpells
  <2>3. {name[j] : j \in 1..n} = {name[j] : j \in 1..(n - 1)} \union {name[n]}
    BY OneMore
  <2> QED
    BY <1>3, <2>2, <2>3
<1>4. N \in Nat /\ ToSet(name) = {name[j] : j \in 1..N}
  BY DEF ToSet
<1> HIDE DEF S
<1>5. 0..N \subseteq S
  BY <1>2, <1>3, <1>4, BoundedInduction
<1>6. N \in 0..N /\ N \in S
  BY <1>4, <1>5
<1>7. Spelled(parts[N]) = {name[j] : j \in 1..N} \ separators
  BY <1>6 DEF S
<1> QED
  BY <1>1, <1>4, <1>6, <1>7 DEF Splitting

(* Two sets of separators that no token of a name tells apart split it alike. *)
LEMMA SplitsAlike ==
  ASSUME NEW T, NEW name \in Seq(T), NEW one, NEW other,
         \A t \in ToSet(name) : t \in one <=> t \in other
  PROVE  Split(name, one) = Split(name, other)
<1> DEFINE N == Len(name)
<1>1. PICK p : Splitting(p, T, name, one)
  BY SplitStepwise
<1>2. PICK q : Splitting(q, T, name, other)
  BY SplitStepwise
<1> DEFINE S == {n \in 0..N : p[n] = q[n]}
<1>3. N \in Nat /\ p[0] = q[0]
  BY <1>1, <1>2 DEF Splitting
<1>4. 0 \in S
  BY <1>3
<1>5. ASSUME NEW n \in 1..N, n - 1 \in S PROVE n \in S
  <2>1. name[n] \in one <=> name[n] \in other
    BY DEF ToSet
  <2>2. Put(p[n - 1], name[n], one) = Put(q[n - 1], name[n], other)
    BY <1>5, <2>1 DEF Put
  <2> QED
    BY <1>1, <1>2, <2>2 DEF Splitting
<1> HIDE DEF S
<1>6. 0..N \subseteq S
  BY <1>3, <1>4, <1>5, BoundedInduction
<1>7. N \in 0..N /\ N \in S
  BY <1>3, <1>6
<1> QED
  BY <1>1, <1>2, <1>7 DEF S, Splitting

(* A bounded set of natural numbers has the greatest element that Max chooses. *)
LEMMA MaxIsMax ==
  ASSUME NEW N \in Nat, NEW S \in SUBSET (0..N), S # {}
  PROVE  Max(S) \in S /\ \A y \in S : Max(S) >= y
<1> DEFINE B == {n \in Nat : \A y \in S : n >= y}
<1>1. N \in B
  OBVIOUS
<1>2. PICK b \in B : \A m \in B : b <= m
  BY <1>1, Least
<1>3. b \in S
  <2>1. CASE b = 0
    <3>1. PICK y \in S : TRUE
      OBVIOUS
    <3>2. y = 0
      BY <1>2, <2>1
    <3> QED
      BY <2>1, <3>2
  <2>2. CASE b # 0
    <3>1. b - 1 \in Nat /\ b - 1 \notin B
      BY <1>2, <2>2
    <3>2. PICK y \in S : ~ (b - 1 >= y)
      BY <3>1
    <3>3. y = b
      BY <1>2, <3>1, <3>2
    <3> QED
      BY <3>3
  <2> QED
    BY <2>1, <2>2
<1>4. \A y \in S : b >= y
  BY <1>2
<1> QED
  BY <1>3, <1>4 DEF Max

(* Where a part stops when the tokens at its end are trimmed. *)
LEMMA TrimEndStops ==
  ASSUME NEW T, NEW part \in Seq(T), NEW tokens
  PROVE  \E k \in 0..Len(part) :
           /\ TrimEnd(part, tokens) = SubSeq(part, 1, k)
           /\ k = 0 \/ part[k] \notin tokens
           /\ \A i \in DOMAIN part : i > k => part[i] \in tokens
<1> DEFINE S == {0} \union {i \in DOMAIN part : part[i] \notin tokens}
           N == Len(part)
<1>1. N \in Nat /\ S \in SUBSET (0..N) /\ S # {}
  OBVIOUS
<1>2. Max(S) \in S /\ \A y \in S : Max(S) >= y
  <2> HIDE DEF S, N
  <2> QED
    BY <1>1, MaxIsMax
<1>3. TrimEnd(part, tokens) = SubSeq(part, 1, Max(S))
  BY DEF TrimEnd
<1> DEFINE k == Max(S)
<1> HIDE DEF k
<1>4. k \in S /\ \A y \in S : k >= y
  BY <1>2 DEF k
<1>5. TrimEnd(part, tokens) = SubSeq(part, 1, k)
  BY <1>3 DEF k
<1> QED
  BY <1>4, <1>5

(* A part is trimmed to itself when it does not end in what is trimmed. *)
LEMMA TrimEndIsAll ==
  ASSUME NEW T, NEW part \in Seq(T), NEW tokens
  PROVE  TrimEnd(part, tokens) = part <=> (part = <<>> \/ part[Len(part)] \notin tokens)
<1>1. PICK k \in 0..Len(part) :
           /\ TrimEnd(part, tokens) = SubSeq(part, 1, k)
           /\ k = 0 \/ part[k] \notin tokens
           /\ \A i \in DOMAIN part : i > k => part[i] \in tokens
  BY TrimEndStops
<1>2. SubSeq(part, 1, k) = part <=> k = Len(part)
  OBVIOUS
<1>3. k = Len(part) <=> (part = <<>> \/ part[Len(part)] \notin tokens)
  BY <1>1
<1> QED
  BY <1>1, <1>2, <1>3

(* The head of a split is what comes before the first separator. *)
LEMMA HeadOfSplit ==
  ASSUME NEW T, NEW name \in Seq(T), NEW separators, NEW q \in Seq(T),
         ToSet(q) \intersect separators = {}, Len(q) <= Len(name),
         \A j \in DOMAIN q : name[j] = q[j],
         Len(q) < Len(name) => name[Len(q) + 1] \in separators
  PROVE  Head(Split(name, separators)) = q
<1> DEFINE N == Len(name)
           L == Len(q)
<1>1. PICK parts : Splitting(parts, T, name, separators)
  BY SplitStepwise
<1>2. /\ parts \in [0..N -> Seq(Seq(T)) \ {<<>>}] /\ parts[0] = << <<>> >>
      /\ \A n \in 1..N : parts[n] = Put(parts[n - 1], name[n], separators)
      /\ Split(name, separators) = parts[N]
  BY <1>1 DEF Splitting
<1>3. N \in Nat /\ L \in 0..N /\ \A j \in 1..L : q[j] \notin separators /\ name[j] = q[j]
  BY DEF ToSet
<1> DEFINE S == {n \in 0..N : /\ n <= L => parts[n] = << SubSeq(q, 1, n) >>
                              /\ n > L => Len(parts[n]) > 1 /\ parts[n][1] = q}
<1>4. 0 \in S
  <2>1. SubSeq(q, 1, 0) = <<>>
    OBVIOUS
  <2> QED
    BY <1>2, <1>3, <2>1
<1>5. ASSUME NEW n \in 1..N, n - 1 \in S PROVE n \in S
  <2>1. parts[n] = Put(parts[n - 1], name[n], separators) /\ parts[n - 1] \in Seq(Seq(T)) \ {<<>>}
    BY <1>2
  <2>2. CASE n <= L
    <3>1. parts[n - 1] = << SubSeq(q, 1, n - 1) >> /\ name[n] = q[n] /\ q[n] \notin separators
      BY <1>3, <1>5, <2>2
    <3>2. parts[n] = << Append(SubSeq(q, 1, n - 1), q[n]) >>
      BY <2>1, <3>1 DEF Put
    <3>3. Append(SubSeq(q, 1, n - 1), q[n]) = SubSeq(q, 1, n)
      BY <2>2
    <3> QED
      BY <2>2, <3>2, <3>3
  <2>3. CASE n = L + 1
    <3>1. parts[n - 1] = << SubSeq(q, 1, L) >> /\ name[n] \in separators
      BY <1>5, <2>3
    <3>2. SubSeq(q, 1, L) = q
      OBVIOUS
    <3>3. parts[n] = Append(<< q >>, <<>>)
      BY <2>1, <3>1, <3>2 DEF Put
    <3> QED
      BY <2>3, <3>3
  <2>4. CASE n > L + 1
    <3>1. Len(parts[n - 1]) > 1 /\ parts[n - 1][1] = q
      BY <1>5, <2>4
    <3>2. Len(parts[n]) > 1 /\ parts[n][1] = q
      BY <2>1, <3>1 DEF Put
    <3> QED
      BY <2>4, <3>2
  <2> QED
    BY <2>2, <2>3, <2>4
<1> HIDE DEF S
<1>6. 0..N \subseteq S
  BY <1>3, <1>4, <1>5, BoundedInduction
<1>7. N \in S
  BY <1>3, <1>6
<1>8. parts[N] \in Seq(Seq(T)) \ {<<>>} /\ parts[N][1] = q
  <2>1. CASE N = L
    <3>1. parts[N] = << SubSeq(q, 1, N) >>
      BY <1>7, <2>1 DEF S
    <3>2. SubSeq(q, 1, N) = q
      BY <2>1
    <3>3. << q >> \in Seq(Seq(T)) \ {<<>>} /\ << q >>[1] = q
      OBVIOUS
    <3> QED
      BY <3>1, <3>2, <3>3
  <2>2. CASE N > L
    BY <1>2, <1>3, <1>7, <2>2 DEF S
  <2> QED
    BY <1>3, <2>1, <2>2
<1> QED
  BY <1>2, <1>8

(* A name with the dot of an extension after it. *)
LEMMA DotAppended ==
  ASSUME NEW q \in Seq(Tokens)
  PROVE  /\ q \o <<".">> \in Seq(Tokens) /\ Len(q \o <<".">>) = Len(q) + 1
         /\ (q \o <<".">>)[Len(q) + 1] = "."
         /\ \A j \in 1..Len(q) : (q \o <<".">>)[j] = q[j]
<1>1. "." \in Tokens
  BY DEF Tokens
<1>2. <<".">> \in Seq(Tokens) /\ Len(<<".">>) = 1 /\ <<".">>[1] = "."
  BY <1>1
<1> DEFINE r == <<".">>
<1> HIDE DEF r
<1>3. r \in Seq(Tokens)
  BY <1>2 DEF r
<1>4. /\ q \o r \in Seq(Tokens) /\ Len(q \o r) = Len(q) + Len(r)
      /\ \A j \in 1..Len(q) : (q \o r)[j] = q[j]
      /\ \A j \in 1..Len(r) : (q \o r)[Len(q) + j] = r[j]
  BY <1>3
<1>5. Len(r) = 1 /\ 1 \in 1..Len(r) /\ r[1] = "."
  BY <1>2 DEF r
<1> QED
  BY <1>3, <1>4, <1>5 DEF r

(* A prefix, token by token. *)
LEMMA PrefixByToken ==
  ASSUME NEW T, NEW p \in Seq(T), NEW q \in Seq(T)
  PROVE  IsPrefix(p, q) <=> Len(p) <= Len(q) /\ \A j \in 1..Len(p) : q[j] = p[j]
<1>1. SubSeq(p, 1, Len(p)) = p
  OBVIOUS
<1>2. ASSUME Len(p) <= Len(q)
      PROVE  SubSeq(q, 1, Len(p)) = p <=> \A j \in 1..Len(p) : q[j] = p[j]
  <2>1. /\ SubSeq(q, 1, Len(p)) \in Seq(T) /\ Len(SubSeq(q, 1, Len(p))) = Len(p)
        /\ \A j \in 1..Len(p) : SubSeq(q, 1, Len(p))[j] = q[j]
    BY <1>2
  <2> DEFINE r == SubSeq(q, 1, Len(p))
  <2> HIDE DEF r
  <2>2. r \in Seq(T) /\ Len(r) = Len(p) /\ \A j \in 1..Len(p) : r[j] = q[j]
    BY <2>1 DEF r
  <2>3. r = p <=> \A j \in 1..Len(p) : q[j] = p[j]
    BY <2>2
  <2> QED
    BY <2>3 DEF r
<1> QED
  BY <1>1, <1>2 DEF IsPrefix

Spaces(n) == [i \in 1..n |-> "sp"]

(* How a device name with n spaces after it is spelled. *)
DeviceSpelling(device, q, n) ==
  /\ q \in Seq(Tokens) /\ Len(device) \in Nat \ {0} /\ Len(q) = Len(device) + n
  /\ \A j \in 1..Len(q) : q[j] \in {"con", "com", "1", "sp"}
  /\ \A j \in 1..Len(q) : q[j] = "sp" <=> j > Len(device)
  /\ SubSeq(q, 1, Len(device)) = device

(* Every device name is spelled so, whatever spaces follow. *)
LEMMA DeviceIsSpelled ==
  ASSUME NEW device \in Devices, NEW n \in Nat
  PROVE  DeviceSpelling(device, device \o Spaces(n), n)
<1>1. {"con", "com", "1", "sp"} \subseteq Tokens
  BY DEF Tokens
<1>2. PICK d \in Nat \ {0} : d = Len(device)
  <2>1. Len(device) \in Nat \ {0}
    BY DEF Devices
  <2> QED
    BY <2>1, Zenon
<1>3. device \in Seq(Tokens) /\ \A j \in 1..d : device[j] \in {"con", "com", "1"}
  <2>1. CASE device = <<"con">>
    BY <1>1, <1>2, <2>1
  <2>2. CASE device = <<"com", "1">>
    BY <1>1, <1>2, <2>2
  <2> QED
    BY <2>1, <2>2 DEF Devices
<1>4. PICK w \in Seq(Tokens) : w = Spaces(n) /\ Len(w) = n /\ \A j \in 1..n : w[j] = "sp"
  <2>1. Spaces(n) \in Seq(Tokens)
    BY <1>1 DEF Spaces
  <2>2. DOMAIN Spaces(n) = 1..n /\ \A j \in 1..n : Spaces(n)[j] = "sp"
    BY DEF Spaces
  <2>3. Len(Spaces(n)) = n
    BY <2>1, <2>2
  <2> QED
    BY <2>1, <2>2, <2>3
<1> DEFINE q == device \o w
<1>5. /\ q \in Seq(Tokens) /\ Len(q) = d + n
      /\ \A j \in 1..d : q[j] = device[j]
      /\ \A j \in 1..n : q[d + j] = w[j]
  <2>1. /\ q \in Seq(Tokens) /\ Len(q) = Len(device) + Len(w)
        /\ \A j \in 1..Len(device) : q[j] = device[j]
        /\ \A j \in 1..Len(w) : q[Len(device) + j] = w[j]
    BY <1>3
  <2> HIDE DEF q
  <2> QED
    BY <1>2, <1>4, <2>1
<1> HIDE DEF q
<1>6. ASSUME NEW j \in 1..(d + n), j > d PROVE q[j] = "sp"
  <2>1. j - d \in 1..n /\ d + (j - d) = j
    BY <1>6
  <2> QED
    BY <1>4, <1>5, <2>1
<1>7. \A j \in 1..(d + n) : q[j] \in {"con", "com", "1", "sp"} /\ (q[j] = "sp" <=> j > d)
  <2>1. \A j \in 1..(d + n) : j > d \/ j \in 1..d
    OBVIOUS
  <2> QED
    BY <1>3, <1>5, <1>6, <2>1
<1>8. SubSeq(q, 1, d) = device
  <2> DEFINE r == SubSeq(q, 1, d)
  <2>1. r \in Seq(Tokens) /\ Len(r) = d /\ \A j \in 1..d : r[j] = q[j]
    BY <1>5
  <2> HIDE DEF r
  <2>2. r = device
    BY <1>2, <1>3, <1>5, <2>1
  <2> QED
    BY <2>2 DEF r
<1>9. q = device \o Spaces(n)
  BY <1>4 DEF q
<1>10. DeviceSpelling(device, q, n)
  BY <1>2, <1>5, <1>7, <1>8 DEF DeviceSpelling
<1> QED
  BY <1>9, <1>10

(* A device name, the spaces that may follow it, then nothing or an extension:
   what the rules take for the device. *)
LEMMA DeviceIsReserved ==
  ASSUME NEW part \in Seq(Tokens), NEW device \in Devices, NEW n \in Nat, NEW q,
         DeviceSpelling(device, q, n), Len(q) <= Len(part),
         \A j \in 1..Len(q) : part[j] = q[j],
         Len(q) < Len(part) => part[Len(q) + 1] = "."
  PROVE  ReservedDevice(WindowsRules, part)
<1>1. PICK d \in Nat \ {0} : d = Len(device)
  BY DEF DeviceSpelling
<1>2. /\ q \in Seq(Tokens) /\ Len(q) = d + n /\ SubSeq(q, 1, d) = device
      /\ \A j \in 1..(d + n) : q[j] \in {"con", "com", "1", "sp"} /\ (q[j] = "sp" <=> j > d)
  BY <1>1 DEF DeviceSpelling
<1>3. ToSet(q) \intersect {"."} = {}
  <2>1. \A j \in DOMAIN q : q[j] # "."
    BY <1>2
  <2> QED
    BY <2>1 DEF ToSet
<1>4. Head(Split(part, {"."})) = q
  BY <1>2, <1>3, HeadOfSplit
<1>5. TrimEnd(q, {"sp"}) = device
  <2>1. PICK k \in 0..Len(q) :
          /\ TrimEnd(q, {"sp"}) = SubSeq(q, 1, k)
          /\ k = 0 \/ q[k] \notin {"sp"}
          /\ \A i \in DOMAIN q : i > k => q[i] \in {"sp"}
    BY <1>2, TrimEndStops
  <2>2. d \in DOMAIN q /\ q[d] # "sp" /\ DOMAIN q = 1..(d + n)
    BY <1>2
  <2>3. k >= d
    BY <2>1, <2>2
  <2>4. k <= d
    BY <1>2, <2>1, <2>2
  <2>5. k = d
    BY <2>3, <2>4
  <2> QED
    BY <1>2, <2>1, <2>5
<1> QED
  BY <1>4, <1>5 DEF ReservedDevice, WindowsRules

(* The two ways the host sees it. *)
LEMMA DeviceIsSeen ==
  ASSUME NEW part \in Seq(Tokens), NEW q \in Seq(Tokens)
  PROVE  (part = q \/ IsPrefix(q \o <<".">>, part))
           <=> /\ Len(q) <= Len(part) /\ \A j \in 1..Len(q) : part[j] = q[j]
               /\ Len(q) < Len(part) => part[Len(q) + 1] = "."
<1>1. PICK r \in Seq(Tokens) :
        /\ r = q \o <<".">> /\ Len(r) = Len(q) + 1 /\ r[Len(q) + 1] = "."
        /\ \A j \in 1..Len(q) : r[j] = q[j]
  BY DotAppended
<1>2. IsPrefix(r, part) <=> /\ Len(r) <= Len(part) /\ \A j \in 1..Len(q) : part[j] = q[j]
                            /\ part[Len(q) + 1] = "."
  <2>1. IsPrefix(r, part) <=> Len(r) <= Len(part) /\ \A j \in 1..Len(r) : part[j] = r[j]
    BY PrefixByToken
  <2>2. 1..Len(r) = 1..Len(q) \union {Len(q) + 1}
    BY <1>1
  <2> QED
    BY <1>1, <2>1, <2>2
<1>3. part = q <=> Len(part) = Len(q) /\ \A j \in 1..Len(q) : part[j] = q[j]
  OBVIOUS
<1>4. Len(part) \in Nat /\ Len(q) \in Nat
  OBVIOUS
<1> QED
  BY <1>1, <1>2, <1>3, <1>4

(* A part with no separator and no problem is held as it is spelled. *)
LEMMA NoProblemIsHeld ==
  ASSUME NEW windows \in BOOLEAN, NEW part \in Seq(Tokens), "/" \notin ToSet(part),
         Problems(HostRules(windows), part) = {}
  PROVE  Held(windows, part)
<1>1. /\ \A t \in ToSet(part) : FaultOf(HostRules(windows), t) = "none"
      /\ TrailingRun(HostRules(windows), part) = <<>>
      /\ ~ReservedDevice(HostRules(windows), part)
  BY DEF Problems
<1>2. CASE windows
  <2> DEFINE tokens == {".", "sp"}
  <2>1. HostRules(windows) = WindowsRules
    BY <1>2 DEF HostRules
  <2>2. \A t \in ToSet(part) : t \notin {"?", "\\", "/", ":", "nul", "ctl"}
    <3>1. \A t \in {"?", "\\", ":", "nul", "ctl"} : FaultOf(WindowsRules, t) # "none"
      BY DEF FaultOf, WindowsRules, Control
    <3> QED
      BY <1>1, <2>1, <3>1
  <2>3. TrimEnd(part, tokens) = part
    <3>1. PICK k \in 0..Len(part) : TrimEnd(part, tokens) = SubSeq(part, 1, k)
      BY TrimEndStops
    <3>2. Len(SubSeq(part, 1, k)) = k
      OBVIOUS
    <3>3. SubSeq(part, Len(TrimEnd(part, WindowsRules.trailing)) + 1, Len(part)) = <<>>
      BY <1>1, <2>1 DEF TrailingRun
    <3>4. WindowsRules.trailing = tokens
      BY DEF WindowsRules
    <3>5. SubSeq(part, k + 1, Len(part)) = <<>>
      BY <3>1, <3>2, <3>3, <3>4, Zenon
    <3>6. k = Len(part)
      BY <3>5
    <3>7. SubSeq(part, 1, Len(part)) = part
      OBVIOUS
    <3> QED
      BY <3>1, <3>6, <3>7
  <2>4. ASSUME NEW device \in Devices, NEW n \in 0..Len(part)
        PROVE  ~(part = device \o Spaces(n) \/ IsPrefix(device \o Spaces(n) \o <<".">>, part))
    <3> DEFINE q == device \o Spaces(n)
    <3>1. DeviceSpelling(device, q, n) /\ n \in Nat
      BY DeviceIsSpelled
    <3>2. q = device \o Spaces(n)
      OBVIOUS
    <3> HIDE DEF q
    <3>3. q \in Seq(Tokens)
      BY <3>1 DEF DeviceSpelling
    <3>4. ~(part = q \/ IsPrefix(q \o <<".">>, part))
      <4>1. ~ReservedDevice(WindowsRules, part)
        BY <1>1, <2>1
      <4>2. ~(/\ Len(q) <= Len(part) /\ \A j \in 1..Len(q) : part[j] = q[j]
              /\ Len(q) < Len(part) => part[Len(q) + 1] = ".")
        BY <3>1, <4>1, DeviceIsReserved
      <4> QED
        BY <3>3, <4>2, DeviceIsSeen
    <3> QED
      BY <3>2, <3>4
  <2> QED
    BY <1>2, <2>2, <2>3, <2>4 DEF Held, HeldByWindows, Spaces
<1>3. CASE ~windows
  <2>1. FaultOf(HostRules(windows), "nul") # "none"
    BY <1>3 DEF FaultOf, HostRules, UnixRules
  <2> QED
    BY <1>1, <1>3, <2>1 DEF Held
<1> QED
  BY <1>2, <1>3

(* What a folding host takes a part for. *)
FoldedPart(part) == [j \in DOMAIN part |-> IF part[j] = "X" THEN "x" ELSE part[j]]

(* Folding keeps the length of a part, and changes one token to another. *)
LEMMA FoldedPartIsSpelled ==
  ASSUME NEW part \in Seq(Tokens)
  PROVE  /\ FoldedPart(part) \in Seq(Tokens) /\ Len(FoldedPart(part)) = Len(part)
         /\ \A j \in 1..Len(part) : FoldedPart(part)[j] = IF part[j] = "X" THEN "x" ELSE part[j]
<1>1. "x" \in Tokens
  BY DEF Tokens
<1>2. /\ DOMAIN FoldedPart(part) = 1..Len(part)
      /\ \A j \in 1..Len(part) : FoldedPart(part)[j] = IF part[j] = "X" THEN "x" ELSE part[j]
  BY DEF FoldedPart
<1>3. FoldedPart(part) \in [1..Len(part) -> Tokens]
  BY <1>1 DEF FoldedPart
<1>4. Len(part) \in Nat
  OBVIOUS
<1>5. FoldedPart(part) \in Seq(Tokens)
  BY <1>3, <1>4
<1> QED
  BY <1>2, <1>4, <1>5

(* No folding makes a part one that the host does not hold. *)
LEMMA FoldingIsHeld ==
  ASSUME NEW windows \in BOOLEAN, NEW part \in Seq(Tokens), Held(windows, part)
  PROVE  Held(windows, FoldedPart(part))
<1> DEFINE f == FoldedPart(part)
<1>1. /\ f \in Seq(Tokens) /\ Len(f) = Len(part)
      /\ \A j \in 1..Len(part) : f[j] = IF part[j] = "X" THEN "x" ELSE part[j]
  BY FoldedPartIsSpelled
<1> HIDE DEF f
<1>2. \A t \in ToSet(f) : t \in ToSet(part) \/ t = "x"
  BY <1>1 DEF ToSet
<1>3. CASE windows
  <2>1. HeldByWindows(part)
    BY <1>3 DEF Held
  <2>2. ToSet(f) \intersect {"?", "\\", "/", ":", "nul", "ctl"} = {}
    BY <1>2, <2>1 DEF HeldByWindows
  <2>3. TrimEnd(f, {".", "sp"}) = f
    <3>1. part = <<>> \/ part[Len(part)] \notin {".", "sp"}
      BY <2>1, TrimEndIsAll DEF HeldByWindows
    <3>2. CASE part = <<>>
      <4>1. f = <<>>
        BY <1>1, <3>2
      <4> QED
        BY <1>1, <4>1, TrimEndIsAll
    <3>3. CASE part # <<>>
      <4>1. Len(part) \in 1..Len(part)
        BY <3>3
      <4>2. f[Len(f)] \notin {".", "sp"}
        BY <1>1, <3>1, <3>3, <4>1
      <4> QED
        BY <1>1, <4>2, TrimEndIsAll
    <3> QED
      BY <3>2, <3>3
  <2>4. ASSUME NEW device \in Devices, NEW n \in 0..Len(f)
        PROVE  ~(f = device \o Spaces(n) \/ IsPrefix(device \o Spaces(n) \o <<".">>, f))
    <3> DEFINE q == device \o Spaces(n)
    <3>1. DeviceSpelling(device, q, n) /\ n \in Nat
      BY DeviceIsSpelled
    <3>2. q = device \o Spaces(n)
      OBVIOUS
    <3> HIDE DEF q
    <3>3. q \in Seq(Tokens) /\ \A j \in 1..Len(q) : q[j] # "x"
      BY <3>1 DEF DeviceSpelling
    <3>4. ~(part = q \/ IsPrefix(q \o <<".">>, part))
      BY <1>1, <2>1, <3>2 DEF HeldByWindows, Spaces
    <3>5. ~(Len(q) <= Len(part) /\ (\A j \in 1..Len(q) : part[j] = q[j])
              /\ (Len(q) < Len(part) => part[Len(q) + 1] = "."))
      BY <3>3, <3>4, DeviceIsSeen
    <3>6. ~(Len(q) <= Len(f) /\ (\A j \in 1..Len(q) : f[j] = q[j])
              /\ (Len(q) < Len(f) => f[Len(q) + 1] = "."))
      BY <1>1, <3>3, <3>5
    <3>7. ~(f = q \/ IsPrefix(q \o <<".">>, f))
      BY <1>1, <3>3, <3>6, DeviceIsSeen
    <3> QED
      BY <3>2, <3>7
  <2> QED
    BY <1>3, <2>2, <2>3, <2>4 DEF Held, HeldByWindows, Spaces, f
<1>4. CASE ~windows
  BY <1>2, <1>4 DEF Held, f
<1> QED
  BY <1>3, <1>4

(* What a host writes of a name: its parts, but for the empty ones and ".". *)
LEMMA HostPartsAreParts ==
  ASSUME NEW windows, NEW name \in Seq(Tokens)
  PROVE  /\ HostParts(windows, name) \in Seq(Seq(Tokens))
         /\ ToSet(HostParts(windows, name))
              = ToSet(Split(name, Separators(windows))) \ {<<>>, <<".">>}
<1>1. Split(name, Separators(windows)) \in Seq(Seq(Tokens))
  BY SplitSpells
<1> QED
  BY <1>1, WithoutIsWhatIsLeft DEF HostParts

(* The names this host can hold, and that do not climb, are written under parts
   it holds, though they were judged by the parts between slashes alone. *)
LEMMA WrittenIsHeld ==
  ASSUME NEW windows \in BOOLEAN, NEW name \in Seq(Tokens),
         EntryProblems(HostRules(windows), name) = {}, ~Climbs(windows, name)
  PROVE  \A part \in ToSet(HostParts(windows, name)) :
           part \in Seq(Tokens) /\ Held(windows, part)
<1> DEFINE parts == Split(name, {"/"})
<1>1. /\ parts \in Seq(Seq(Tokens)) \ {<<>>}
      /\ UNION {ToSet(parts[k]) : k \in DOMAIN parts} = ToSet(name) \ {"/"}
  BY SplitSpells DEF Spelled
<1>2. ToSet(EntryComponents(name)) = ToSet(parts) \ {<<>>, <<".">>, DotDot}
  <2> HIDE DEF parts
  <2> QED
    BY <1>1, WithoutIsWhatIsLeft DEF EntryComponents, parts
<1> HIDE DEF parts
<1>3. \A part \in ToSet(parts) \ {<<>>, <<".">>, DotDot} :
        Problems(HostRules(windows), part) = {}
  BY <1>2 DEF EntryProblems
<1>4. ASSUME NEW part \in ToSet(parts) PROVE part \in Seq(Tokens) /\ "/" \notin ToSet(part)
  <2>1. PICK k \in DOMAIN parts : part = parts[k]
    BY <1>4 DEF ToSet
  <2>2. part \in Seq(Tokens)
    BY <1>1, <2>1
  <2> QED
    BY <1>1, <2>1, <2>2
<1>5. Split(name, Separators(windows)) = parts
  <2>1. CASE ~windows
    BY <2>1 DEF Separators, parts
  <2>2. CASE windows
    <3>1. "\\" \notin ToSet(name)
      <4> SUFFICES ASSUME "\\" \in ToSet(name) PROVE FALSE
        OBVIOUS
      <4>1. PICK k \in DOMAIN parts : "\\" \in ToSet(parts[k])
        BY <1>1
      <4>2. parts[k] \in ToSet(parts)
        BY <4>1 DEF ToSet
      <4>3. "\\" \notin ToSet(<<>>) /\ "\\" \notin ToSet(<<".">>) /\ "\\" \notin ToSet(DotDot)
        BY DEF ToSet, DotDot
      <4>4. Problems(HostRules(windows), parts[k]) = {}
        BY <1>3, <4>1, <4>2, <4>3
      <4>5. FaultOf(HostRules(windows), "\\") # "none"
        BY <2>2 DEF FaultOf, HostRules, WindowsRules
      <4> QED
        BY <4>1, <4>4, <4>5 DEF Problems
    <3>2. Split(name, {"/", "\\"}) = Split(name, {"/"})
      BY <3>1, SplitsAlike
    <3> QED
      BY <2>2, <3>2 DEF Separators, parts
  <2> QED
    BY <2>1, <2>2
<1>6. ASSUME NEW part \in ToSet(HostParts(windows, name))
      PROVE  part \in ToSet(parts) \ {<<>>, <<".">>, DotDot}
  BY <1>5, HostPartsAreParts DEF Climbs
<1> QED
  BY <1>3, <1>4, <1>6, NoProblemIsHeld
-----------------------------------------------------------------------------
(* The case at hand, and the type of what is made of it *)

(* What is asked stays the same. *)
LEMMA CaseStays == [Next]_vars => case' = case
BY DEF Next, vars, Begin, Open, OpenFails, EntryTraverses, EntryIsSkipped, ParentsAreOutside,
       ParentsAreBlocked, MakesDirectory, EntryIsBlocked, WritesFile, DataIsDamaged, WriteFails,
       Finish, Killed, Goes, Fails

(* What is asked is one of the cases the assumption speaks of. *)
LEMMA CaseIsTyped ==
  ASSUME IsCase
  PROVE  /\ host.windows \in BOOLEAN /\ host.folds \in BOOLEAN
         /\ archive \in Seq([name : Seq(Tokens), kind : Kinds])
         /\ \A path \in DOMAIN before :
              path \in Seq(Seq(Tokens)) \ {<<>>}
              /\ before[path] \in [kind : NodeKinds, by : {0}] \union Aliases
<1>1. PICK f \in Cases : case \in [host : f.host, archive : f.archive, format : f.format,
                                   front : f.front, damage : f.damage, tree : f.tree]
  BY DEF IsCase
<1>2. host \in f.host /\ archive \in f.archive /\ before \in f.tree
  BY <1>1 DEF host, archive, before
<1>3. host \in Hosts /\ archive \in Seq([name : Seq(Tokens), kind : Kinds])
  BY <1>2, CasesAssumption
<1>4. \A path \in DOMAIN before :
        /\ path \in Seq(Seq(Tokens)) \ {<<>>}
        /\ before[path] \in [kind : NodeKinds, by : {0}] \union Aliases
  BY <1>2, CasesAssumption
<1> QED
  BY <1>3, <1>4 DEF Hosts

(* What the host takes a path for has as many parts, each its own or folded. *)
LEMMA FoldIsTyped ==
  ASSUME NEW path \in Seq(Seq(Tokens))
  PROVE  /\ Fold(path) \in Seq(Seq(Tokens)) /\ Len(Fold(path)) = Len(path)
         /\ \A i \in 1..Len(path) : Fold(path)[i] \in {path[i], FoldedPart(path[i])}
<1>1. CASE ~host.folds
  BY <1>1 DEF Fold
<1>2. CASE host.folds
  <2>1. /\ DOMAIN Fold(path) = 1..Len(path)
        /\ \A i \in 1..Len(path) : Fold(path)[i] = FoldedPart(path[i])
    BY <1>2 DEF Fold, FoldedPart
  <2>2. \A i \in 1..Len(path) : FoldedPart(path[i]) \in Seq(Tokens)
    BY FoldedPartIsSpelled
  <2>3. Fold(path) \in [1..Len(path) -> Seq(Tokens)]
    <3>1. Fold(path) = [i \in 1..Len(path) |-> FoldedPart(path[i])]
      BY <1>2 DEF Fold, FoldedPart
    <3> QED
      BY <2>2, <3>1
  <2>4. Len(path) \in Nat
    OBVIOUS
  <2>5. Fold(path) \in Seq(Seq(Tokens)) /\ Len(Fold(path)) = Len(path)
    BY <2>3, <2>4, FunctionIsSequence
  <2> QED
    BY <2>1, <2>5
<1> QED
  BY <1>1, <1>2

(* The folders on the way to a path, and the path itself, are paths of its parts. *)
LEMMA AncestryIsTyped ==
  ASSUME NEW path \in Seq(Seq(Tokens)), NEW m \in Ancestry(path)
  PROVE  m \in Seq(Seq(Tokens)) /\ m # <<>> /\ ToSet(m) \subseteq ToSet(path)
<1>1. PICK k \in 1..Len(path) : m = SubSeq(path, 1, k)
  BY DEF Ancestry
<1>2. m \in Seq(Seq(Tokens)) /\ Len(m) = k /\ \A i \in 1..k : m[i] = path[i]
  BY <1>1
<1>3. DOMAIN m \subseteq DOMAIN path /\ \A i \in DOMAIN m : m[i] = path[i]
  BY <1>2
<1>4. ToSet(m) \subseteq ToSet(path)
  BY <1>3 DEF ToSet
<1> QED
  BY <1>2, <1>4

(* The entry at hand is one of the archive, and leads to a path. *)
LEMMA EntryIsTyped ==
  ASSUME IsCase, Writing, next \in 1..Len(archive) + 1
  PROVE  /\ next \in DOMAIN archive /\ Entry.name \in Seq(Tokens) /\ Entry.kind \in Kinds
         /\ Path \in Seq(Seq(Tokens))
<1> DEFINE Entries == [name : Seq(Tokens), kind : Kinds]
<1>1. next \in DOMAIN archive /\ Entry \in Entries
  <2>1. archive \in Seq(Entries)
    BY CaseIsTyped
  <2> HIDE DEF Entries
  <2>2. next \in 1..Len(archive)
    BY <2>1 DEF Writing
  <2> QED
    BY <2>1, <2>2 DEF Entry
<1>2. HostParts(host.windows, Entry.name) \in Seq(Seq(Tokens)) /\ <<>> \in Seq(Seq(Tokens))
  BY <1>1, HostPartsAreParts
<1> QED
  BY <1>1, <1>2 DEF Path, NormalPath, SanitizeEntryPath

(* An entry that is written goes to the parts of its name, none of them "..". *)
LEMMA PathIsHostParts ==
  ASSUME Placed
  PROVE  Path = HostParts(host.windows, Entry.name) /\ ~Climbs(host.windows, Entry.name)
BY DEF Placed, Traverses, Path, NormalPath, SanitizeEntryPath

(* What a step may do to the folder: nothing there is lost, and what is new is
   a folder on the way to the entry at hand, or that entry's own file. *)
Grown ==
  /\ DOMAIN tree \subseteq DOMAIN tree'
  /\ \A p \in DOMAIN tree' :
       \/ p \in DOMAIN tree /\ tree'[p] = tree[p]
       \/ /\ Placed /\ p \notin DOMAIN tree /\ tree'[p] = Node("dir", 0)
          /\ \E m \in Ancestry(Path) : p = Fold(m)
       \/ /\ Placed /\ Entry.kind # "dir" /\ ~InTheWay /\ p = Fold(Path)
          /\ \E kind \in {"file", "torn"} : tree'[p] = Node(kind, next)

(* Making the folders of an entry does no more than that, *)
LEMMA FoldersGrow ==
  ASSUME Placed, NEW more \in SUBSET Ancestry(Path), tree' = WithFolders(more)
  PROVE  Grown
BY DEF WithFolders, Grown

(* nor does writing its file, *)
LEMMA FileGrows ==
  ASSUME Placed, Entry.kind # "dir", ~InTheWay, NEW kind \in {"file", "torn"},
         tree' = WithFile(kind)
  PROVE  Grown
<1> DEFINE parents == WithFolders(Parents)
<1>1. /\ DOMAIN tree' = DOMAIN parents \union {Fold(Path)}
      /\ \A p \in DOMAIN tree' :
           tree'[p] = IF p = Fold(Path) THEN Node(kind, next) ELSE parents[p]
  BY DEF WithFile
<1>2. /\ DOMAIN parents = DOMAIN tree \union {Fold(m) : m \in Parents}
      /\ \A p \in DOMAIN parents :
           parents[p] = IF p \in DOMAIN tree THEN tree[p] ELSE Node("dir", 0)
  BY DEF WithFolders
<1>3. Parents \subseteq Ancestry(Path)
  BY DEF Parents
<1> HIDE DEF parents
<1> QED
  BY <1>1, <1>2, <1>3 DEF Grown

(* nor does any step. *)
LEMMA TreeGrows == [Next]_vars => Grown
<1> SUFFICES ASSUME [Next]_vars PROVE Grown
  OBVIOUS
<1>1. CASE tree' = tree
  BY <1>1 DEF Grown
<1>2. Parents \subseteq Ancestry(Path)
  BY DEF Parents
<1>3. CASE MakesDirectory
  BY <1>3, FoldersGrow DEF MakesDirectory, ParentsAreThere
<1>4. CASE EntryIsBlocked
  BY <1>2, <1>4, FoldersGrow DEF EntryIsBlocked, ParentsAreThere
<1>5. CASE WritesFile
  BY <1>1, <1>2, <1>5, FoldersGrow, FileGrows DEF WritesFile, Puts, ParentsAreThere
<1>6. CASE DataIsDamaged
  BY <1>2, <1>6, FoldersGrow, FileGrows DEF DataIsDamaged, ParentsAreThere
<1>7. CASE WriteFails
  BY <1>2, <1>7, FoldersGrow, FileGrows DEF WriteFails, Puts, ParentsAreThere
<1> QED
  BY <1>1, <1>3, <1>4, <1>5, <1>6, <1>7
     DEF Next, vars, Begin, Open, OpenFails, Finish, Killed, EntryTraverses, EntryIsSkipped,
         ParentsAreOutside, ParentsAreBlocked

(* What a step may do elsewhere: write the file that a link of the name of the
   entry at hand leads to. *)
Followed ==
  \/ elsewhere' = elsewhere
  \/ /\ Placed /\ Entry.kind # "dir" /\ Follows
     /\ \E kind \in {"file", "torn"} :
          elsewhere' = [elsewhere EXCEPT ![At(Path).by] = Node(kind, next)]

LEMMA StepsFollowed == [Next]_vars => Followed
BY DEF Followed, Next, vars, Begin, Open, OpenFails, EntryTraverses, EntryIsSkipped,
       ParentsAreOutside, ParentsAreBlocked, MakesDirectory, EntryIsBlocked, WritesFile,
       DataIsDamaged, WriteFails, Finish, Killed, Puts, ParentsAreThere

(* A link to a file leads to one of those elsewhere. *)
LEMMA AliasIsTyped ==
  ASSUME TypeOK, NEW path, IsA(path, {"alias"})
  PROVE  At(path).by \in Elsewhere /\ At(path) = Node("alias", At(path).by)
<1>1. /\ At(path).kind = "alias"
      /\ At(path) \in [kind : NodeKinds, by : 0..Len(archive)] \union Aliases
  BY DEF TypeOK, IsA, IsThere, At
<1>2. At(path) \notin [kind : NodeKinds, by : 0..Len(archive)]
  BY <1>1 DEF NodeKinds
<1> QED
  BY <1>1, <1>2 DEF Aliases, Node

(* Every variable keeps its type, whatever is asked. *)
THEOREM TypeCorrect == Spec => []TypeOK
<1>1. Init => TypeOK
  <2> SUFFICES ASSUME Init PROVE TypeOK
    OBVIOUS
  <2>1. IsCase /\ tree = before /\ Len(archive) \in Nat
    BY CaseIsTyped DEF Init
  <2>2. \A path \in DOMAIN tree :
          /\ path \in Seq(Seq(Tokens)) /\ path # <<>>
          /\ tree[path] \in [kind : NodeKinds, by : 0..Len(archive)] \union Aliases
    <3>1. [kind : NodeKinds, by : {0}] \subseteq [kind : NodeKinds, by : 0..Len(archive)]
      BY <2>1
    <3> QED
      BY <2>1, <3>1, CaseIsTyped
  <2>3. MaxFaults \in Nat
    BY BoundsAssumption
  <2>4. extracted \in Seq(Seq(Seq(Tokens))) /\ Len(extracted) < next
    BY DEF Init
  <2>5. elsewhere \in [Elsewhere -> [kind : {"file", "torn"}, by : 0..Len(archive)]]
    BY <2>1 DEF Init, Node
  <2> QED
    BY <2>1, <2>2, <2>3, <2>4, <2>5 DEF Init, TypeOK, Ended
<1>2. TypeOK /\ [Next]_vars => TypeOK'
  <2> SUFFICES ASSUME TypeOK, [Next]_vars PROVE TypeOK'
    OBVIOUS
  <2>1. case' = case /\ IsCase /\ archive' = archive
    BY CaseStays DEF TypeOK, archive
  <2>2. IsCase'
    BY <2>1 DEF IsCase
  <2>3. \A path \in DOMAIN tree' :
          /\ path \in Seq(Seq(Tokens)) /\ path # <<>>
          /\ tree'[path] \in [kind : NodeKinds, by : 0..Len(archive)] \union Aliases
    <3> SUFFICES ASSUME NEW path \in DOMAIN tree'
                 PROVE  /\ path \in Seq(Seq(Tokens)) /\ path # <<>>
                        /\ tree'[path] \in [kind : NodeKinds, by : 0..Len(archive)]
                                              \union Aliases
      OBVIOUS
    <3>1. CASE path \in DOMAIN tree /\ tree'[path] = tree[path]
      BY <3>1 DEF TypeOK
    <3>2. ASSUME Placed
          PROVE  /\ next \in 0..Len(archive) /\ Path \in Ancestry(Path)
                 /\ Path \in Seq(Seq(Tokens))
                 /\ \A m \in Ancestry(Path) :
                      Fold(m) \in Seq(Seq(Tokens)) /\ Fold(m) # <<>>
      <4>1. Path \in Seq(Seq(Tokens)) /\ Path # <<>> /\ next \in DOMAIN archive
        BY <3>2, EntryIsTyped DEF Placed, TypeOK
      <4>2. Path \in Ancestry(Path)
        <5>1. Len(Path) \in 1..Len(Path) /\ SubSeq(Path, 1, Len(Path)) = Path
          BY <4>1
        <5> QED
          BY <5>1 DEF Ancestry
      <4>3. ASSUME NEW m \in Ancestry(Path)
            PROVE  Fold(m) \in Seq(Seq(Tokens)) /\ Fold(m) # <<>>
        <5>1. m \in Seq(Seq(Tokens)) /\ m # <<>>
          BY <4>1, AncestryIsTyped
        <5>2. Fold(m) \in Seq(Seq(Tokens)) /\ Len(Fold(m)) = Len(m)
          BY <5>1, FoldIsTyped
        <5> QED
          BY <5>1, <5>2
      <4>4. next \in 0..Len(archive)
        BY <2>1, <4>1, CaseIsTyped
      <4> QED
        BY <4>1, <4>2, <4>3, <4>4
    <3>3. Len(archive) \in Nat
      BY <2>1, CaseIsTyped
    <3>4. CASE Placed /\ tree'[path] = Node("dir", 0) /\ \E m \in Ancestry(Path) : path = Fold(m)
      BY <3>2, <3>3, <3>4 DEF Node, NodeKinds
    <3>5. CASE /\ Placed /\ path = Fold(Path)
               /\ \E kind \in {"file", "torn"} : tree'[path] = Node(kind, next)
      BY <3>2, <3>3, <3>5 DEF Node, NodeKinds
    <3> QED
      BY <3>1, <3>4, <3>5, TreeGrows DEF Grown
  <2>4. /\ outside' \subseteq {"dir", "file"}
        /\ pc' \in Ended \union {"new", "admitted", "writing"}
    BY DEF TypeOK, Ended, Next, vars, Begin, Open, OpenFails, EntryTraverses, EntryIsSkipped,
           ParentsAreOutside, ParentsAreBlocked, MakesDirectory, EntryIsBlocked, WritesFile,
           DataIsDamaged, WriteFails, Finish, Killed, Goes, Fails
  <2>5. faults' \in 0..MaxFaults
    <3>1. faults \in 0..MaxFaults /\ MaxFaults \in Nat
      BY BoundsAssumption DEF TypeOK
    <3>2. faults' = faults \/ (faults < MaxFaults /\ faults' = faults + 1)
      BY DEF Fault, Next, vars, Begin, Open, OpenFails, EntryTraverses, EntryIsSkipped,
             ParentsAreOutside, ParentsAreBlocked, MakesDirectory, EntryIsBlocked, WritesFile,
             DataIsDamaged, WriteFails, Finish, Killed, Goes, Fails
    <3> QED
      BY <3>1, <3>2
  <2>6. /\ next' \in 1..Len(archive) + 1
        /\ extracted' \in Seq(Seq(Seq(Tokens))) /\ Len(extracted') < next'
    <3>1. /\ next \in 1..Len(archive) + 1 /\ Len(archive) \in Nat
          /\ extracted \in Seq(Seq(Seq(Tokens))) /\ Len(extracted) < next
      BY <2>1, CaseIsTyped DEF TypeOK
    <3>2. CASE next' = next /\ extracted' = extracted
      BY <3>1, <3>2
    <3>3. CASE Writing /\ next' = next + 1 /\ extracted' = extracted
      BY <3>1, <3>3 DEF Writing
    <3>4. CASE Writing /\ next' = next + 1 /\ extracted' = Append(extracted, Path)
      <4>1. Path \in Seq(Seq(Tokens))
        BY <2>1, <3>1, <3>4, EntryIsTyped
      <4>2. extracted' \in Seq(Seq(Seq(Tokens))) /\ Len(extracted') = Len(extracted) + 1
        BY <3>1, <3>4, <4>1
      <4> QED
        BY <3>1, <3>4, <4>2 DEF Writing
    <3> QED
      BY <3>2, <3>3, <3>4
         DEF Next, vars, Begin, Open, OpenFails, EntryTraverses, EntryIsSkipped,
             ParentsAreOutside, ParentsAreBlocked, MakesDirectory, EntryIsBlocked, WritesFile,
             DataIsDamaged, WriteFails, Finish, Killed, Goes, Fails, Placed, ParentsAreThere
  <2>7. elsewhere' \in [Elsewhere -> [kind : {"file", "torn"}, by : 0..Len(archive)]]
    <3>1. CASE elsewhere' = elsewhere
      BY <3>1 DEF TypeOK
    <3>2. ASSUME Placed, Follows, NEW kind \in {"file", "torn"},
                 elsewhere' = [elsewhere EXCEPT ![At(Path).by] = Node(kind, next)]
          PROVE  elsewhere' \in [Elsewhere -> [kind : {"file", "torn"}, by : 0..Len(archive)]]
      <4>1. next \in DOMAIN archive /\ archive \in Seq([name : Seq(Tokens), kind : Kinds])
        BY <2>1, <3>2, EntryIsTyped, CaseIsTyped DEF Placed, TypeOK
      <4>2. Node(kind, next) \in [kind : {"file", "torn"}, by : 0..Len(archive)]
        BY <3>2, <4>1 DEF Node
      <4> QED
        BY <3>2, <4>2 DEF TypeOK
    <3> QED
      BY <3>1, <3>2, StepsFollowed DEF Followed
  <2> QED
    BY <2>1, <2>2, <2>3, <2>4, <2>5, <2>6, <2>7 DEF TypeOK
<1> QED
  BY <1>1, <1>2, PTL DEF Spec

-----------------------------------------------------------------------------
(* Refusals *)

(* What makes run_extract or extract_with turn an archive away by its names. *)
NamesAreAtFault == damage = "listing" \/ Report(Rules, Listing) # {}

(* The report of the command line and the first fault the core stops at agree
   on which listings have one. *)
LEMMA ReportedIsUnwritable ==
  ASSUME NEW rules, NEW listing
  PROVE  Report(rules, listing) # {} <=> Unwritable(rules, listing)
<1>1. \A i \in DOMAIN listing :
        EntryProblems(rules, listing[i]) # {}
          <=> \E part \in ToSet(EntryComponents(listing[i])) : Problems(rules, part) # {}
  BY DEF EntryProblems
<1> QED
  BY <1>1 DEF Report, Unwritable

(* What is asked, and so what is at fault in it, stays the same. *)
LEMMA FaultsStay == [Next]_vars => case' = case /\ NamesAreAtFault' = NamesAreAtFault
<1> SUFFICES ASSUME [Next]_vars
             PROVE  case' = case /\ NamesAreAtFault' = NamesAreAtFault
  OBVIOUS
<1>1. case' = case
  BY CaseStays
<1>2. damage' = damage /\ Rules' = Rules /\ Listing' = Listing
  BY <1>1 DEF damage, Rules, host, Listing, Skipped, archive, format
<1>3. NamesAreAtFault' = NamesAreAtFault
  BY <1>2 DEF NamesAreAtFault
<1> QED
  BY <1>1, <1>3

(* An archive with a name this host cannot hold, or with no listing, is turned
   away before anything is written. *)
THEOREM RefusalsLeaveNoTrace == Spec => []RefusalLeavesNoTrace
<1>1. Init => RefusalLeavesNoTrace
  BY DEF Init, RefusalLeavesNoTrace
<1>2. RefusalLeavesNoTrace /\ [Next]_vars => RefusalLeavesNoTrace'
  <2> SUFFICES ASSUME RefusalLeavesNoTrace, [Next]_vars, NamesAreAtFault'
               PROVE  /\ tree' = before' /\ outside' = {}
                      /\ \A f \in Elsewhere : elsewhere'[f] = Node("file", 0)
                      /\ pc' \in {"new", "refused", "killed"}
    BY DEF RefusalLeavesNoTrace, NamesAreAtFault
  <2>1. NamesAreAtFault /\ before' = before
    BY FaultsStay DEF before
  <2>2. /\ tree = before /\ outside = {}
        /\ \A f \in Elsewhere : elsewhere[f] = Node("file", 0)
        /\ pc \in {"new", "refused", "killed"}
    BY <2>1 DEF RefusalLeavesNoTrace, NamesAreAtFault
  <2>3. Refused
    BY <2>1, ReportedIsUnwritable DEF NamesAreAtFault, Refused, CanList
  <2>4. CASE UNCHANGED vars
    BY <2>1, <2>2, <2>4 DEF vars
  <2>5. CASE Begin
    BY <2>1, <2>2, <2>3, <2>5 DEF Begin
  <2>6. CASE Killed
    BY <2>1, <2>2, <2>6 DEF Killed
  <2>7. pc # "admitted" /\ pc # "writing"
    BY <2>2
  <2> QED
    BY <2>4, <2>5, <2>6, <2>7
       DEF Next, Open, OpenFails, Finish, EntryTraverses, EntryIsSkipped, ParentsAreOutside,
           ParentsAreBlocked, MakesDirectory, EntryIsBlocked, WritesFile, DataIsDamaged,
           WriteFails, Placed, ParentsAreThere, Writing
<1> QED
  BY <1>1, <1>2, PTL DEF Spec

(* What follows from the case alone stays with it. *)
LEMMA CaseHasStayed ==
  ASSUME case' = case
  PROVE  /\ archive' = archive /\ IsTar' = IsTar /\ WrittenEntries' = WrittenEntries
         /\ \A i : Destination(i)' = Destination(i)
         /\ \A path : Fold(path)' = Fold(path)
BY DEF archive, IsTar, format, host, WrittenEntries, Destination, Skipped, Fold

(* The links to files in the folder are those it had. *)
LinksAreOld ==
  \A path \in DOMAIN tree : tree[path].kind = "alias" =>
    path \in DOMAIN before /\ before[path] = tree[path]

(* No step makes a link. *)
LEMMA LinksAreOldAlways == Spec => []LinksAreOld
<1>1. Init => LinksAreOld
  BY DEF Init, LinksAreOld
<1>2. LinksAreOld /\ [Next]_vars => LinksAreOld'
  <2> SUFFICES ASSUME LinksAreOld, [Next]_vars,
                      NEW path \in DOMAIN tree', tree'[path].kind = "alias"
               PROVE  path \in DOMAIN before /\ before[path] = tree'[path]
    BY CaseStays DEF LinksAreOld, before
  <2>1. path \in DOMAIN tree /\ tree'[path] = tree[path]
    BY TreeGrows DEF Grown, Node
  <2> QED
    BY <2>1 DEF LinksAreOld
<1> QED
  BY <1>1, <1>2, PTL DEF Spec

(* The entry at hand, when it is written, is one of those that are. *)
LEMMA PlacedIsWritten ==
  ASSUME TypeOK, Placed, Entry.kind # "dir"
  PROVE  next \in WrittenEntries /\ Destination(next) = Path
<1>1. next \in DOMAIN archive
  BY EntryIsTyped DEF Placed, TypeOK
<1>2. Destination(next) = Path
  BY DEF Destination, Path, Entry
<1> QED
  BY <1>1, <1>2 DEF WrittenEntries, Placed, Entry

(* However an entry is named, and wherever the links of the folder lead, its
   bytes go beyond one only where the whole name of a zip's or 7z's entry is
   that of a link to a file: the parents are looked at once they are made. *)
THEOREM FilesAreKeptInside == Spec => []FilesStayInside
<1>1. Init => FilesStayInside
  <2> SUFFICES ASSUME Init PROVE FilesStayInside
    OBVIOUS
  <2>1. archive \in Seq([name : Seq(Tokens), kind : Kinds])
    BY CaseIsTyped DEF Init
  <2>2. 0 \notin DOMAIN archive
    BY <2>1
  <2> QED
    BY <2>2 DEF Init, FilesStayInside, Node
<1>2. TypeOK /\ LinksAreOld /\ FilesStayInside /\ [Next]_vars => FilesStayInside'
  <2> SUFFICES ASSUME TypeOK, LinksAreOld, FilesStayInside, [Next]_vars PROVE FilesStayInside'
    OBVIOUS
  <2>1. "file" \notin outside'
    <3>1. CASE WritesFile
      <4>1. ~Beyond
        BY <3>1 DEF WritesFile, ParentsAreThere, IsInside, Beyond
      <4> QED
        BY <3>1, <4>1 DEF WritesFile, FilesStayInside
    <3>2. CASE ParentsAreOutside
      BY <3>2 DEF ParentsAreOutside, FilesStayInside
    <3> QED
      BY <3>1, <3>2
         DEF Next, vars, Begin, Open, OpenFails, Finish, Killed, EntryTraverses, EntryIsSkipped,
             ParentsAreBlocked, MakesDirectory, EntryIsBlocked, DataIsDamaged, WriteFails,
             FilesStayInside
  <2>2. ASSUME NEW f \in Elsewhere, NEW i \in DOMAIN archive, elsewhere'[f].by = i
        PROVE  NamesLinkTo(f, i)
    <3>1. CASE elsewhere'[f] = elsewhere[f]
      BY <2>2, <3>1 DEF FilesStayInside
    <3>2. ASSUME Placed, Entry.kind # "dir", Follows, NEW kind \in {"file", "torn"},
                 elsewhere' = [elsewhere EXCEPT ![At(Path).by] = Node(kind, next)],
                 elsewhere'[f] # elsewhere[f]
          PROVE  NamesLinkTo(f, i)
      <4>1. f = At(Path).by /\ i = next
        BY <2>2, <3>2 DEF Node, TypeOK
      <4>2. IsA(Path, {"alias"}) /\ ~IsTar
        BY <3>2 DEF Follows
      <4>3. /\ Fold(Path) \in DOMAIN tree
            /\ tree[Fold(Path)].kind = "alias" /\ tree[Fold(Path)] = Node("alias", f)
        BY <4>1, <4>2, AliasIsTyped DEF IsA, IsThere, At
      <4>4. Fold(Path) \in DOMAIN before /\ before[Fold(Path)] = Node("alias", f)
        BY <4>3 DEF LinksAreOld
      <4> QED
        BY <3>2, <4>1, <4>2, <4>4, PlacedIsWritten DEF NamesLinkTo
    <3> QED
      BY <3>1, <3>2, StepsFollowed DEF Followed
  <2>3. \A f, i : NamesLinkTo(f, i)' <=> NamesLinkTo(f, i)
    BY CaseStays, CaseHasStayed DEF before, NamesLinkTo
  <2>4. archive' = archive
    BY CaseStays, CaseHasStayed
  <2> QED
    BY <2>1, <2>2, <2>3, <2>4 DEF FilesStayInside
<1> QED
  BY <1>1, <1>2, TypeCorrect, LinksAreOldAlways, PTL DEF Spec

-----------------------------------------------------------------------------
(* What is written *)

(* An entry gets to be written only when no name of the listing was at fault. *)
LEMMA WrittenWithoutFault ==
  ASSUME IsCase, next \in 1..Len(archive) + 1, RefusalLeavesNoTrace, Placed
  PROVE  /\ next \in DOMAIN Listing /\ Listing[next] = Entry.name
         /\ \A part \in ToSet(Path) : part \in Seq(Tokens) /\ Held(host.windows, part)
<1>1. next \in DOMAIN archive /\ Entry.name \in Seq(Tokens)
  BY EntryIsTyped DEF Placed
<1>2. next \in DOMAIN Listing /\ Listing[next] = Entry.name
  BY <1>1 DEF Placed, Listing, Entry
<1>3. EntryProblems(Rules, Entry.name) = {}
  <2>1. Report(Rules, Listing) = {}
    BY DEF RefusalLeavesNoTrace, Placed, Writing
  <2> QED
    BY <1>2, <2>1 DEF Report
<1>4. host.windows \in BOOLEAN
  BY CaseIsTyped
<1>5. \A part \in ToSet(HostParts(host.windows, Entry.name)) :
        part \in Seq(Tokens) /\ Held(host.windows, part)
  BY <1>1, <1>3, <1>4, PathIsHostParts, WrittenIsHeld DEF Rules
<1> QED
  BY <1>2, <1>5, PathIsHostParts

(* Held is every part of a path made of held parts, once folded. *)
LEMMA FoldIsHeld ==
  ASSUME IsCase, NEW path \in Seq(Seq(Tokens)),
         \A part \in ToSet(path) : Held(host.windows, part)
  PROVE  \A part \in ToSet(Fold(path)) : Held(host.windows, part)
<1> SUFFICES ASSUME NEW part \in ToSet(Fold(path)) PROVE Held(host.windows, part)
  OBVIOUS
<1>1. Fold(path) \in Seq(Seq(Tokens)) /\ Len(Fold(path)) = Len(path)
  BY FoldIsTyped
<1>2. PICK i \in 1..Len(path) : part = Fold(path)[i]
  <2>1. PICK i \in DOMAIN Fold(path) : part = Fold(path)[i]
    BY DEF ToSet
  <2>2. i \in 1..Len(path)
    BY <1>1
  <2> QED
    BY <2>1, <2>2
<1>3. path[i] \in ToSet(path) /\ path[i] \in Seq(Tokens)
  BY DEF ToSet
<1>4. part \in {path[i], FoldedPart(path[i])}
  BY <1>2, FoldIsTyped
<1>5. host.windows \in BOOLEAN /\ Held(host.windows, path[i])
  BY <1>3, CaseIsTyped
<1>6. Held(host.windows, FoldedPart(path[i]))
  BY <1>3, <1>5, FoldingIsHeld
<1> QED
  BY <1>4, <1>5, <1>6

(* The names were judged by the parts between slashes, and are written by what
   the host takes for parts: every part of every path that a run makes is one
   the host holds as an ordinary file of exactly that name. *)
THEOREM WrittenNamesAreHeld == Spec => []WhatIsWrittenIsHeld
<1>1. Init => WhatIsWrittenIsHeld
  BY DEF Init, WhatIsWrittenIsHeld
<1>2. TypeOK /\ RefusalLeavesNoTrace /\ WhatIsWrittenIsHeld /\ [Next]_vars => WhatIsWrittenIsHeld'
  <2>1. [Next]_vars => host' = host /\ before' = before
    BY CaseStays DEF host, before
  <2> SUFFICES ASSUME TypeOK, RefusalLeavesNoTrace, WhatIsWrittenIsHeld, [Next]_vars,
                      NEW path \in DOMAIN tree' \ DOMAIN before
               PROVE  \A part \in ToSet(path) : Held(host.windows, part)
    BY <2>1 DEF WhatIsWrittenIsHeld
  <2>2. CASE path \in DOMAIN tree
    BY <2>2 DEF WhatIsWrittenIsHeld
  <2>3. CASE path \notin DOMAIN tree
    <3>1. PICK m \in {Path} \union Ancestry(Path) : Placed /\ path = Fold(m)
      BY <2>3, TreeGrows DEF Grown
    <3>2. IsCase /\ next \in 1..Len(archive) + 1
      BY DEF TypeOK
    <3>3. /\ Path \in Seq(Seq(Tokens))
          /\ \A part \in ToSet(Path) : Held(host.windows, part)
      BY <3>1, <3>2, EntryIsTyped, WrittenWithoutFault DEF Placed
    <3>4. m \in Seq(Seq(Tokens)) /\ ToSet(m) \subseteq ToSet(Path)
      BY <3>3, AncestryIsTyped
    <3> QED
      BY <3>1, <3>2, <3>3, <3>4, FoldIsHeld
  <2> QED
    BY <2>2, <2>3
<1> QED
  BY <1>1, <1>2, TypeCorrect, RefusalsLeaveNoTrace, PTL DEF Spec

-----------------------------------------------------------------------------
(* The archive *)

LeadsToArchive(i) ==
  LET path == SanitizeEntryPath(host.windows, archive[i].name) IN
    path # <<>> /\ Fold(path) \in DOMAIN before /\ before[Fold(path)].kind = "archive"

(* What the guard leaves behind it: no entry listed leads to the archive by the
   name that was judged, in the folder as it was. *)
ArchiveIsSpared ==
  /\ pc = "new" => tree = before
  /\ pc \in {"admitted", "writing"} => \A i \in DOMAIN Listing : ~LeadsToArchive(i)

(* The guard is what leaves it so, and no step after it changes what was judged. *)
LEMMA ArchiveIsSparedAlways == Spec => []ArchiveIsSpared
<1>1. Init => ArchiveIsSpared
  BY DEF Init, ArchiveIsSpared
<1>2. ArchiveIsSpared /\ [Next]_vars => ArchiveIsSpared'
  <2> SUFFICES ASSUME ArchiveIsSpared, [Next]_vars PROVE ArchiveIsSpared'
    OBVIOUS
  <2>1. host' = host /\ archive' = archive /\ format' = format /\ before' = before
    BY CaseStays DEF host, archive, format, before
  <2>2. Listing' = Listing /\ \A i : LeadsToArchive(i)' = LeadsToArchive(i)
    BY <2>1 DEF Listing, Skipped, LeadsToArchive, Fold
  <2>3. CASE Begin
    <3>1. tree = before
      BY <2>3 DEF Begin, ArchiveIsSpared
    <3>2. (\E i \in DOMAIN Listing : LeadsToArchive(i)) => OverwritesArchive
      BY <3>1 DEF OverwritesArchive, LeadsToArchive, Listing, IsA, IsThere, At
    <3> QED
      BY <2>2, <2>3, <3>2 DEF Begin, Refused, ArchiveIsSpared
  <2>4. CASE ~Begin
    <3>1. pc' \in {"admitted", "writing"} => pc \in {"admitted", "writing"}
      BY <2>4 DEF Next, vars, Open, OpenFails, EntryTraverses, EntryIsSkipped,
             ParentsAreOutside, ParentsAreBlocked, MakesDirectory, EntryIsBlocked, WritesFile,
             DataIsDamaged, WriteFails, Finish, Killed, Goes, Fails, Placed, ParentsAreThere,
             Writing, Ended
    <3>2. pc' = "new" => pc = "new" /\ tree' = tree
      BY <2>4 DEF Next, vars, Open, OpenFails, EntryTraverses, EntryIsSkipped,
             ParentsAreOutside, ParentsAreBlocked, MakesDirectory, EntryIsBlocked, WritesFile,
             DataIsDamaged, WriteFails, Finish, Killed, Goes, Fails, Placed, ParentsAreThere,
             Writing, Ended
    <3> QED
      BY <2>1, <2>2, <3>1, <3>2 DEF ArchiveIsSpared
  <2> QED
    BY <2>3, <2>4
<1> QED
  BY <1>1, <1>2, PTL DEF Spec

(* The guard judges a name with a root as no path at all, and the tar backend
   drops the root: what the theorem leaves out, and the README tells of. *)
NoRootInTar == IsTar => \A i \in DOMAIN archive : ~Rooted(host.windows, archive[i].name)

(* The guard and the backend read a name that is at no fault alike. *)
LEMMA JudgedAsWritten ==
  ASSUME IsCase, next \in 1..Len(archive) + 1, RefusalLeavesNoTrace, NoRootInTar, Placed
  PROVE  Path = SanitizeEntryPath(host.windows, archive[next].name)
<1>1. CASE ~IsTar
  BY <1>1 DEF Path, Entry
<1>2. CASE IsTar
  <2>1. next \in DOMAIN archive /\ ~Rooted(host.windows, Entry.name)
    BY <1>2, EntryIsTyped DEF NoRootInTar, Placed, Entry
  <2>2. Path = HostParts(host.windows, Entry.name) /\ ~Climbs(host.windows, Entry.name)
    BY PathIsHostParts
  <2>3. ASSUME NEW part \in ToSet(Path), HasDrive(host.windows, part) PROVE FALSE
    <3>1. part \in Seq(Tokens) /\ Held(host.windows, part) /\ host.windows
      BY <2>3, WrittenWithoutFault DEF HasDrive
    <3>2. ":" \notin ToSet(part)
      BY <3>1 DEF Held, HeldByWindows
    <3>3. 2 \in DOMAIN part /\ part[2] = ":"
      BY <2>3, <3>1 DEF HasDrive
    <3> QED
      BY <3>2, <3>3 DEF ToSet
  <2> QED
    BY <2>1, <2>2, <2>3 DEF SanitizeEntryPath, Entry
<1> QED
  BY <1>1, <1>2

(* No entry is written over the archive it is read from, by any name that the
   host takes for the archive's own. *)
THEOREM ArchivesSurvive == Spec => [](NoRootInTar => ArchiveSurvives)
<1>1. Init => ArchiveSurvives
  BY DEF Init, ArchiveSurvives
<1>2. TypeOK /\ RefusalLeavesNoTrace /\ ArchiveIsSpared /\ (NoRootInTar => ArchiveSurvives)
        /\ [Next]_vars => (NoRootInTar => ArchiveSurvives)'
  <2>1. [Next]_vars => NoRootInTar' = NoRootInTar
    BY CaseStays DEF NoRootInTar, IsTar, host, archive, format
  <2> SUFFICES ASSUME TypeOK, RefusalLeavesNoTrace, ArchiveIsSpared, NoRootInTar,
                      ArchiveSurvives, [Next]_vars
               PROVE  ArchiveSurvives'
    BY <2>1
  <2> SUFFICES ASSUME NEW path \in DOMAIN before, before[path].kind = "archive"
               PROVE  path \in DOMAIN tree' /\ tree'[path] = before[path]
    BY CaseStays DEF ArchiveSurvives, before
  <2>2. path \in DOMAIN tree /\ tree[path] = before[path] /\ path \in DOMAIN tree'
    BY TreeGrows DEF ArchiveSurvives, Grown
  <2>3. ASSUME Placed, path = Fold(Path) PROVE FALSE
    <3>1. IsCase /\ next \in 1..Len(archive) + 1
      BY DEF TypeOK
    <3>2. next \in DOMAIN Listing /\ Path = SanitizeEntryPath(host.windows, archive[next].name)
      BY <2>3, <3>1, JudgedAsWritten, WrittenWithoutFault
    <3>3. LeadsToArchive(next)
      BY <2>3, <3>2 DEF LeadsToArchive, Placed
    <3> QED
      BY <2>3, <3>2, <3>3 DEF ArchiveIsSpared, Placed, Writing
  <2> QED
    BY <2>2, <2>3, TreeGrows DEF Grown
<1> QED
  BY <1>1, <1>2, TypeCorrect, RefusalsLeaveNoTrace, ArchiveIsSparedAlways, PTL DEF Spec

-----------------------------------------------------------------------------
(* A run that says so *)

Going == {"new", "admitted", "writing", "ok"}

(* The entries read so far, that are written, and of those the ones that lead
   to the file entry i leads to. *)
Done == {i \in WrittenEntries : i < next}
SameAs(i) == {j \in Done : OneFile(Destination(j), Destination(i))}

(* While nothing has failed: each name that was read leads to the bytes of the
   last entry that leads there, through a link only where the format follows
   it, no entry was passed over, and each was reported. *)
ReadSoFar ==
  pc \in Going =>
    /\ pc = "ok" => next = Len(archive) + 1
    /\ \A i \in DOMAIN archive : i < next => IsTar \/ Destination(i) # <<>>
    /\ \A i \in Done :
         /\ IsThere(Destination(i))
         /\ IsTar => ~IsA(Destination(i), {"alias"})
         /\ \E j \in SameAs(i) :
              /\ Content(Destination(i)) = Node("file", j)
              /\ \A k \in SameAs(i) : k <= j
    /\ Len(extracted) = Cardinality(Done)

(* The entries read are finitely many, the one at hand not among them. *)
LEMMA DoneIsFinite ==
  ASSUME IsCase, next \in 1..Len(archive) + 1
  PROVE  IsFiniteSet(Done) /\ Done \subseteq 1..Len(archive) /\ next \notin Done
<1>1. Len(archive) \in Nat /\ DOMAIN archive = 1..Len(archive)
  BY CaseIsTyped
<1>2. Done \subseteq 1..Len(archive) /\ next \notin Done
  BY <1>1 DEF Done, WrittenEntries
<1>3. IsFiniteSet(1..Len(archive))
  BY <1>1, FS_Interval
<1> QED
  BY <1>2, <1>3, FS_Subset

(* Two names lead to one file for as long as what is at each stays. *)
LEMMA OneFileStays ==
  ASSUME case' = case, NEW p, NEW q,
         IsThere(p), IsThere(p)', At(p)' = At(p), IsThere(q), IsThere(q)', At(q)' = At(q)
  PROVE  OneFile(p, q)' = OneFile(p, q)
BY CaseHasStayed DEF OneFile, IsA

(* An entry read and not written changes nothing of what was read before. *)
LEMMA ReadPast ==
  ASSUME TypeOK, ReadSoFar, Writing, next' = next + 1, pc' = pc, case' = case,
         extracted' = extracted, elsewhere' = elsewhere, next \notin WrittenEntries,
         IsTar \/ Destination(next) # <<>>,
         DOMAIN tree \subseteq DOMAIN tree', \A p \in DOMAIN tree : tree'[p] = tree[p]
  PROVE  ReadSoFar'
<1>1. next \in Nat /\ Len(archive) \in Nat /\ DOMAIN archive = 1..Len(archive)
  BY CaseIsTyped DEF TypeOK
<1>2. Done' = Done
  <2>1. WrittenEntries \subseteq Nat
    BY <1>1 DEF WrittenEntries
  <2>2. \A i \in WrittenEntries : i < next + 1 <=> i < next
    BY <1>1, <2>1
  <2> QED
    BY <2>2, CaseHasStayed DEF Done
<1>3. pc = "writing" /\ pc' = "writing"
  BY DEF Writing
<1>4. ASSUME NEW i \in Done
      PROVE  /\ IsThere(Destination(i)) /\ IsThere(Destination(i))'
             /\ At(Destination(i))' = At(Destination(i))
  <2>1. Fold(Destination(i)) \in DOMAIN tree
    BY <1>3 DEF ReadSoFar, Going, IsThere
  <2> QED
    BY <2>1, CaseHasStayed DEF At, IsThere
<1>5. ASSUME NEW i \in Done
      PROVE  /\ SameAs(i)' = SameAs(i)
             /\ Content(Destination(i))' = Content(Destination(i))
             /\ IsA(Destination(i), {"alias"})' = IsA(Destination(i), {"alias"})
  <2>1. \A j \in Done : OneFile(Destination(j), Destination(i))'
                         = OneFile(Destination(j), Destination(i))
    BY <1>4, OneFileStays, CaseHasStayed
  <2>2. SameAs(i)' = SameAs(i)
    BY <1>2, <2>1, CaseHasStayed DEF SameAs
  <2> QED
    BY <1>4, <2>2, CaseHasStayed DEF Content, IsA
<1>6. \A i \in DOMAIN archive : i < next + 1 => IsTar \/ Destination(i) # <<>>
  BY <1>1, <1>3 DEF ReadSoFar, Going
<1>7. Len(extracted) = Cardinality(Done)
  BY <1>3 DEF ReadSoFar, Going
<1>8. ReadSoFar
  OBVIOUS
<1> QED
  BY <1>2, <1>3, <1>4, <1>6, <1>7, <1>5, <1>8, CaseHasStayed DEF ReadSoFar, Going

(* An entry written is the last of its name so far, and one more. *)
LEMMA ReadAndWritten ==
  ASSUME TypeOK, ReadSoFar, WritesFile, case' = case
  PROVE  ReadSoFar'
<1>1. next \in Nat /\ Len(archive) \in Nat /\ DOMAIN archive = 1..Len(archive) /\ IsCase
      /\ next \in 1..Len(archive) + 1
  BY CaseIsTyped DEF TypeOK
<1>2. pc = "writing" /\ pc' = "writing" /\ Placed /\ Writing /\ next' = next + 1
  BY DEF WritesFile, ParentsAreThere, Placed, Writing, Goes
<1>3. next \in DOMAIN archive /\ Destination(next) = Path /\ next \in WrittenEntries
  <2>1. next \in DOMAIN archive
    BY <1>1, <1>2, EntryIsTyped
  <2>2. Destination(next) = Path
    BY DEF Destination, Path, Entry
  <2> QED
    BY <1>2, <2>1, <2>2 DEF WrittenEntries, Placed, Entry, WritesFile
<1>4. Done' = Done \union {next} /\ next \notin Done /\ WrittenEntries \subseteq Nat
  <2>1. WrittenEntries \subseteq Nat
    BY <1>1 DEF WrittenEntries
  <2>2. \A i \in WrittenEntries : i < next + 1 <=> i < next \/ i = next
    BY <1>1, <2>1
  <2>3. Done' = {i \in WrittenEntries : i < next + 1}
    BY <1>2, CaseHasStayed DEF Done
  <2>4. Done' = Done \union {next}
    BY <1>3, <2>2, <2>3 DEF Done
  <2>5. next \notin Done
    BY <1>1 DEF Done
  <2> QED
    BY <2>1, <2>4, <2>5
<1>5. PICK n \in Nat : n = next
  BY <1>1
<1>6. Destination(n) = Path /\ n \in Done'
  BY <1>3, <1>4, <1>5
<1>7. Puts("file") /\ extracted' = Append(extracted, Path)
  BY DEF WritesFile, Beyond, ParentsAreThere, IsInside
<1>8. DOMAIN tree \subseteq DOMAIN tree' /\ \A i \in Done : IsThere(Destination(i))
  BY <1>2, TreeGrows DEF Next, Grown, ReadSoFar, Going
<1> DEFINE LastIsThere(i) ==
      /\ IsThere(Destination(i))'
      /\ IsTar => ~IsA(Destination(i), {"alias"})'
      /\ \E j \in SameAs(i)' : /\ Content(Destination(i))' = Node("file", j)
                                /\ \A k \in SameAs(i)' : k <= j
<1>9. \A k \in Done' : k <= n
  <2>1. \A k \in Done : k \in Nat /\ k < next
    BY <1>4 DEF Done
  <2> QED
    BY <1>1, <1>4, <1>5, <2>1
<1>10. ASSUME NEW i \in Done', OneFile(Destination(n), Destination(i))', IsThere(Destination(i))',
              IsTar => ~IsA(Destination(i), {"alias"})',
              Content(Destination(i))' = Node("file", n)
       PROVE  LastIsThere(i)
  <2>1. n \in SameAs(i)' /\ SameAs(i)' \subseteq Done'
    BY <1>6, <1>10, CaseHasStayed DEF SameAs
  <2> QED
    BY <1>9, <1>10, <2>1
<1>11. ASSUME NEW i \in Done, ~OneFile(Destination(n), Destination(i))',
              At(Destination(i))' = At(Destination(i)),
              Content(Destination(i))' = Content(Destination(i)),
              \A j \in Done : OneFile(Destination(j), Destination(i))'
                             = OneFile(Destination(j), Destination(i))
       PROVE  LastIsThere(i)
  <2>1. SameAs(i)' = SameAs(i)
    BY <1>4, <1>5, <1>11, CaseHasStayed DEF SameAs
  <2>2. /\ IsTar => ~IsA(Destination(i), {"alias"})
        /\ \E j \in SameAs(i) : /\ Content(Destination(i)) = Node("file", j)
                                 /\ \A k \in SameAs(i) : k <= j
    BY <1>2 DEF ReadSoFar, Going
  <2>3. IsThere(Destination(i)) /\ IsThere(Destination(i))'
    BY <1>8, CaseHasStayed DEF IsThere
  <2> QED
    BY <1>11, <2>1, <2>2, <2>3, CaseHasStayed DEF IsA
<1>12. ASSUME Follows PROVE \A i \in Done' : LastIsThere(i)
  <2>1. /\ ~IsTar /\ IsA(Destination(n), {"alias"}) /\ At(Destination(n)).by \in Elsewhere
        /\ At(Destination(n)) = Node("alias", At(Destination(n)).by)
    BY <1>12, <1>6, AliasIsTyped DEF Follows
  <2>2. elsewhere' = [elsewhere EXCEPT ![At(Destination(n)).by] = Node("file", n)]
    BY <1>7, <1>12, <1>5, <1>6 DEF Puts, At
  <2>3. \A p \in DOMAIN tree : p \in DOMAIN tree' /\ tree'[p] = tree[p]
    BY <1>7, <1>12 DEF Puts, WithFolders
  <2>4. ASSUME NEW i \in Done'
        PROVE  /\ IsThere(Destination(i)) /\ IsThere(Destination(i))'
               /\ At(Destination(i))' = At(Destination(i))
    <3>1. IsThere(Destination(i))
      BY <1>4, <1>8, <1>5, <2>1 DEF IsA
    <3> QED
      BY <2>3, <3>1, CaseHasStayed DEF IsThere, At
  <2>5. \A i, j \in Done' : OneFile(Destination(j), Destination(i))'
                            = OneFile(Destination(j), Destination(i))
    BY <2>4, OneFileStays, CaseHasStayed
  <2>6. ASSUME NEW i \in Done', OneFile(Destination(n), Destination(i))' PROVE LastIsThere(i)
    <3>1. OneFile(Destination(n), Destination(i))
      BY <1>6, <2>5, <2>6, CaseHasStayed
    <3>2. At(Destination(i)) = At(Destination(n))
      BY <3>1 DEF OneFile, At
    <3>3. At(Destination(i))' = At(Destination(n)) /\ IsThere(Destination(i))'
      BY <2>4, <3>2
    <3>4. Content(Destination(i))' = elsewhere'[At(Destination(n)).by]
      BY <2>1, <3>3 DEF Content, IsA
    <3>5. Content(Destination(i))' = Node("file", n)
      BY <2>1, <2>2, <3>4 DEF TypeOK
    <3> QED
      BY <1>10, <2>1, <2>4, <2>6, <3>5
  <2>7. ASSUME NEW i \in Done', ~OneFile(Destination(n), Destination(i))' PROVE LastIsThere(i)
    <3>1. ~OneFile(Destination(n), Destination(i))
      BY <1>6, <2>5, <2>7, CaseHasStayed
    <3>2. At(Destination(i)) # At(Destination(n)) /\ i \in Done
      BY <1>4, <1>5, <2>1, <2>4, <3>1 DEF OneFile
    <3>3. Content(Destination(i))' = Content(Destination(i))
      <4>1. CASE IsA(Destination(i), {"alias"})
        <5>1. At(Destination(i)) = Node("alias", At(Destination(i)).by)
          BY <4>1, AliasIsTyped
        <5>2. At(Destination(i)).by # At(Destination(n)).by
          BY <2>1, <3>2, <5>1
        <5>3. elsewhere'[At(Destination(i)).by] = elsewhere[At(Destination(i)).by]
          BY <2>2, <5>2, <4>1, AliasIsTyped DEF TypeOK
        <5>4. Content(Destination(i))' = elsewhere'[At(Destination(i)).by]
          BY <2>4, <4>1 DEF Content, IsA
        <5> QED
          BY <4>1, <5>3, <5>4 DEF Content
      <4>2. CASE ~IsA(Destination(i), {"alias"})
        BY <2>4, <4>2 DEF Content, IsA
      <4> QED
        BY <4>1, <4>2
    <3> QED
      BY <1>4, <1>11, <2>4, <2>5, <2>7, <3>2, <3>3
  <2> QED
    BY <2>6, <2>7
<1>13. ASSUME ~Follows PROVE \A i \in Done' : LastIsThere(i)
  <2>1. /\ Fold(Destination(n)) \in DOMAIN tree' /\ tree'[Fold(Destination(n))] = Node("file", n)
        /\ \A p \in DOMAIN tree : p # Fold(Destination(n)) => tree'[p] = tree[p]
        /\ elsewhere' = elsewhere
    BY <1>7, <1>13, <1>5, <1>6 DEF Puts, WithFile, WithFolders
  <2>2. /\ IsThere(Destination(n))' /\ At(Destination(n))' = Node("file", n)
        /\ ~IsA(Destination(n), {"alias"})'
    BY <2>1, CaseHasStayed DEF IsThere, At, IsA, Node
  <2>3. ASSUME NEW i \in Done', Fold(Destination(i)) = Fold(Destination(n)) PROVE LastIsThere(i)
    <3>1. /\ IsThere(Destination(i))' /\ At(Destination(i))' = Node("file", n)
          /\ OneFile(Destination(n), Destination(i))'
      BY <2>1, <2>3, CaseHasStayed DEF IsThere, At, OneFile
    <3>2. ~IsA(Destination(i), {"alias"})'
      BY <3>1 DEF IsA, Node
    <3>3. Content(Destination(i))' = Node("file", n)
      BY <3>1, <3>2 DEF Content
    <3> QED
      BY <1>10, <3>1, <3>2, <3>3
  <2>4. ASSUME NEW i \in Done', Fold(Destination(i)) # Fold(Destination(n)) PROVE LastIsThere(i)
    <3>1. i \in Done /\ IsThere(Destination(i)) /\ IsThere(Destination(i))'
      BY <1>4, <1>8, <1>5, <2>4, CaseHasStayed DEF IsThere
    <3>2. At(Destination(i))' = At(Destination(i))
      BY <2>1, <2>4, <3>1, CaseHasStayed DEF At, IsThere
    <3>3. Content(Destination(i))' = Content(Destination(i))
      BY <2>1, <3>1, <3>2 DEF Content, IsA
    <3>4. ~OneFile(Destination(n), Destination(i))'
      BY <2>2, <2>4, CaseHasStayed DEF OneFile
    <3>5. ASSUME NEW j \in Done
          PROVE  OneFile(Destination(j), Destination(i))'
                 = OneFile(Destination(j), Destination(i))
      <4>1. CASE Fold(Destination(j)) = Fold(Destination(n))
        <5>1. ~IsA(Destination(j), {"alias"})
          <6>1. IsA(Destination(j), {"alias"}) <=> IsA(Destination(n), {"alias"})
            BY <4>1 DEF IsA, IsThere, At
          <6>2. IsTar => ~IsA(Destination(j), {"alias"})
            BY <1>2 DEF ReadSoFar, Going
          <6> QED
            BY <1>13, <1>6, <6>1, <6>2 DEF Follows
        <5>2. ~IsA(Destination(j), {"alias"})'
          BY <2>1, <4>1, CaseHasStayed DEF IsA, At, Node
        <5>3. Fold(Destination(j))' = Fold(Destination(j))
              /\ Fold(Destination(i))' = Fold(Destination(i))
          BY CaseHasStayed
        <5> QED
          BY <5>1, <5>2, <5>3 DEF OneFile
      <4>2. CASE Fold(Destination(j)) # Fold(Destination(n))
        <5>1. IsThere(Destination(j)) /\ IsThere(Destination(j))'
          BY <1>8, CaseHasStayed DEF IsThere
        <5>2. At(Destination(j))' = At(Destination(j))
          BY <2>1, <4>2, <5>1, CaseHasStayed DEF At, IsThere
        <5> QED
          BY <3>1, <3>2, <5>1, <5>2, OneFileStays, CaseHasStayed
      <4> QED
        BY <4>1, <4>2
    <3> QED
      BY <1>11, <3>1, <3>2, <3>3, <3>4, <3>5
  <2> QED
    BY <2>3, <2>4
<1>14. \A i \in Done' : LastIsThere(i)
  BY <1>12, <1>13
<1>15. Len(extracted') = Cardinality(Done')
  <2>1. Len(extracted) = Cardinality(Done) /\ Path \in Seq(Seq(Tokens))
    BY <1>1, <1>2, EntryIsTyped DEF ReadSoFar, Going
  <2>2. Len(extracted') = Len(extracted) + 1
    BY <1>7, <2>1 DEF TypeOK
  <2>3. Cardinality(Done') = Cardinality(Done) + 1
    BY <1>1, <1>4, DoneIsFinite, FS_AddElement
  <2> QED
    BY <2>1, <2>2, <2>3
<1>16. \A i \in DOMAIN archive : i < next + 1 => IsTar \/ Destination(i) # <<>>
  BY <1>1, <1>2, <1>3 DEF ReadSoFar, Going, Placed
<1> QED
  BY <1>2, <1>14, <1>15, <1>16, CaseHasStayed DEF ReadSoFar

(* So it is of every run, step by step. *)
LEMMA ReadSoFarAlways == Spec => []ReadSoFar
<1>1. Init /\ TypeOK => ReadSoFar
  <2> SUFFICES ASSUME Init, TypeOK PROVE ReadSoFar
    OBVIOUS
  <2>1. DOMAIN archive \subseteq 1..Len(archive) /\ Len(archive) \in Nat
    BY CaseIsTyped DEF TypeOK
  <2>2. \A i \in DOMAIN archive : ~(i < next)
    BY <2>1 DEF Init
  <2>3. Done = {}
    BY <2>2 DEF Done, WrittenEntries
  <2>4. Cardinality(Done) = 0 /\ Len(extracted) = 0
    BY <2>3, FS_EmptySet DEF Init
  <2> QED
    BY <2>2, <2>3, <2>4 DEF Init, ReadSoFar
<1>2. TypeOK /\ ReadSoFar /\ [Next]_vars => ReadSoFar'
  <2> SUFFICES ASSUME TypeOK, ReadSoFar, [Next]_vars PROVE ReadSoFar'
    OBVIOUS
  <2>1. case' = case /\ IsCase /\ next \in 1..Len(archive) + 1
    BY CaseStays DEF TypeOK
  <2>2. CASE WritesFile
    BY <2>1, <2>2, ReadAndWritten
  <2>3. CASE MakesDirectory
    <3>1. Placed /\ Writing /\ Entry.kind = "dir" /\ Goes
      BY <2>3 DEF MakesDirectory, ParentsAreThere, Placed
    <3>2. next \notin WrittenEntries /\ (IsTar \/ Destination(next) # <<>>)
      BY <3>1 DEF WrittenEntries, Entry, Destination, Path, Placed
    <3>3. DOMAIN tree \subseteq DOMAIN tree' /\ \A p \in DOMAIN tree : tree'[p] = tree[p]
      BY <2>3 DEF MakesDirectory, WithFolders
    <3> QED
      BY <2>1, <2>3, <3>1, <3>2, <3>3, ReadPast DEF MakesDirectory, Goes
  <2>4. CASE EntryIsSkipped
    <3>1. Writing /\ IsTar /\ Goes /\ next \notin WrittenEntries
      BY <2>4 DEF EntryIsSkipped, WrittenEntries, Destination, Path, Entry
    <3> QED
      BY <2>1, <2>4, <3>1, ReadPast DEF EntryIsSkipped, Goes
  <2>5. CASE ~(WritesFile \/ MakesDirectory \/ EntryIsSkipped)
    <3>1. pc' \in Going => /\ next' = next /\ extracted' = extracted /\ tree' = tree
                           /\ elsewhere' = elsewhere
                           /\ pc \in Going
                           /\ pc' = "ok" => pc = "ok" \/ next > Len(archive)
      BY <2>5 DEF Going, Ended, Next, vars, Begin, Open, OpenFails, EntryTraverses,
             ParentsAreOutside, ParentsAreBlocked, EntryIsBlocked, DataIsDamaged, WriteFails,
             Finish, Killed, Fails, Placed, ParentsAreThere, Writing
    <3>2. ASSUME pc' \in Going PROVE Done' = Done /\ \A i : SameAs(i)' = SameAs(i)
      <4>1. Done' = Done
        BY <2>1, <3>1, <3>2, CaseHasStayed DEF Done
      <4> QED
        BY <2>1, <3>1, <3>2, <4>1, CaseHasStayed DEF SameAs, OneFile, IsA, IsThere, At
    <3>3. ASSUME pc' \in Going, NEW i
          PROVE  /\ IsThere(Destination(i))' = IsThere(Destination(i))
                 /\ IsA(Destination(i), {"alias"})' = IsA(Destination(i), {"alias"})
                 /\ Content(Destination(i))' = Content(Destination(i))
      BY <2>1, <3>1, <3>3, CaseHasStayed DEF IsThere, At, IsA, Content
    <3>4. Len(archive) \in Nat
      BY <2>1, CaseIsTyped
    <3>5. ASSUME pc' = "ok" PROVE next' = Len(archive) + 1
      BY <2>1, <3>1, <3>4, <3>5 DEF ReadSoFar, Going
    <3> QED
      BY <2>1, <3>1, <3>2, <3>3, <3>5, CaseHasStayed DEF ReadSoFar
  <2> QED
    BY <2>2, <2>3, <2>4, <2>5
<1> QED
  BY <1>1, <1>2, TypeCorrect, PTL DEF Spec

(* A run that ends well passed over no entry, left each name with the bytes of
   the last entry that leads to the same file, and reported every file once. *)
THEOREM SuccessIsWhole == Spec => []SuccessIsTheArchive
<1>1. TypeOK /\ ReadSoFar => SuccessIsTheArchive
  <2> SUFFICES ASSUME TypeOK, ReadSoFar, pc = "ok"
               PROVE  /\ \A i \in DOMAIN archive : IsTar \/ Destination(i) # <<>>
                      /\ \A i \in WrittenEntries :
                           /\ IsThere(Destination(i))
                           /\ Content(Destination(i)) = Node("file", LastOf(Destination(i)))
                      /\ Len(extracted) = Cardinality(WrittenEntries)
    BY DEF SuccessIsTheArchive
  <2>1. Len(archive) \in Nat /\ DOMAIN archive = 1..Len(archive)
    BY CaseIsTyped DEF TypeOK
  <2>2. /\ next = Len(archive) + 1
        /\ \A i \in DOMAIN archive : i < next => IsTar \/ Destination(i) # <<>>
        /\ \A i \in Done :
             /\ IsThere(Destination(i))
             /\ \E j \in SameAs(i) :
                  /\ Content(Destination(i)) = Node("file", j)
                  /\ \A k \in SameAs(i) : k <= j
        /\ Len(extracted) = Cardinality(Done)
    BY DEF ReadSoFar, Going
  <2>3. Done = WrittenEntries /\ \A i \in DOMAIN archive : i < next
    BY <2>1, <2>2 DEF Done, WrittenEntries
  <2>4. ASSUME NEW i \in WrittenEntries, NEW j \in SameAs(i), \A k \in SameAs(i) : k <= j
        PROVE  LastOf(Destination(i)) = j
    <3>1. SameAs(i) \in SUBSET (0..Len(archive)) /\ SameAs(i) # {}
      BY <2>1, <2>4 DEF SameAs, Done, WrittenEntries
    <3>2. Max(SameAs(i)) \in SameAs(i) /\ \A k \in SameAs(i) : Max(SameAs(i)) >= k
      BY <2>1, <3>1, MaxIsMax
    <3>3. Max(SameAs(i)) = j
      BY <2>4, <3>1, <3>2
    <3> QED
      BY <2>3, <3>3 DEF LastOf, SameAs
  <2> QED
    BY <2>2, <2>3, <2>4
<1> QED
  BY <1>1, TypeCorrect, ReadSoFarAlways, PTL
=============================================================================
