------------------------ MODULE ExorcismScanProofs ------------------------
(***************************************************************************)
(* Proofs about exorcism, first part, for every number of inputs and       *)
(* outputs, every starting cover and all sizes of the cube store, the      *)
(* queues and the range of IDs: facts about the operators of the model and  *)
(* about the tables of ExorLink, the inductive invariant IInv, and that the *)
(* script, the reading of a cube and the scans of the list keep it.         *)
(***************************************************************************)
EXTENDS Exorcism, FiniteSetTheorems, SequenceTheorems, TLAPS

-----------------------------------------------------------------------------
(* Least numbers, and what holds from the first place of a range on.        *)
LEMMA LeastOf ==
  ASSUME NEW S, S \subseteq Nat, S # {}
  PROVE  Smallest(S) \in S /\ \A y \in S : Smallest(S) <= y
<1>1. PICK x \in S : \A y \in S : ~(<<y, x>> \in OpToRel(<, Nat))
  BY WFMin, NatLessThanWellFounded
<1>2. \A y \in S : ~(y < x)
  BY <1>1 DEF OpToRel
<1>3. \A y \in S : x <= y
  BY <1>2
<1>. QED
  BY <1>3 DEF Smallest

LEMMA UpFromZero ==
  ASSUME NEW n \in Nat, NEW S, 0 \in S, \A k \in 0 .. n : k \in S /\ k < n => k + 1 \in S
  PROVE  0 .. n \subseteq S
<1>. SUFFICES ASSUME ~(0 .. n \subseteq S) PROVE FALSE
  OBVIOUS
<1>. PICK Missing : Missing = {k \in 0 .. n : k \notin S}
  OBVIOUS
<1>1. Missing \subseteq Nat /\ Missing # {}
  OBVIOUS
<1>2. PICK x \in Missing : \A y \in Missing : x <= y
  BY <1>1, LeastOf
<1>3. x \in 0 .. n /\ x \notin S /\ x # 0
  OBVIOUS
<1>4. x - 1 \in 0 .. n /\ x - 1 < n /\ (x - 1) + 1 = x /\ x - 1 < x
  BY <1>3
<1>5. x - 1 \in S
  BY <1>2, <1>4
<1>. QED
  BY <1>3, <1>4, <1>5

-----------------------------------------------------------------------------
(* Sequences without repetition, and what they hold.                        *)
Distinct(s) == \A i, j \in DOMAIN s : s[i] = s[j] => i = j

LEMMA SeqFacts ==
  ASSUME NEW S, NEW s \in Seq(S)
  PROVE  /\ Len(s) \in Nat /\ DOMAIN s = 1 .. Len(s)
         /\ \A i \in 1 .. Len(s) : s[i] \in S
         /\ Elements(s) = {s[i] : i \in 1 .. Len(s)}
         /\ Elements(s) \subseteq S
         /\ Distinct(s) <=> \A i, j \in 1 .. Len(s) : s[i] = s[j] => i = j
<1>1. Len(s) \in Nat /\ DOMAIN s = 1 .. Len(s)
  BY LenProperties
<1>2. \A i \in 1 .. Len(s) : s[i] \in S
  BY ElementOfSeq
<1>. QED
  BY <1>1, <1>2 DEF Elements, Distinct

LEMMA CountElements ==
  ASSUME NEW S, NEW s \in Seq(S), Distinct(s)
  PROVE  IsFiniteSet(Elements(s)) /\ Cardinality(Elements(s)) = Len(s)
<1>1. Len(s) \in Nat /\ s \in [1 .. Len(s) -> Elements(s)]
  <2>1. Len(s) \in Nat /\ DOMAIN s = 1 .. Len(s) /\ Elements(s) = {s[i] : i \in 1 .. Len(s)}
    BY SeqFacts
  <2>2. s = [i \in 1 .. Len(s) |-> s[i]]
    BY LenProperties
  <2>. QED
    BY <2>1, <2>2
<1>2. s \in Bijection(1 .. Len(s), Elements(s))
  <2>1. \A i, j \in 1 .. Len(s) : s[i] = s[j] => i = j
    BY SeqFacts
  <2>2. \A e \in Elements(s) : \E i \in 1 .. Len(s) : s[i] = e
    <3>1. Elements(s) = {s[i] : i \in 1 .. Len(s)}
      BY SeqFacts
    <3>. QED
      BY <3>1
  <2>3. s \in Injection(1 .. Len(s), Elements(s))
    BY <1>1, <2>1 DEF Injection, IsInjective
  <2>4. s \in Surjection(1 .. Len(s), Elements(s))
    BY <1>1, <2>2 DEF Surjection
  <2>. QED
    BY <2>3, <2>4 DEF Bijection
<1>3. IsFiniteSet(1 .. Len(s)) /\ Cardinality(1 .. Len(s)) = Len(s)
  <2>1. 1 \in Int /\ Len(s) \in Int
    BY <1>1
  <2>. QED
    BY <1>1, <2>1, FS_Interval
<1>. QED
  BY <1>2, <1>3, FS_Bijection DEF ExistsBijection

LEMMA ConcatFacts ==
  ASSUME NEW S, NEW s \in Seq(S), NEW t \in Seq(S)
  PROVE  /\ s \o t \in Seq(S) /\ Len(s \o t) = Len(s) + Len(t)
         /\ Elements(s \o t) = Elements(s) \cup Elements(t)
         /\ Distinct(s) /\ Distinct(t) /\ Elements(s) \cap Elements(t) = {} => Distinct(s \o t)
<1>1. PICK u : u = s \o t
  OBVIOUS
<1>2. PICK m, n : m = Len(s) /\ n = Len(t) /\ m \in Nat /\ n \in Nat
  BY SeqFacts
<1>3. u \in Seq(S) /\ Len(u) = m + n
  BY <1>1, <1>2, ConcatProperties
<1>4. \A i \in 1 .. m + n : u[i] = IF i <= m THEN s[i] ELSE t[i - m]
  BY <1>1, <1>2, ConcatProperties
<1>5. \A i \in 1 .. m : i \in 1 .. m + n /\ u[i] = s[i]
  BY <1>2, <1>4
<1>6. \A i \in 1 .. n : m + i \in 1 .. m + n /\ u[m + i] = t[i]
  <2>1. \A i \in 1 .. n : m + i \in 1 .. m + n /\ ~(m + i <= m) /\ (m + i) - m = i
    BY <1>2
  <2>. QED
    BY <1>4, <2>1
<1>7. \A i \in 1 .. m + n : i \in 1 .. m \/ (i - m \in 1 .. n /\ i = m + (i - m))
  BY <1>2
<1>8. Elements(u) = {u[i] : i \in 1 .. m + n}
  BY <1>3, SeqFacts
<1>9. Elements(s) = {s[i] : i \in 1 .. m} /\ Elements(t) = {t[i] : i \in 1 .. n}
  BY <1>2, SeqFacts
<1>10. Elements(u) = Elements(s) \cup Elements(t)
  BY <1>5, <1>6, <1>7, <1>8, <1>9
<1>11. ASSUME Distinct(s), Distinct(t), Elements(s) \cap Elements(t) = {}
       PROVE  Distinct(u)
  <2>1. /\ \A i, j \in 1 .. m : s[i] = s[j] => i = j
        /\ \A i, j \in 1 .. n : t[i] = t[j] => i = j
        /\ \A i \in 1 .. m : \A j \in 1 .. n : s[i] # t[j]
    <3>1. \A i, j \in 1 .. m : s[i] = s[j] => i = j
      BY <1>2, <1>11, SeqFacts
    <3>2. \A i, j \in 1 .. n : t[i] = t[j] => i = j
      BY <1>2, <1>11, SeqFacts
    <3>3. \A i \in 1 .. m : \A j \in 1 .. n : s[i] # t[j]
      BY <1>9, <1>11
    <3>. QED
      BY <3>1, <3>2, <3>3
  <2>2. SUFFICES ASSUME NEW i \in 1 .. m + n, NEW j \in 1 .. m + n, u[i] = u[j]
                 PROVE  i = j
    BY <1>3, SeqFacts
  <2>3. CASE i \in 1 .. m /\ j \in 1 .. m
    BY <1>5, <2>1, <2>2, <2>3
  <2>4. CASE i \in 1 .. m /\ j \notin 1 .. m
    <3>1. j - m \in 1 .. n /\ u[j] = t[j - m] /\ u[i] = s[i]
      BY <1>5, <1>6, <1>7, <2>4
    <3>. QED
      BY <2>1, <2>2, <2>4, <3>1
  <2>5. CASE i \notin 1 .. m /\ j \in 1 .. m
    <3>1. i - m \in 1 .. n /\ u[i] = t[i - m] /\ u[j] = s[j]
      BY <1>5, <1>6, <1>7, <2>5
    <3>. QED
      BY <2>1, <2>2, <2>5, <3>1
  <2>6. CASE i \notin 1 .. m /\ j \notin 1 .. m
    <3>1. i - m \in 1 .. n /\ u[i] = t[i - m] /\ j - m \in 1 .. n /\ u[j] = t[j - m]
      BY <1>6, <1>7, <2>6
    <3>2. i - m = j - m
      BY <2>1, <2>2, <3>1
    <3>. QED
      BY <1>2, <3>2
  <2>. QED
    BY <2>3, <2>4, <2>5, <2>6
<1>. QED
  BY <1>1, <1>2, <1>3, <1>10, <1>11

LEMMA OneFacts ==
  ASSUME NEW S, NEW x \in S
  PROVE  <<x>> \in Seq(S) /\ Len(<<x>>) = 1 /\ Elements(<<x>>) = {x} /\ Distinct(<<x>>)
<1>1. PICK t : t = <<x>>
  OBVIOUS
<1>2. t \in Seq(S) /\ Len(t) = 1 /\ t[1] = x
  BY <1>1
<1>3. \A i \in 1 .. 1 : i = 1
  OBVIOUS
<1>4. Elements(t) = {t[i] : i \in 1 .. 1}
  BY <1>2, SeqFacts
<1>5. Distinct(t)
  BY <1>2, <1>3, SeqFacts
<1>. QED
  BY <1>1, <1>2, <1>3, <1>4, <1>5

LEMMA TwoFacts ==
  ASSUME NEW S, NEW x \in S, NEW y \in S
  PROVE  /\ <<x, y>> \in Seq(S) /\ Len(<<x, y>>) = 2 /\ Elements(<<x, y>>) = {x, y}
         /\ x # y => Distinct(<<x, y>>)
<1>1. PICK t : t = <<x, y>>
  OBVIOUS
<1>2. t \in Seq(S) /\ Len(t) = 2 /\ t[1] = x /\ t[2] = y
  BY <1>1
<1>3. 1 \in 1 .. 2 /\ 2 \in 1 .. 2 /\ \A i \in 1 .. 2 : i = 1 \/ i = 2
  OBVIOUS
<1>4. Elements(t) = {t[i] : i \in 1 .. 2}
  BY <1>2, SeqFacts
<1>5. Elements(t) = {x, y}
  BY <1>2, <1>3, <1>4
<1>6. x # y => Distinct(t)
  <2>1. Distinct(t) <=> \A i, j \in 1 .. 2 : t[i] = t[j] => i = j
    BY <1>2, SeqFacts
  <2>. QED
    BY <1>2, <1>3, <2>1
<1>. QED
  BY <1>1, <1>2, <1>5, <1>6

LEMMA ConsFacts ==
  ASSUME NEW S, NEW s \in Seq(S), NEW x \in S
  PROVE  /\ <<x>> \o s \in Seq(S) /\ Len(<<x>> \o s) = Len(s) + 1
         /\ Elements(<<x>> \o s) = Elements(s) \cup {x}
         /\ Distinct(s) /\ x \notin Elements(s) => Distinct(<<x>> \o s)
         /\ <<x>> \o s # <<>> /\ Head(<<x>> \o s) = x
<1>1. <<x>> \in Seq(S) /\ Len(<<x>>) = 1 /\ Elements(<<x>>) = {x} /\ Distinct(<<x>>)
  BY OneFacts
<1>2. PICK u : u = <<x>> \o s
  OBVIOUS
<1>0. PICK t : t = <<x>>
  OBVIOUS
<1>8. t \in Seq(S) /\ Len(t) = 1 /\ t[1] = x
  BY <1>0
<1>3. u \in Seq(S) /\ Len(u) = 1 + Len(s) /\ Elements(u) = {x} \cup Elements(s)
  <2>1. t \in Seq(S) /\ Len(t) = 1 /\ Elements(t) = {x} /\ u = t \o s
    <3>1. u = t \o s
      BY <1>0, <1>2
    <3>2. Elements(t) = {x}
      BY <1>0, <1>1
    <3>. QED
      BY <1>8, <3>1, <3>2
  <2>2. /\ t \o s \in Seq(S) /\ Len(t \o s) = Len(t) + Len(s)
        /\ Elements(t \o s) = Elements(t) \cup Elements(s)
    BY <1>8, ConcatFacts
  <2>. QED
    BY <2>1, <2>2
<1>4. Distinct(s) /\ x \notin Elements(s) => Distinct(u)
  <2>1. t \in Seq(S) /\ Elements(t) = {x} /\ u = t \o s /\ Distinct(t)
    BY <1>0, <1>1, <1>2
  <2>. QED
    BY <2>1, ConcatFacts
<1>5. Len(s) \in Nat
  BY SeqFacts
<1>6. u # <<>> /\ Head(u) = x
  BY <1>2
<1>. QED
  BY <1>2, <1>3, <1>4, <1>5, <1>6

LEMMA TailFacts ==
  ASSUME NEW S, NEW s \in Seq(S), s # <<>>, Distinct(s)
  PROVE  /\ Head(s) \in Elements(s) /\ Head(s) \in S
         /\ Tail(s) \in Seq(S) /\ Distinct(Tail(s))
         /\ Elements(Tail(s)) = Elements(s) \ {Head(s)}
<1>1. PICK t, n : t = Tail(s) /\ n = Len(t) /\ n \in Nat /\ Len(s) = n + 1 /\ t \in Seq(S)
  <2>1. Tail(s) \in Seq(S) /\ Len(Tail(s)) = Len(s) - 1
    BY HeadTailProperties
  <2>2. PICK u : u = Tail(s)
    OBVIOUS
  <2>3. Len(u) \in Nat /\ Len(s) \in Nat
    BY <2>1, <2>2, SeqFacts
  <2>4. Len(s) = Len(u) + 1
    BY <2>1, <2>2, <2>3
  <2>. QED
    BY <2>1, <2>2, <2>3, <2>4
<1>2. \A i \in 1 .. n : t[i] = s[i + 1]
  BY <1>1, HeadTailProperties
<1>3. Head(s) = s[1]
  OBVIOUS
<1>4. \A i, j \in 1 .. n + 1 : s[i] = s[j] => i = j
  BY <1>1, SeqFacts
<1>5. Elements(s) = {s[i] : i \in 1 .. n + 1} /\ Elements(t) = {t[i] : i \in 1 .. n}
  <2>1. DOMAIN s = 1 .. Len(s) /\ DOMAIN t = 1 .. Len(t)
    BY <1>1, SeqFacts
  <2>2. DOMAIN s = 1 .. n + 1 /\ DOMAIN t = 1 .. n
    BY <1>1, <2>1
  <2>. QED
    BY <2>2 DEF Elements
<1>6. 1 \in 1 .. n + 1 /\ \A i \in 1 .. n : i + 1 \in 1 .. n + 1 /\ i + 1 # 1
  BY <1>1
<1>7. \A i \in 1 .. n + 1 : i = 1 \/ (i - 1 \in 1 .. n /\ i = (i - 1) + 1)
  BY <1>1
<1>8. Elements(t) = Elements(s) \ {s[1]}
  BY <1>2, <1>4, <1>5, <1>6, <1>7
<1>9. Distinct(t)
  <2>1. SUFFICES ASSUME NEW i \in 1 .. n, NEW j \in 1 .. n, t[i] = t[j] PROVE i = j
    BY <1>1, SeqFacts
  <2>2. i + 1 = j + 1
    BY <1>2, <1>4, <1>6, <2>1
  <2>. QED
    BY <2>2
<1>10. Head(s) \in S
  BY HeadTailProperties
<1>. QED
  BY <1>1, <1>3, <1>5, <1>6, <1>8, <1>9, <1>10

(* The two parts of a sequence that SubSeq cuts.                            *)
LEMMA PartFacts ==
  ASSUME NEW S, NEW s \in Seq(S), NEW n \in 0 .. Len(s)
  PROVE  /\ SubSeq(s, 1, n) \in Seq(S) /\ Len(SubSeq(s, 1, n)) = n
         /\ \A i \in 1 .. n : SubSeq(s, 1, n)[i] = s[i]
         /\ SubSeq(s, n + 1, Len(s)) \in Seq(S)
         /\ Elements(SubSeq(s, 1, n)) = {s[i] : i \in 1 .. n}
         /\ Distinct(s) => /\ Distinct(SubSeq(s, 1, n)) /\ Distinct(SubSeq(s, n + 1, Len(s)))
                           /\ Elements(SubSeq(s, n + 1, Len(s)))
                                = Elements(s) \ Elements(SubSeq(s, 1, n))
<1>1. PICK m : m = Len(s) /\ m \in Nat /\ n \in Nat /\ n <= m
  BY SeqFacts
<1>2. \A i \in 1 .. m : s[i] \in S
  BY <1>1, SeqFacts
<1>3. PICK a : a = SubSeq(s, 1, n)
  OBVIOUS
<1>4. PICK b : b = SubSeq(s, n + 1, m)
  OBVIOUS
<1>5. /\ a \in Seq(S) /\ Len(a) = n /\ \A i \in 1 .. n : a[i] = s[i]
  <2>1. \A i \in 1 .. n : s[i] \in S
    BY <1>1, <1>2
  <2>2. 1 \in Int /\ n \in Int
    BY <1>1
  <2>3. /\ a \in Seq(S) /\ Len(a) = (IF 1 <= n THEN n - 1 + 1 ELSE 0)
        /\ \A i \in 1 .. n - 1 + 1 : a[i] = s[1 + i - 1]
    BY <1>3, <2>1, <2>2, SubSeqProperties
  <2>4. (IF 1 <= n THEN n - 1 + 1 ELSE 0) = n /\ n - 1 + 1 = n
    BY <1>1
  <2>. QED
    BY <2>3, <2>4
<1>6. /\ b \in Seq(S) /\ Len(b) = m - n /\ \A i \in 1 .. m - n : b[i] = s[n + i]
  <2>1. \A i \in n + 1 .. m : s[i] \in S
    BY <1>1, <1>2
  <2>2. n + 1 \in Int /\ m \in Int
    BY <1>1
  <2>3. /\ b \in Seq(S) /\ Len(b) = (IF n + 1 <= m THEN m - (n + 1) + 1 ELSE 0)
        /\ \A i \in 1 .. m - (n + 1) + 1 : b[i] = s[(n + 1) + i - 1]
    BY <1>4, <2>1, <2>2, SubSeqProperties
  <2>4. (IF n + 1 <= m THEN m - (n + 1) + 1 ELSE 0) = m - n /\ m - (n + 1) + 1 = m - n
    BY <1>1
  <2>5. \A i \in 1 .. m - n : (n + 1) + i - 1 = n + i
    BY <1>1
  <2>. QED
    BY <2>3, <2>4, <2>5
<1>7. Elements(a) = {s[i] : i \in 1 .. n}
  <2>1. Elements(a) = {a[i] : i \in 1 .. n}
    BY <1>5, SeqFacts
  <2>. QED
    BY <1>5, <2>1
<1>8. ASSUME Distinct(s)
      PROVE  Distinct(a) /\ Distinct(b) /\ Elements(b) = Elements(s) \ Elements(a)
  <2>1. \A i, j \in 1 .. m : s[i] = s[j] => i = j
    BY <1>1, <1>8, SeqFacts
  <2>2. \A i \in 1 .. n : i \in 1 .. m
    BY <1>1
  <2>3. \A i \in 1 .. m - n : n + i \in 1 .. m /\ n + i \notin 1 .. n
    BY <1>1
  <2>4. Distinct(a)
    BY <1>5, <2>1, <2>2, SeqFacts
  <2>5. Distinct(b)
    <3>1. SUFFICES ASSUME NEW i \in 1 .. m - n, NEW j \in 1 .. m - n, b[i] = b[j] PROVE i = j
      BY <1>6, SeqFacts
    <3>2. n + i = n + j
      BY <1>6, <2>1, <2>3, <3>1
    <3>. QED
      BY <1>1, <3>2
  <2>6. \A i \in 1 .. m : i \in 1 .. n \/ (i - n \in 1 .. m - n /\ n + (i - n) = i)
    BY <1>1
  <2>7. Elements(s) = {s[i] : i \in 1 .. m}
    BY <1>1, SeqFacts
  <2>8. Elements(b) = {b[i] : i \in 1 .. m - n}
    BY <1>6, SeqFacts
  <2>9. Elements(b) = {s[n + i] : i \in 1 .. m - n}
    BY <1>6, <2>8
  <2>10. Elements(b) = Elements(s) \ Elements(a)
    BY <1>7, <2>1, <2>2, <2>3, <2>6, <2>7, <2>9
  <2>. QED
    BY <2>4, <2>5, <2>10
<1>. QED
  BY <1>1, <1>3, <1>4, <1>5, <1>6, <1>7, <1>8

(* CubeExtract takes just the given cell out.                               *)
LEMMA WithoutFacts ==
  ASSUME NEW S, NEW s \in Seq(S), Distinct(s), NEW x \in Elements(s)
  PROVE  /\ Without(s, x) \in Seq(S) /\ Distinct(Without(s, x))
         /\ Elements(Without(s, x)) = Elements(s) \ {x}
         /\ Len(Without(s, x)) = Len(s) - 1
<1>1. PICK n : n = Len(s) /\ n \in Nat
  BY SeqFacts
<1>2. PICK k : k = CHOOSE i \in DOMAIN s : s[i] = x
  OBVIOUS
<1>3. k \in 1 .. n /\ s[k] = x /\ n - 1 \in Nat
  <2>1. k \in DOMAIN s /\ s[k] = x
    BY <1>2 DEF Elements
  <2>2. k \in 1 .. n
    BY <1>1, <2>1, SeqFacts
  <2>. QED
    BY <1>1, <2>1, <2>2
<1>4. PICK t : t = [j \in 1 .. n - 1 |-> IF j < k THEN s[j] ELSE s[j + 1]]
  OBVIOUS
<1>5. Without(s, x) = t
  BY <1>1, <1>2, <1>4 DEF Without
<1>6. \A j \in 1 .. n - 1 : j \in 1 .. n /\ j + 1 \in 1 .. n
  BY <1>1
<1>7. \A i \in 1 .. n : s[i] \in S
  BY <1>1, SeqFacts
<1>8. t \in Seq(S) /\ Len(t) = n - 1
  BY <1>3, <1>4, <1>6, <1>7
<1>9. \A i, j \in 1 .. n : s[i] = s[j] => i = j
  BY <1>1, SeqFacts
<1>10. \A j \in 1 .. n - 1 : /\ j < k => t[j] = s[j] /\ j # k
                             /\ ~(j < k) => t[j] = s[j + 1] /\ j + 1 # k
  BY <1>1, <1>3, <1>4
<1>11. Distinct(t)
  <2>1. SUFFICES ASSUME NEW i \in 1 .. n - 1, NEW j \in 1 .. n - 1, t[i] = t[j] PROVE i = j
    BY <1>8, SeqFacts
  <2>2. CASE i < k /\ j < k
    BY <1>6, <1>9, <1>10, <2>1, <2>2
  <2>3. CASE i < k /\ ~(j < k)
    <3>1. i = j + 1
      BY <1>6, <1>9, <1>10, <2>1, <2>3
    <3>. QED
      BY <1>3, <2>3, <3>1
  <2>4. CASE ~(i < k) /\ j < k
    <3>1. j = i + 1
      BY <1>6, <1>9, <1>10, <2>1, <2>4
    <3>. QED
      BY <1>3, <2>4, <3>1
  <2>5. CASE ~(i < k) /\ ~(j < k)
    <3>1. i + 1 = j + 1
      BY <1>6, <1>9, <1>10, <2>1, <2>5
    <3>. QED
      BY <3>1
  <2>. QED
    BY <2>2, <2>3, <2>4, <2>5
<1>12. Elements(t) = {t[j] : j \in 1 .. n - 1} /\ Elements(s) = {s[i] : i \in 1 .. n}
  BY <1>1, <1>8, SeqFacts
<1>13. Elements(t) \subseteq Elements(s) \ {x}
  <2>1. SUFFICES ASSUME NEW j \in 1 .. n - 1 PROVE t[j] \in Elements(s) \ {x}
    BY <1>12
  <2>2. PICK i \in 1 .. n : t[j] = s[i] /\ i # k
    BY <1>6, <1>10
  <2>. QED
    BY <1>3, <1>9, <1>12, <2>2
<1>14. Elements(s) \ {x} \subseteq Elements(t)
  <2>1. SUFFICES ASSUME NEW i \in 1 .. n, i # k PROVE s[i] \in Elements(t)
    BY <1>3, <1>12
  <2>2. CASE i < k
    <3>1. i \in 1 .. n - 1
      BY <1>1, <1>3, <2>2
    <3>. QED
      BY <1>10, <1>12, <2>2, <3>1
  <2>3. CASE ~(i < k)
    <3>1. i - 1 \in 1 .. n - 1 /\ ~(i - 1 < k) /\ (i - 1) + 1 = i
      <4>1. k < i
        BY <1>3, <2>1, <2>3
      <4>. QED
        BY <1>1, <1>3, <4>1
    <3>2. t[i - 1] = s[i]
      BY <1>10, <3>1
    <3>. QED
      BY <1>12, <3>1, <3>2
  <2>. QED
    BY <2>2, <2>3
<1>. QED
  BY <1>1, <1>5, <1>8, <1>11, <1>13, <1>14

-----------------------------------------------------------------------------
(* The function that Chosen evaluates.                                      *)
Takes(f, s, T, n) ==
  f = [i \in 0 .. n |-> IF i = 0 THEN <<>>
                        ELSE IF s[i] \in T THEN Append(f[i - 1], s[i]) ELSE f[i - 1]]

LEMMA TakesExist == ASSUME NEW s, NEW T, NEW n \in Nat PROVE \E f : Takes(f, s, T, n)
<1>1. PICK Exist : Exist = {k \in 0 .. n : \E f : Takes(f, s, T, k)}
  OBVIOUS
<1>2. 0 \in Exist
  <2>1. PICK f : f = [i \in 0 .. 0 |-> <<>>]
    OBVIOUS
  <2>2. \A i \in 0 .. 0 : i = 0
    OBVIOUS
  <2>3. f = [i \in 0 .. 0 |-> IF i = 0 THEN <<>>
                              ELSE IF s[i] \in T THEN Append(f[i - 1], s[i]) ELSE f[i - 1]]
    BY <2>1, <2>2
  <2>. QED
    BY <1>1, <2>3 DEF Takes
<1>3. ASSUME NEW k \in 0 .. n, k \in Exist, k < n
      PROVE  k + 1 \in Exist
  <2>1. PICK f : Takes(f, s, T, k)
    BY <1>1, <1>3
  <2>2. \A i \in 0 .. k : f[i] = IF i = 0 THEN <<>>
                                 ELSE IF s[i] \in T THEN Append(f[i - 1], s[i]) ELSE f[i - 1]
    BY <2>1 DEF Takes
  <2>3. /\ k \in 0 .. k /\ k + 1 \in 0 .. k + 1 /\ k + 1 # 0 /\ (k + 1) - 1 = k
        /\ k + 1 \notin 0 .. k
    OBVIOUS
  <2>4. \A i \in 0 .. k : i \in 0 .. k + 1
    OBVIOUS
  <2>5. \A i \in 0 .. k + 1 : i = k + 1 \/ i \in 0 .. k
    OBVIOUS
  <2>6. \A i \in 0 .. k : i = 0 \/ i - 1 \in 0 .. k
    OBVIOUS
  <2>7. PICK x : x = IF s[k + 1] \in T THEN Append(f[k], s[k + 1]) ELSE f[k]
    OBVIOUS
  <2>8. PICK h : h = [i \in 0 .. k + 1 |-> IF i = k + 1 THEN x ELSE f[i]]
    OBVIOUS
  <2>9. h[k + 1] = x /\ \A i \in 0 .. k : h[i] = f[i]
    BY <2>3, <2>4, <2>8
  <2>10. \A i \in 0 .. k + 1 :
           h[i] = IF i = 0 THEN <<>>
                  ELSE IF s[i] \in T THEN Append(h[i - 1], s[i]) ELSE h[i - 1]
    BY <2>2, <2>3, <2>5, <2>6, <2>7, <2>9
  <2>11. Takes(h, s, T, k + 1)
    BY <2>8, <2>10 DEF Takes
  <2>12. k + 1 \in 0 .. n
    BY <1>3
  <2>. QED
    BY <1>1, <2>11, <2>12
<1>4. 0 .. n \subseteq Exist
  BY <1>2, <1>3, UpFromZero
<1>. QED
  BY <1>1, <1>4

LEMMA ChosenIs ==
  ASSUME NEW s, NEW T, Len(s) \in Nat
  PROVE  \E f : Takes(f, s, T, Len(s)) /\ Chosen(s, T) = f[Len(s)]
<1>. DEFINE f == CHOOSE g : g = [i \in 0 .. Len(s) |->
                   IF i = 0 THEN <<>>
                   ELSE IF s[i] \in T THEN Append(g[i - 1], s[i]) ELSE g[i - 1]]
<1>1. \E g : g = [i \in 0 .. Len(s) |->
                   IF i = 0 THEN <<>>
                   ELSE IF s[i] \in T THEN Append(g[i - 1], s[i]) ELSE g[i - 1]]
  <2>1. PICK h : Takes(h, s, T, Len(s))
    BY TakesExist
  <2>2. h = [i \in 0 .. Len(s) |->
                   IF i = 0 THEN <<>>
                   ELSE IF s[i] \in T THEN Append(h[i - 1], s[i]) ELSE h[i - 1]]
    BY <2>1 DEF Takes
  <2>. QED
    BY <2>2
<1>2. f = [i \in 0 .. Len(s) |->
                   IF i = 0 THEN <<>>
                   ELSE IF s[i] \in T THEN Append(f[i - 1], s[i]) ELSE f[i - 1]]
  BY <1>1
<1>3. Chosen(s, T) = f[Len(s)]
  BY DEF Chosen
<1>. QED
  BY <1>2, <1>3 DEF Takes

LEMMA AppendFacts ==
  ASSUME NEW S, NEW s \in Seq(S), NEW x \in S
  PROVE  /\ Append(s, x) \in Seq(S) /\ Elements(Append(s, x)) = Elements(s) \cup {x}
         /\ Distinct(s) /\ x \notin Elements(s) => Distinct(Append(s, x))
<1>1. PICK n : n = Len(s) /\ n \in Nat
  BY SeqFacts
<1>2. PICK t : t = Append(s, x)
  OBVIOUS
<1>3. t \in Seq(S) /\ Len(t) = n + 1 /\ t[n + 1] = x /\ \A i \in 1 .. n : t[i] = s[i]
  BY <1>1, <1>2
<1>4. DOMAIN t = 1 .. n + 1 /\ DOMAIN s = 1 .. n
  BY <1>1, <1>3, SeqFacts
<1>5. \A i \in 1 .. n + 1 : i = n + 1 \/ i \in 1 .. n
  BY <1>1
<1>6. n + 1 \in 1 .. n + 1 /\ n + 1 \notin 1 .. n /\ \A i \in 1 .. n : i \in 1 .. n + 1
  BY <1>1
<1>7. Elements(t) = Elements(s) \cup {x}
  BY <1>3, <1>4, <1>5, <1>6 DEF Elements
<1>8. Distinct(s) /\ x \notin Elements(s) => Distinct(t)
  BY <1>3, <1>4, <1>5, <1>6 DEF Elements, Distinct
<1>. QED
  BY <1>2, <1>3, <1>7, <1>8

LEMMA ChosenFacts ==
  ASSUME NEW S, NEW s \in Seq(S), NEW T
  PROVE  /\ Chosen(s, T) \in Seq(S)
         /\ Elements(Chosen(s, T)) = Elements(s) \cap T
         /\ Distinct(s) => Distinct(Chosen(s, T))
<1>1. PICK n : n = Len(s) /\ n \in Nat /\ (\A i \in 1 .. n : s[i] \in S)
  BY SeqFacts
<1>2. PICK f : Takes(f, s, T, n) /\ Chosen(s, T) = f[n]
  BY <1>1, ChosenIs
<1>3. \A i \in 0 .. n : f[i] = IF i = 0 THEN <<>>
                               ELSE IF s[i] \in T THEN Append(f[i - 1], s[i]) ELSE f[i - 1]
  BY <1>2 DEF Takes
<1>4. PICK Good : Good = {k \in 0 .. n : /\ f[k] \in Seq(S)
                                         /\ Elements(f[k]) = {s[i] : i \in 1 .. k} \cap T
                                         /\ Distinct(s) => Distinct(f[k])}
  OBVIOUS
<1>5. 0 \in Good
  <2>1. 0 \in 0 .. n /\ f[0] = <<>> /\ 1 .. 0 = {}
    BY <1>1, <1>3
  <2>2. <<>> \in Seq(S) /\ Len(<<>>) = 0
    BY EmptySeq
  <2>3. DOMAIN f[0] = {}
    BY <2>1, <2>2, SeqFacts
  <2>4. Elements(f[0]) = {} /\ Distinct(f[0])
    BY <2>3 DEF Elements, Distinct
  <2>5. {s[i] : i \in 1 .. 0} \cap T = {}
    BY <2>1
  <2>6. Elements(f[0]) = {s[i] : i \in 1 .. 0} \cap T
    BY <2>4, <2>5
  <2>7. f[0] \in Seq(S)
    BY <2>1, <2>2
  <2>. QED
    BY <1>4, <2>1, <2>4, <2>6, <2>7
<1>6. ASSUME NEW k \in 0 .. n, k \in Good, k < n
      PROVE  k + 1 \in Good
  <2>1. /\ k + 1 \in 0 .. n /\ k + 1 \in 1 .. n /\ k + 1 # 0 /\ (k + 1) - 1 = k
        /\ \A i \in 1 .. k : i \in 1 .. n /\ i # k + 1
    BY <1>1, <1>6
  <2>2. f[k + 1] = IF s[k + 1] \in T THEN Append(f[k], s[k + 1]) ELSE f[k]
    BY <1>3, <2>1
  <2>3. {s[i] : i \in 1 .. k + 1} = {s[i] : i \in 1 .. k} \cup {s[k + 1]}
    <3>1. \A i \in 1 .. k + 1 : i = k + 1 \/ i \in 1 .. k
      OBVIOUS
    <3>2. k + 1 \in 1 .. k + 1 /\ \A i \in 1 .. k : i \in 1 .. k + 1
      OBVIOUS
    <3>. QED
      BY <3>1, <3>2
  <2>4. PICK t : t = f[k] /\ t \in Seq(S) /\ Elements(t) = {s[i] : i \in 1 .. k} \cap T
    BY <1>4, <1>6
  <2>5. CASE s[k + 1] \in T
    <3>1. f[k + 1] = Append(t, s[k + 1]) /\ s[k + 1] \in S
      BY <1>1, <2>1, <2>2, <2>4, <2>5
    <3>2. Append(t, s[k + 1]) \in Seq(S)
          /\ Elements(Append(t, s[k + 1])) = Elements(t) \cup {s[k + 1]}
      BY <2>4, <3>1, AppendFacts
    <3>3. ASSUME Distinct(s) PROVE Distinct(f[k + 1])
      <4>1. \A i, j \in 1 .. n : s[i] = s[j] => i = j
        BY <1>1, <3>3, SeqFacts
      <4>2. s[k + 1] \notin Elements(t)
        BY <2>1, <2>4, <4>1
      <4>3. Distinct(t)
        BY <1>4, <1>6, <2>4, <3>3
      <4>. QED
        BY <2>4, <3>1, <4>2, <4>3, AppendFacts
    <3>. QED
      BY <1>4, <2>1, <2>3, <2>4, <2>5, <3>1, <3>2, <3>3
  <2>6. CASE s[k + 1] \notin T
    <3>1. f[k + 1] = t /\ (Distinct(s) => Distinct(t))
      BY <1>4, <1>6, <2>2, <2>4, <2>6
    <3>. QED
      BY <1>4, <2>1, <2>3, <2>4, <2>6, <3>1
  <2>. QED
    BY <2>5, <2>6
<1>7. n \in Good
  <2>1. n \in 0 .. n
    BY <1>1
  <2>. QED
    BY <1>1, <1>5, <1>6, <2>1, UpFromZero
<1>8. Elements(s) = {s[i] : i \in 1 .. n}
  <2>1. DOMAIN s = 1 .. n
    BY <1>1, SeqFacts
  <2>. QED
    BY <2>1 DEF Elements
<1>. QED
  BY <1>2, <1>4, <1>7, <1>8

-----------------------------------------------------------------------------
(* Parities: one more element turns an odd set into an even one.            *)
LEMMA OddAdd ==
  ASSUME NEW S, IsFiniteSet(S), NEW x, x \notin S
  PROVE  Odd(S \cup {x}) <=> ~Odd(S)
<1>1. Cardinality(S) \in Nat /\ Cardinality(S \cup {x}) = Cardinality(S) + 1
  BY FS_CardinalityType, FS_AddElement
<1>2. PICK c : c = Cardinality(S) /\ c \in Nat
  BY <1>1
<1>3. (c + 1) % 2 = 1 <=> ~(c % 2 = 1)
  BY <1>2
<1>. QED
  BY <1>1, <1>2, <1>3 DEF Odd

(* The cells of S whose cube covers x.                                      *)
On(cb, S, x) == {k \in S : Covers(cb[k], x)}
Par(cb, S, x) == Odd(On(cb, S, x))

LEMMA ParAdd ==
  ASSUME NEW cb, NEW S, IsFiniteSet(S), NEW k, k \notin S, NEW x
  PROVE  Par(cb, S \cup {k}, x) <=> ~(Par(cb, S, x) <=> Covers(cb[k], x))
<1>1. IsFiniteSet(On(cb, S, x)) /\ k \notin On(cb, S, x)
  BY FS_Subset DEF On
<1>2. CASE Covers(cb[k], x)
  <2>1. On(cb, S \cup {k}, x) = On(cb, S, x) \cup {k}
    BY <1>2 DEF On
  <2>. QED
    BY <1>1, <1>2, <2>1, OddAdd DEF Par
<1>3. CASE ~Covers(cb[k], x)
  <2>1. On(cb, S \cup {k}, x) = On(cb, S, x)
    BY <1>3 DEF On
  <2>. QED
    BY <1>3, <2>1 DEF Par
<1>. QED
  BY <1>2, <1>3

LEMMA ParSame ==
  ASSUME NEW cb, NEW cc, NEW S, \A k \in S : cb[k] = cc[k], NEW x
  PROVE  Par(cb, S, x) <=> Par(cc, S, x)
<1>1. On(cb, S, x) = On(cc, S, x)
  BY DEF On
<1>. QED
  BY <1>1 DEF Par

-----------------------------------------------------------------------------
(* ExorLink.  a[i] and b[i] say whether the first and the second cube of    *)
(* the pair cover the point in column i; a group covers it as often, modulo *)
(* two, as the pair does.                                                   *)
Side(rule, a, b) == CASE rule = "vs0" -> a [] rule = "vs1" -> b [] rule = "vsX" -> ~(a <=> b)

Met2(n, a, b) == Side(Rule(2, n, 0), a[1], b[1]) /\ Side(Rule(2, n, 1), a[2], b[2])
Met3(n, a, b) ==
  /\ Side(Rule(3, n, 0), a[1], b[1])
  /\ Side(Rule(3, n, 1), a[2], b[2])
  /\ Side(Rule(3, n, 2), a[3], b[3])
Met4(n, a, b) ==
  /\ Side(Rule(4, n, 0), a[1], b[1]) /\ Side(Rule(4, n, 1), a[2], b[2])
  /\ Side(Rule(4, n, 2), a[3], b[3]) /\ Side(Rule(4, n, 3), a[4], b[4])

Gives2(m, n, a, b) ==
  ((a[1] /\ a[2]) <=> (b[1] /\ b[2])) <=> (Met2(m, a, b) <=> Met2(n, a, b))
Gives3(l, m, n, a, b) ==
  (((a[1] /\ a[2] /\ a[3]) <=> (b[1] /\ b[2] /\ b[3]))
     <=> ~(Met3(l, a, b) <=> (Met3(m, a, b) <=> Met3(n, a, b))))
Gives4(l, m, n, o, a, b) ==
  ((a[1] /\ a[2] /\ a[3] /\ a[4]) <=> (b[1] /\ b[2] /\ b[3] /\ b[4]))
     <=> (Met4(l, a, b) <=> (Met4(m, a, b) <=> (Met4(n, a, b) <=> Met4(o, a, b))))

LEMMA Groups2 ==
  ASSUME NEW a \in [1 .. 2 -> BOOLEAN], NEW b \in [1 .. 2 -> BOOLEAN]
  PROVE  Gives2(0, 3, a, b) /\ Gives2(2, 1, a, b)
BY DEF Gives2, Met2, Side, Rule

LEMMA Groups3 ==
  ASSUME NEW a \in [1 .. 3 -> BOOLEAN], NEW b \in [1 .. 3 -> BOOLEAN]
  PROVE
  /\ Gives3(0, 6, 11, a, b) /\ Gives3(0, 7, 10, a, b)
  /\ Gives3(4, 2, 11, a, b) /\ Gives3(4, 3, 9, a, b) /\ Gives3(8, 1, 7, a, b)
  /\ Gives3(8, 3, 5, a, b)
BY DEF Gives3, Met3, Side, Rule

LEMMA Groups4 ==
  ASSUME NEW a \in [1 .. 4 -> BOOLEAN], NEW b \in [1 .. 4 -> BOOLEAN]
  PROVE
  /\ Gives4(0, 12, 22, 31, a, b) /\ Gives4(0, 12, 23, 30, a, b)
  /\ Gives4(0, 20, 14, 31, a, b) /\ Gives4(0, 20, 15, 29, a, b)
  /\ Gives4(0, 28, 13, 23, a, b) /\ Gives4(0, 28, 15, 21, a, b)
  /\ Gives4(8, 4, 22, 31, a, b) /\ Gives4(8, 4, 23, 30, a, b)
  /\ Gives4(8, 18, 6, 31, a, b) /\ Gives4(8, 18, 7, 27, a, b)
  /\ Gives4(8, 26, 5, 23, a, b) /\ Gives4(8, 26, 7, 19, a, b)
  /\ Gives4(16, 2, 14, 31, a, b) /\ Gives4(16, 2, 15, 29, a, b)
  /\ Gives4(16, 10, 6, 31, a, b) /\ Gives4(16, 10, 7, 27, a, b)
  /\ Gives4(16, 25, 3, 15, a, b) /\ Gives4(16, 25, 7, 11, a, b)
  /\ Gives4(24, 1, 13, 23, a, b) /\ Gives4(24, 1, 15, 21, a, b)
  /\ Gives4(24, 9, 5, 23, a, b) /\ Gives4(24, 9, 7, 19, a, b)
  /\ Gives4(24, 17, 3, 15, a, b) /\ Gives4(24, 17, 7, 11, a, b)
BY DEF Gives4, Met4, Side, Rule

-----------------------------------------------------------------------------
(* Cubes.                                                                   *)
LEMMA PositionFacts ==
  /\ OutPos \in Positions /\ OutPos \notin Inputs /\ Inputs \subseteq Positions
  /\ \A v \in Positions : v \in Inputs \/ v = OutPos
  /\ Positions \subseteq Nat \ {0} /\ Inputs \subseteq Nat \ {0}
  /\ IsFiniteSet(Positions) /\ IsFiniteSet(Inputs) /\ Cardinality(Inputs) = N
<1>1. N \in Nat \ {0} /\ N + 1 \in Nat
  BY CubesAssumption
<1>2. /\ OutPos \in Positions /\ OutPos \notin Inputs /\ Inputs \subseteq Positions
      /\ \A v \in Positions : v \in Inputs \/ v = OutPos
      /\ Positions \subseteq Nat \ {0} /\ Inputs \subseteq Nat \ {0}
  BY <1>1 DEF OutPos, Positions, Inputs
<1>3. IsFiniteSet(1 .. N) /\ Cardinality(1 .. N) = N
  <2>1. IsFiniteSet(1 .. N) /\ Cardinality(1 .. N) = IF 1 > N THEN 0 ELSE N - 1 + 1
    BY <1>1, FS_Interval
  <2>. QED
    BY <1>1, <2>1
<1>4. IsFiniteSet(1 .. N + 1)
  BY <1>1, FS_Interval
<1>. QED
  BY <1>2, <1>3, <1>4 DEF Positions, Inputs, OutPos

LEMMA CubeFacts ==
  ASSUME NEW c \in Cube
  PROVE  /\ c = [v \in Positions |-> c[v]]
         /\ \A v \in Inputs : c[v] \in Literal
         /\ c[OutPos] \in (SUBSET Outs) \ {{}}
BY DEF Cube

LEMMA CubeIntro ==
  ASSUME NEW c, c = [v \in Positions |-> c[v]], \A v \in Inputs : c[v] \in Literal,
         c[OutPos] \in (SUBSET Outs) \ {{}}
  PROVE  c \in Cube
<1>1. \A v \in Positions : c[v] \in Literal \cup ((SUBSET Outs) \ {{}})
  BY PositionFacts
<1>. QED
  BY <1>1 DEF Cube

LEMMA XorHas == \A a, b, y : y \in Xor(a, b) <=> ~(y \in a <=> y \in b)
BY DEF Xor

LEMMA SomeIn == \A S : S # {} => \E y : y \in S
OBVIOUS

LEMMA LiteralIs == Literal = (SUBSET Absent) \ {{}}
<1>1. ASSUME NEW a \in SUBSET {0, 1}, a # {} PROVE a = {0} \/ a = {1} \/ a = {0, 1}
  <2>1. CASE 0 \in a /\ 1 \in a
    BY <2>1
  <2>2. CASE 0 \in a /\ 1 \notin a
    BY <2>2
  <2>3. CASE 0 \notin a
    BY <1>1, <2>3
  <2>. QED
    BY <2>1, <2>2, <2>3
<1>2. ASSUME NEW a, a = {0} \/ a = {1} \/ a = {0, 1} PROVE a \in (SUBSET {0, 1}) \ {{}}
  BY <1>2
<1>3. ASSUME NEW a \in Literal PROVE a \in (SUBSET {0, 1}) \ {{}}
  BY <1>2, <1>3 DEF Literal, Absent
<1>4. ASSUME NEW a \in (SUBSET {0, 1}) \ {{}} PROVE a \in Literal
  BY <1>1, <1>4 DEF Literal, Absent
<1>. QED
  BY <1>3, <1>4 DEF Absent

(* The XOR of two values that differ is a value, different from both.       *)
LEMMA XorApart ==
  ASSUME NEW B, NEW a \in (SUBSET B) \ {{}}, NEW b \in (SUBSET B) \ {{}}, a # b
  PROVE  Xor(a, b) \in (SUBSET B) \ {{}} /\ Xor(a, b) # a /\ Xor(a, b) # b
<1>1. PICK x : x = Xor(a, b)
  OBVIOUS
<1>2. \A y : y \in x <=> ~(y \in a <=> y \in b)
  BY <1>1, XorHas
<1>3. \A y \in x : y \in B
  BY <1>2
<1>4. \E y : y \in x
  <2>1. \E y : ~(y \in a <=> y \in b)
    OBVIOUS
  <2>. QED
    BY <1>2, <2>1
<1>5. x # a
  <2>0. b # {}
    OBVIOUS
  <2>1. PICK y : y \in b
    BY <2>0, SomeIn
  <2>. QED
    BY <1>2, <2>1
<1>6. x # b
  <2>0. a # {}
    OBVIOUS
  <2>1. PICK y : y \in a
    BY <2>0, SomeIn
  <2>. QED
    BY <1>2, <2>1
<1>7. x \in SUBSET B
  BY <1>3
<1>8. x # {}
  BY <1>4
<1>9. x \in (SUBSET B) \ {{}} /\ x # a /\ x # b
  BY <1>5, <1>6, <1>7, <1>8
<1>. QED
  BY <1>1, <1>9

LEMMA XorBack == \A a, b : Xor(Xor(a, b), b) = a
BY DEF Xor

(* At a position where two cubes differ their XOR is a value again.         *)
LEMMA XorValue ==
  ASSUME NEW p \in Cube, NEW q \in Cube, NEW v \in Positions, p[v] # q[v]
  PROVE  /\ v \in Inputs => Xor(p[v], q[v]) \in Literal
         /\ v = OutPos => Xor(p[v], q[v]) \in (SUBSET Outs) \ {{}}
         /\ Xor(p[v], q[v]) # p[v] /\ Xor(p[v], q[v]) # q[v]
<1>1. CASE v \in Inputs
  <2>1. p[v] \in (SUBSET Absent) \ {{}} /\ q[v] \in (SUBSET Absent) \ {{}}
    BY <1>1, CubeFacts, LiteralIs
  <2>2. /\ Xor(p[v], q[v]) \in (SUBSET Absent) \ {{}}
        /\ Xor(p[v], q[v]) # p[v] /\ Xor(p[v], q[v]) # q[v]
    BY <2>1, XorApart
  <2>3. Xor(p[v], q[v]) \in Literal
    BY <2>2, LiteralIs
  <2>. QED
    BY <1>1, <2>2, <2>3, PositionFacts
<1>2. CASE v = OutPos
  <2>1. p[v] \in (SUBSET Outs) \ {{}} /\ q[v] \in (SUBSET Outs) \ {{}}
    BY <1>2, CubeFacts
  <2>. QED
    BY <1>2, <2>1, XorApart, PositionFacts
<1>. QED
  BY <1>1, <1>2, PositionFacts

(* Distances.                                                               *)
LEMMA DifferFacts ==
  ASSUME NEW p, NEW q
  PROVE  /\ Differ(p, q) \subseteq Positions /\ IsFiniteSet(Differ(p, q))
         /\ Differ(p, q) = Differ(q, p) /\ Distance(p, q) \in Nat
         /\ Distance(p, q) = Distance(q, p)
         /\ Distance(p, q) = 0 <=> \A v \in Positions : p[v] = q[v]
         /\ Distance(p, q) = 1 <=> \E v \in Positions : Differ(p, q) = {v}
<1>1. Differ(p, q) \subseteq Positions /\ Differ(p, q) = Differ(q, p)
  BY DEF Differ
<1>2. IsFiniteSet(Differ(p, q))
  BY <1>1, PositionFacts, FS_Subset
<1>3. Distance(p, q) \in Nat /\ Distance(p, q) = Distance(q, p)
  BY <1>1, <1>2, FS_CardinalityType DEF Distance
<1>4. Distance(p, q) = 0 <=> Differ(p, q) = {}
  BY <1>2, FS_EmptySet DEF Distance
<1>5. Differ(p, q) = {} <=> \A v \in Positions : p[v] = q[v]
  BY DEF Differ
<1>6. Distance(p, q) = 1 <=> \E v : Differ(p, q) = {v}
  BY <1>2, FS_Singleton DEF Distance
<1>. QED
  BY <1>1, <1>2, <1>3, <1>4, <1>5, <1>6

LEMMA SameCube ==
  ASSUME NEW p \in Cube, NEW q \in Cube
  PROVE  Distance(p, q) = 0 <=> p = q
<1>1. p = [v \in Positions |-> p[v]] /\ q = [v \in Positions |-> q[v]]
  BY CubeFacts
<1>2. Distance(p, q) = 0 <=> \A v \in Positions : p[v] = q[v]
  BY DifferFacts
<1>. QED
  BY <1>1, <1>2

(* Where p and q differ in one position only.                               *)
OneApart(p, q, v) == v \in Positions /\ p[v] # q[v] /\ \A u \in Positions : u # v => p[u] = q[u]

LEMMA OneApartFacts ==
  ASSUME NEW p, NEW q, Distance(p, q) = 1
  PROVE  OneApart(p, q, Smallest(Differ(p, q)))
<1>1. PICK v \in Positions : Differ(p, q) = {v}
  BY DifferFacts
<1>2. Smallest({v}) = v
  BY <1>1, PositionFacts DEF Smallest
<1>. QED
  BY <1>1, <1>2 DEF OneApart, Differ

(* The merge of two such cubes.                                             *)
Merged(p, q, v) == [p EXCEPT ![v] = Xor(p[v], q[v])]

LEMMA MergeFacts ==
  ASSUME NEW p \in Cube, NEW q \in Cube, NEW v, OneApart(p, q, v)
  PROVE  /\ Merged(p, q, v) \in Cube
         /\ \A x : Covers(Merged(p, q, v), x) <=> ~(Covers(p, x) <=> Covers(q, x))
         /\ [Merged(p, q, v) EXCEPT ![v] = Xor(@, q[v])] = p
<1>1. PICK m : m = Merged(p, q, v)
  OBVIOUS
<1>2. p = [u \in Positions |-> p[u]] /\ v \in Positions /\ p[v] # q[v]
  BY CubeFacts DEF OneApart
<1>3. m = [u \in Positions |-> IF u = v THEN Xor(p[v], q[v]) ELSE p[u]]
  BY <1>1, <1>2 DEF Merged
<1>4. m[v] = Xor(p[v], q[v]) /\ \A u \in Positions : u # v => m[u] = p[u]
  BY <1>2, <1>3
<1>5. m = [u \in Positions |-> m[u]]
  BY <1>3
<1>6. m \in Cube
  <2>1. \A u \in Inputs : m[u] \in Literal
    <3>1. SUFFICES ASSUME NEW u \in Inputs PROVE m[u] \in Literal
      OBVIOUS
    <3>2. u \in Positions /\ p[u] \in Literal
      BY CubeFacts, PositionFacts
    <3>3. u = v => Xor(p[u], q[u]) \in Literal
      BY <1>2, XorValue
    <3>. QED
      BY <1>4, <3>2, <3>3
  <2>2. m[OutPos] \in (SUBSET Outs) \ {{}}
    <3>1. OutPos \in Positions /\ p[OutPos] \in (SUBSET Outs) \ {{}}
      BY CubeFacts, PositionFacts
    <3>2. OutPos = v => Xor(p[OutPos], q[OutPos]) \in (SUBSET Outs) \ {{}}
      BY <1>2, XorValue
    <3>. QED
      BY <1>4, <3>1, <3>2
  <2>. QED
    BY <1>5, <2>1, <2>2, CubeIntro
<1>7. ASSUME NEW x PROVE Covers(m, x) <=> ~(Covers(p, x) <=> Covers(q, x))
  <2>1. PICK common \in BOOLEAN : common = \A u \in Positions : u # v => x[u] \in p[u]
    OBVIOUS
  <2>2. Covers(p, x) <=> common /\ x[v] \in p[v]
    BY <1>2, <2>1 DEF Covers
  <2>3. Covers(q, x) <=> common /\ x[v] \in q[v]
    BY <1>2, <2>1 DEF Covers, OneApart
  <2>4. Covers(m, x) <=> common /\ x[v] \in m[v]
    BY <1>2, <1>4, <2>1 DEF Covers
  <2>5. x[v] \in m[v] <=> ~(x[v] \in p[v] <=> x[v] \in q[v])
    BY <1>4, XorHas
  <2>. QED
    BY <2>2, <2>3, <2>4, <2>5
<1>8. [m EXCEPT ![v] = Xor(@, q[v])] = p
  <2>1. Xor(m[v], q[v]) = p[v]
    BY <1>4, XorBack
  <2>2. [m EXCEPT ![v] = Xor(@, q[v])] = [u \in Positions |-> IF u = v THEN p[v] ELSE m[u]]
    BY <1>3, <2>1
  <2>3. [u \in Positions |-> IF u = v THEN p[v] ELSE m[u]] = [u \in Positions |-> p[u]]
    BY <1>4
  <2>. QED
    BY <1>2, <2>2, <2>3
<1>. QED
  BY <1>1, <1>6, <1>7, <1>8

-----------------------------------------------------------------------------
(* The columns of a pair: the positions where its cubes differ.             *)
Columns(D, p, q) ==
  LET k == Distance(p, q)
  IN  /\ D \in [1 .. k -> Positions]
      /\ \A i, j \in 1 .. k : D[i] = D[j] => i = j
      /\ \A v : v \in Differ(p, q) <=> \E i \in 1 .. k : D[i] = v

LEMMA DiffVarsFacts ==
  ASSUME NEW p, NEW q
  PROVE  /\ DiffVars(p, q) \in Seq(Positions) /\ Distinct(DiffVars(p, q))
         /\ Elements(DiffVars(p, q)) = Differ(p, q)
         /\ Len(DiffVars(p, q)) = Distance(p, q)
<1>0. N + 1 \in Nat
  BY CubesAssumption
<1>1. PICK s : s = [v \in Positions |-> v]
  OBVIOUS
<1>2. s \in Seq(Positions) /\ Len(s) = N + 1
  BY <1>0, <1>1 DEF Positions, OutPos
<1>3. Distinct(s) /\ Elements(s) = Positions
  BY <1>1 DEF Distinct, Elements
<1>4. PICK t : t = Chosen(s, Differ(p, q))
  OBVIOUS
<1>5. t \in Seq(Positions) /\ Distinct(t) /\ Elements(t) = Positions \cap Differ(p, q)
  BY <1>2, <1>3, <1>4, ChosenFacts
<1>6. Elements(t) = Differ(p, q)
  BY <1>5, DifferFacts
<1>7. Cardinality(Elements(t)) = Len(t)
  BY <1>5, CountElements
<1>. QED
  BY <1>1, <1>4, <1>5, <1>6, <1>7 DEF DiffVars, Distance

(* A cube of the ExorLink tables, column by column.                         *)
TableCubes(D, p, q) ==
  \A n : /\ ELCube(p, q, n) = [v \in Positions |-> ELCube(p, q, n)[v]]
         /\ \A v \in Positions \ Differ(p, q) : ELCube(p, q, n)[v] = p[v]
         /\ \A i \in 1 .. Distance(p, q) :
              ELCube(p, q, n)[D[i]] = Pick(Rule(Distance(p, q), n, i - 1), p[D[i]], q[D[i]])

LEMMA ELCubeColumns ==
  ASSUME NEW p, NEW q
  PROVE  \E D : Columns(D, p, q) /\ TableCubes(D, p, q)
<1>1. PICK D : D = DiffVars(p, q)
  OBVIOUS
<1>2. PICK k : k = Distance(p, q)
  OBVIOUS
<1>3. /\ D \in Seq(Positions) /\ Distinct(D) /\ Elements(D) = Differ(p, q) /\ Len(D) = k
  BY <1>1, <1>2, DiffVarsFacts
<1>4. k \in Nat /\ DOMAIN D = 1 .. k /\ D \in [1 .. k -> Positions]
  BY <1>3
<1>5. /\ \A i, j \in 1 .. k : D[i] = D[j] => i = j
      /\ \A v : v \in Differ(p, q) <=> \E i \in 1 .. k : D[i] = v
  BY <1>3, <1>4 DEF Distinct, Elements
<1>6. Columns(D, p, q)
  BY <1>2, <1>4, <1>5 DEF Columns
<1>7. \A v \in Positions : p[v] = q[v] <=> v \notin Differ(p, q)
  BY DEF Differ
<1>8. ASSUME NEW n
      PROVE  /\ ELCube(p, q, n) = [v \in Positions |-> ELCube(p, q, n)[v]]
             /\ \A v \in Positions \ Differ(p, q) : ELCube(p, q, n)[v] = p[v]
             /\ \A i \in 1 .. k :
                  ELCube(p, q, n)[D[i]] = Pick(Rule(k, n, i - 1), p[D[i]], q[D[i]])
  <2>1. PICK e : e = ELCube(p, q, n)
    OBVIOUS
  <2>2. e = [v \in Positions |->
               IF p[v] = q[v] THEN p[v]
               ELSE Pick(Rule(Len(D), n, (CHOOSE i \in DOMAIN D : D[i] = v) - 1), p[v], q[v])]
    BY <1>1, <2>1 DEF ELCube
  <2>3. e = [v \in Positions |-> e[v]]
    BY <2>2
  <2>4. \A v \in Positions \ Differ(p, q) : e[v] = p[v]
    BY <2>2, <1>7
  <2>5. ASSUME NEW i \in 1 .. k
        PROVE  e[D[i]] = Pick(Rule(k, n, i - 1), p[D[i]], q[D[i]])
    <3>1. D[i] \in Positions /\ p[D[i]] # q[D[i]]
      BY <1>4, <1>5, <1>7, <2>5
    <3>2. (CHOOSE j \in DOMAIN D : D[j] = D[i]) = i
      BY <1>4, <1>5
    <3>3. e[D[i]] = Pick(Rule(Len(D), n, (CHOOSE j \in DOMAIN D : D[j] = D[i]) - 1),
                         p[D[i]], q[D[i]])
      BY <2>2, <3>1
    <3>. QED
      BY <3>2, <3>3, <1>3
  <2>. QED
    BY <2>1, <2>3, <2>4, <2>5
<1>9. TableCubes(D, p, q)
  BY <1>2, <1>8 DEF TableCubes
<1>. QED
  BY <1>6, <1>9

LEMMA RuleIs == \A k, n, i : Rule(k, n, i) \in {"vs0", "vs1", "vsX"}
BY DEF Rule

LEMMA ELCubeInCube ==
  ASSUME NEW p \in Cube, NEW q \in Cube, NEW n
  PROVE  ELCube(p, q, n) \in Cube
<1>1. PICK D : Columns(D, p, q) /\ TableCubes(D, p, q)
  BY ELCubeColumns
<1>2. PICK e : e = ELCube(p, q, n)
  OBVIOUS
<1>3. /\ e = [v \in Positions |-> e[v]]
      /\ \A v \in Positions \ Differ(p, q) : e[v] = p[v]
  BY <1>1, <1>2 DEF TableCubes
<1>4. ASSUME NEW v \in Positions, p[v] # q[v]
      PROVE  e[v] = p[v] \/ e[v] = q[v] \/ e[v] = Xor(p[v], q[v])
  <2>1. v \in Differ(p, q)
    BY <1>4 DEF Differ
  <2>2. PICK i \in 1 .. Distance(p, q) : D[i] = v
    BY <1>1, <2>1 DEF Columns
  <2>3. e[v] = Pick(Rule(Distance(p, q), n, i - 1), p[v], q[v])
    BY <1>1, <1>2, <2>2 DEF TableCubes
  <2>. QED
    BY <2>3, RuleIs DEF Pick
<1>5. \A v \in Positions : p[v] = q[v] => e[v] = p[v]
  BY <1>3 DEF Differ
<1>6. ASSUME NEW v \in Inputs PROVE e[v] \in Literal
  <2>1. v \in Positions /\ p[v] \in Literal /\ q[v] \in Literal
    BY CubeFacts, PositionFacts
  <2>2. p[v] # q[v] => Xor(p[v], q[v]) \in Literal
    BY <2>1, XorValue
  <2>. QED
    BY <1>4, <1>5, <2>1, <2>2
<1>7. e[OutPos] \in (SUBSET Outs) \ {{}}
  <2>1. /\ OutPos \in Positions /\ p[OutPos] \in (SUBSET Outs) \ {{}}
        /\ q[OutPos] \in (SUBSET Outs) \ {{}}
    BY CubeFacts, PositionFacts
  <2>2. p[OutPos] # q[OutPos] => Xor(p[OutPos], q[OutPos]) \in (SUBSET Outs) \ {{}}
    BY <2>1, XorValue
  <2>. QED
    BY <1>4, <1>5, <2>1, <2>2
<1>. QED
  BY <1>2, <1>3, <1>6, <1>7, CubeIntro

(* Whether such a cube covers a point.                                      *)
Parts(p, q, x, common, a, b) ==
  LET d == Distance(p, q)
  IN  /\ a \in [1 .. d -> BOOLEAN] /\ b \in [1 .. d -> BOOLEAN]
      /\ Covers(p, x) <=> common /\ \A i \in 1 .. d : a[i]
      /\ Covers(q, x) <=> common /\ \A i \in 1 .. d : b[i]
      /\ \A n : Covers(ELCube(p, q, n), x)
                  <=> common /\ \A i \in 1 .. d : Side(Rule(d, n, i - 1), a[i], b[i])

LEMMA ELCubeCovers ==
  ASSUME NEW p, NEW q, NEW x
  PROVE  \E common \in BOOLEAN : \E a, b : Parts(p, q, x, common, a, b)
<1>1. PICK k : k = Distance(p, q)
  OBVIOUS
<1>2. PICK D : /\ Columns(D, p, q)
               /\ \A m : /\ \A v \in Positions \ Differ(p, q) : ELCube(p, q, m)[v] = p[v]
                         /\ \A i \in 1 .. k :
                              ELCube(p, q, m)[D[i]] = Pick(Rule(k, m, i - 1), p[D[i]], q[D[i]])
  BY <1>1, ELCubeColumns DEF TableCubes
<1>3. PICK common \in BOOLEAN : common <=> \A v \in Positions \ Differ(p, q) : x[v] \in p[v]
  OBVIOUS
<1>4. PICK a : a = [i \in 1 .. k |-> IF x[D[i]] \in p[D[i]] THEN TRUE ELSE FALSE]
  OBVIOUS
<1>5. PICK b : b = [i \in 1 .. k |-> IF x[D[i]] \in q[D[i]] THEN TRUE ELSE FALSE]
  OBVIOUS
<1>6. a \in [1 .. k -> BOOLEAN] /\ \A i \in 1 .. k : a[i] <=> x[D[i]] \in p[D[i]]
  BY <1>4
<1>7. b \in [1 .. k -> BOOLEAN] /\ \A i \in 1 .. k : b[i] <=> x[D[i]] \in q[D[i]]
  BY <1>5
<1>8. ASSUME NEW c
      PROVE  Covers(c, x) <=> /\ \A v \in Positions \ Differ(p, q) : x[v] \in c[v]
                              /\ \A i \in 1 .. k : x[D[i]] \in c[D[i]]
  <2>1. Covers(c, x) <=> /\ \A v \in Positions \ Differ(p, q) : x[v] \in c[v]
                         /\ \A v \in Differ(p, q) : x[v] \in c[v]
    BY DifferFacts DEF Covers
  <2>2. (\A v \in Differ(p, q) : x[v] \in c[v]) <=> \A i \in 1 .. k : x[D[i]] \in c[D[i]]
    BY <1>1, <1>2 DEF Columns
  <2>. QED
    BY <2>1, <2>2
<1>9. \A v \in Positions \ Differ(p, q) : p[v] = q[v]
  BY DEF Differ
<1>10. Covers(p, x) <=> common /\ \A i \in 1 .. k : a[i]
  BY <1>3, <1>6, <1>8
<1>11. Covers(q, x) <=> common /\ \A i \in 1 .. k : b[i]
  BY <1>3, <1>7, <1>8, <1>9
<1>12. ASSUME NEW n
       PROVE  Covers(ELCube(p, q, n), x) <=>
                common /\ \A i \in 1 .. k : Side(Rule(k, n, i - 1), a[i], b[i])
  <2>1. ASSUME NEW i \in 1 .. k
        PROVE  x[D[i]] \in ELCube(p, q, n)[D[i]] <=> Side(Rule(k, n, i - 1), a[i], b[i])
    <3>1. ELCube(p, q, n)[D[i]] = Pick(Rule(k, n, i - 1), p[D[i]], q[D[i]])
      BY <1>2
    <3>2. a[i] \in BOOLEAN /\ b[i] \in BOOLEAN
          /\ (a[i] <=> x[D[i]] \in p[D[i]]) /\ (b[i] <=> x[D[i]] \in q[D[i]])
      BY <1>6, <1>7
    <3>3. Rule(k, n, i - 1) \in {"vs0", "vs1", "vsX"}
      BY RuleIs
    <3>4. x[D[i]] \in Xor(p[D[i]], q[D[i]]) <=> ~(x[D[i]] \in p[D[i]] <=> x[D[i]] \in q[D[i]])
      BY XorHas
    <3>5. CASE Rule(k, n, i - 1) = "vs0"
      <4>1. ELCube(p, q, n)[D[i]] = p[D[i]]
        BY <3>1, <3>5 DEF Pick
      <4>2. Side(Rule(k, n, i - 1), a[i], b[i]) = a[i]
        BY <3>5 DEF Side
      <4>. QED
        BY <4>1, <4>2, <3>2
    <3>6. CASE Rule(k, n, i - 1) = "vs1"
      <4>1. ELCube(p, q, n)[D[i]] = q[D[i]]
        BY <3>1, <3>6 DEF Pick
      <4>2. Side(Rule(k, n, i - 1), a[i], b[i]) = b[i]
        BY <3>6 DEF Side
      <4>. QED
        BY <4>1, <4>2, <3>2
    <3>7. CASE Rule(k, n, i - 1) = "vsX"
      <4>1. ELCube(p, q, n)[D[i]] = Xor(p[D[i]], q[D[i]])
        BY <3>1, <3>7 DEF Pick
      <4>2. Side(Rule(k, n, i - 1), a[i], b[i]) <=> ~(a[i] <=> b[i])
        BY <3>7 DEF Side
      <4>. QED
        BY <4>1, <4>2, <3>2, <3>4
    <3>. QED
      BY <3>3, <3>5, <3>6, <3>7
  <2>2. \A v \in Positions \ Differ(p, q) : ELCube(p, q, n)[v] = p[v]
    BY <1>2
  <2>3. Covers(ELCube(p, q, n), x)
          <=> /\ \A v \in Positions \ Differ(p, q) : x[v] \in ELCube(p, q, n)[v]
              /\ \A i \in 1 .. k : x[D[i]] \in ELCube(p, q, n)[D[i]]
    BY <1>8
  <2>4. (\A v \in Positions \ Differ(p, q) : x[v] \in ELCube(p, q, n)[v]) <=> common
    BY <1>3, <2>2
  <2>. QED
    BY <2>1, <2>3, <2>4
<1>. QED
  <2>1. Parts(p, q, x, common, a, b)
    BY <1>1, <1>6, <1>7, <1>10, <1>11, <1>12 DEF Parts
  <2>. QED
    BY <2>1

-----------------------------------------------------------------------------
(* The tables: group g of ExorLink-d has d different cubes of its table.    *)
Groups(d) == CASE d = 2 -> 2 [] d = 3 -> 6 [] d = 4 -> 24

LEMMA TableDomain ==
  ASSUME NEW d \in Distances
  PROVE  /\ DOMAIN GroupRules(d) = 1 .. Groups(d) /\ Len(GroupRules(d)) = Groups(d)
         /\ Groups(d) \in 2 .. 24
<1>1. CASE d = 2
  BY <1>1 DEF GroupRules, Groups
<1>2. CASE d = 3
  BY <1>2 DEF GroupRules, Groups
<1>3. CASE d = 4
  BY <1>3 DEF GroupRules, Groups
<1>. QED
  BY <1>1, <1>2, <1>3 DEF Distances

(* A row of a table: d different numbers of cubes.                          *)
Row(r, d) ==
  /\ Len(r) = d /\ DOMAIN r = 1 .. d /\ r \in Seq(0 .. 31)
  /\ Distinct(r)
  /\ \A i \in 1 .. d : r[i] \in ELCubes(d)

LEMMA TableRows ==
  ASSUME NEW d \in Distances, NEW g \in 1 .. Groups(d)
  PROVE  Row(GroupRules(d)[g], d)
<1>1. CASE d = 2
  <2>1. ASSUME NEW l \in 0 .. 3, NEW m \in 0 .. 3, l # m PROVE Row(<<l, m>>, 2)
    <3>1. <<l, m>> \in Seq(0 .. 31) /\ Len(<<l, m>>) = 2 /\ DOMAIN <<l, m>> = 1 .. 2
      OBVIOUS
    <3>2. \A i \in 1 .. 2 : <<l, m>>[i] \in ELCubes(2)
      BY DEF ELCubes
    <3>3. Distinct(<<l, m>>)
      BY <2>1 DEF Distinct
    <3>. QED
      BY <3>1, <3>2, <3>3 DEF Row
  <2>2. GroupRules(2)[g] = <<0, 3>> \/ GroupRules(2)[g] = <<2, 1>>
    BY <1>1 DEF GroupRules, Groups
  <2>. QED
    BY <1>1, <2>1, <2>2
<1>2. CASE d = 3
  <2>1. ASSUME NEW l \in 0 .. 11, NEW m \in 0 .. 11, NEW n \in 0 .. 11, l # m, l # n, m # n
        PROVE  Row(<<l, m, n>>, 3)
    <3>1. <<l, m, n>> \in Seq(0 .. 31) /\ Len(<<l, m, n>>) = 3 /\ DOMAIN <<l, m, n>> = 1 .. 3
      OBVIOUS
    <3>2. \A i \in 1 .. 3 : <<l, m, n>>[i] \in ELCubes(3)
      BY DEF ELCubes
    <3>3. Distinct(<<l, m, n>>)
      BY <2>1 DEF Distinct
    <3>. QED
      BY <3>1, <3>2, <3>3 DEF Row
  <2>2. \E l, m, n \in 0 .. 11 : l # m /\ l # n /\ m # n /\ GroupRules(3)[g] = <<l, m, n>>
    <3>1. GroupRules(3)[g] \in {<<0, 6, 11>>, <<0, 7, 10>>, <<4, 2, 11>>, <<4, 3, 9>>,
                                <<8, 1, 7>>, <<8, 3, 5>>}
      BY <1>2 DEF GroupRules, Groups
    <3>. QED
      BY <3>1
  <2>. QED
    BY <1>2, <2>1, <2>2
<1>3. CASE d = 4
  <2>1. ASSUME NEW l, NEW m, NEW n, NEW o,
               l \in 0 .. 31 /\ m \in 0 .. 31 /\ n \in 0 .. 31 /\ o \in 0 .. 31,
               l # m, l # n, l # o, m # n, m # o, n # o
        PROVE  Row(<<l, m, n, o>>, 4)
    <3>1. /\ <<l, m, n, o>> \in Seq(0 .. 31) /\ Len(<<l, m, n, o>>) = 4
          /\ DOMAIN <<l, m, n, o>> = 1 .. 4
      BY <2>1
    <3>2. \A i \in 1 .. 4 : <<l, m, n, o>>[i] \in ELCubes(4)
      BY <2>1 DEF ELCubes
    <3>3. Distinct(<<l, m, n, o>>)
      BY <2>1 DEF Distinct
    <3>. QED
      BY <3>1, <3>2, <3>3 DEF Row
  <2>10. Row(<<0, 12, 22, 31>>, 4) /\ Row(<<0, 12, 23, 30>>, 4) /\ Row(<<0, 20, 14, 31>>, 4)
    BY <2>1
  <2>11. Row(<<0, 20, 15, 29>>, 4) /\ Row(<<0, 28, 13, 23>>, 4) /\ Row(<<0, 28, 15, 21>>, 4)
    BY <2>1
  <2>12. Row(<<8, 4, 22, 31>>, 4) /\ Row(<<8, 4, 23, 30>>, 4) /\ Row(<<8, 18, 6, 31>>, 4)
    BY <2>1
  <2>13. Row(<<8, 18, 7, 27>>, 4) /\ Row(<<8, 26, 5, 23>>, 4) /\ Row(<<8, 26, 7, 19>>, 4)
    BY <2>1
  <2>14. Row(<<16, 2, 14, 31>>, 4) /\ Row(<<16, 2, 15, 29>>, 4) /\ Row(<<16, 10, 6, 31>>, 4)
    BY <2>1
  <2>15. Row(<<16, 10, 7, 27>>, 4) /\ Row(<<16, 25, 3, 15>>, 4) /\ Row(<<16, 25, 7, 11>>, 4)
    BY <2>1
  <2>16. Row(<<24, 1, 13, 23>>, 4) /\ Row(<<24, 1, 15, 21>>, 4) /\ Row(<<24, 9, 5, 23>>, 4)
    BY <2>1
  <2>17. Row(<<24, 9, 7, 19>>, 4) /\ Row(<<24, 17, 3, 15>>, 4) /\ Row(<<24, 17, 7, 11>>, 4)
    BY <2>1
  <2>3. GroupRules(4)[g] \in {
           <<0, 12, 22, 31>>, <<0, 12, 23, 30>>, <<0, 20, 14, 31>>,
           <<0, 20, 15, 29>>, <<0, 28, 13, 23>>, <<0, 28, 15, 21>>,
           <<8, 4, 22, 31>>, <<8, 4, 23, 30>>, <<8, 18, 6, 31>>,
           <<8, 18, 7, 27>>, <<8, 26, 5, 23>>, <<8, 26, 7, 19>>,
           <<16, 2, 14, 31>>, <<16, 2, 15, 29>>, <<16, 10, 6, 31>>,
           <<16, 10, 7, 27>>, <<16, 25, 3, 15>>, <<16, 25, 7, 11>>,
           <<24, 1, 13, 23>>, <<24, 1, 15, 21>>, <<24, 9, 5, 23>>,
           <<24, 9, 7, 19>>, <<24, 17, 3, 15>>, <<24, 17, 7, 11>> }
    BY <1>3, SMTT(60) DEF GroupRules, Groups
  <2>. QED
    BY <1>3, <2>3, <2>10, <2>11, <2>12, <2>13, <2>14, <2>15, <2>16, <2>17
<1>4. d = 2 \/ d = 3 \/ d = 4
  BY DEF Distances
<1>. QED
  BY <1>1, <1>2, <1>3, <1>4

LEMMA TableParity ==
  ASSUME NEW p, NEW q, NEW d \in Distances, d = Distance(p, q), NEW g \in 1 .. Groups(d),
         NEW r, r = GroupRules(d)[g], NEW x
  PROVE  /\ d = 2 => ((Covers(p, x) <=> Covers(q, x))
                        <=> (Covers(ELCube(p, q, r[1]), x) <=> Covers(ELCube(p, q, r[2]), x)))
         /\ d = 3 => ((Covers(p, x) <=> Covers(q, x))
                        <=> ~(Covers(ELCube(p, q, r[1]), x)
                                <=> (Covers(ELCube(p, q, r[2]), x)
                                       <=> Covers(ELCube(p, q, r[3]), x))))
         /\ d = 4 => ((Covers(p, x) <=> Covers(q, x))
                        <=> (Covers(ELCube(p, q, r[1]), x)
                               <=> (Covers(ELCube(p, q, r[2]), x)
                                      <=> (Covers(ELCube(p, q, r[3]), x)
                                             <=> Covers(ELCube(p, q, r[4]), x)))))
<1>1. d = Distance(p, q) /\ g \in 1 .. Groups(d) /\ r = GroupRules(d)[g] /\ d \in Distances
  OBVIOUS
<1>0. PICK common \in BOOLEAN : \E a, b : Parts(p, q, x, common, a, b)
  BY ELCubeCovers
<1>2. PICK a, b : /\ a \in [1 .. d -> BOOLEAN] /\ b \in [1 .. d -> BOOLEAN]
                  /\ Covers(p, x) <=> common /\ \A i \in 1 .. d : a[i]
                  /\ Covers(q, x) <=> common /\ \A i \in 1 .. d : b[i]
                  /\ \A n : Covers(ELCube(p, q, n), x)
                              <=> common /\ \A i \in 1 .. d : Side(Rule(d, n, i - 1), a[i], b[i])
  BY <1>0, <1>1 DEF Parts
<1>3. CASE d = 2
  <2>1. /\ Covers(p, x) <=> common /\ a[1] /\ a[2]
        /\ Covers(q, x) <=> common /\ b[1] /\ b[2]
    BY <1>2, <1>3
  <2>2. \A n : Covers(ELCube(p, q, n), x) <=> common /\ Met2(n, a, b)
    <3>1. SUFFICES ASSUME NEW n PROVE Covers(ELCube(p, q, n), x) <=> common /\ Met2(n, a, b)
      OBVIOUS
    <3>2. Covers(ELCube(p, q, n), x)
            <=> common /\ Side(Rule(2, n, 1 - 1), a[1], b[1]) /\ Side(Rule(2, n, 2 - 1), a[2], b[2])
      BY <1>2, <1>3
    <3>. QED
      BY <3>2 DEF Met2
  <2>3. Gives2(0, 3, a, b) /\ Gives2(2, 1, a, b)
    BY <1>2, <1>3, Groups2
  <2>4. PICK m, n : m = GroupRules(2)[g][1] /\ n = GroupRules(2)[g][2]
    OBVIOUS
  <2>5. Gives2(m, n, a, b)
    <3>1. g \in 1 .. 2
      BY <1>1, <1>3 DEF Groups
    <3>2. (m = 0 /\ n = 3) \/ (m = 2 /\ n = 1)
      BY <2>4, <3>1 DEF GroupRules
    <3>. QED
      BY <2>3, <3>2
  <2>6. (Covers(p, x) <=> Covers(q, x))
          <=> (Covers(ELCube(p, q, m), x) <=> Covers(ELCube(p, q, n), x))
    BY <2>1, <2>2, <2>5 DEF Gives2
  <2>. QED
    BY <1>1, <1>3, <2>4, <2>6
<1>4. CASE d = 3
  <2>1. /\ Covers(p, x) <=> common /\ a[1] /\ a[2] /\ a[3]
        /\ Covers(q, x) <=> common /\ b[1] /\ b[2] /\ b[3]
    BY <1>2, <1>4
  <2>2. \A n : Covers(ELCube(p, q, n), x) <=> common /\ Met3(n, a, b)
    <3>1. SUFFICES ASSUME NEW n PROVE Covers(ELCube(p, q, n), x) <=> common /\ Met3(n, a, b)
      OBVIOUS
    <3>2. Covers(ELCube(p, q, n), x)
            <=> common /\ Side(Rule(3, n, 1 - 1), a[1], b[1]) /\ Side(Rule(3, n, 2 - 1), a[2], b[2])
                       /\ Side(Rule(3, n, 3 - 1), a[3], b[3])
      BY <1>2, <1>4
    <3>. QED
      BY <3>2 DEF Met3
  <2>3. /\ Gives3(0, 6, 11, a, b) /\ Gives3(0, 7, 10, a, b)
        /\ Gives3(4, 2, 11, a, b) /\ Gives3(4, 3, 9, a, b) /\ Gives3(8, 1, 7, a, b)
        /\ Gives3(8, 3, 5, a, b)
    BY <1>2, <1>4, Groups3
  <2>4. PICK l, m, n : l = GroupRules(3)[g][1] /\ m = GroupRules(3)[g][2] /\ n = GroupRules(3)[g][3]
    OBVIOUS
  <2>5. Gives3(l, m, n, a, b)
    <3>1. g \in 1 .. 6
      BY <1>1, <1>4 DEF Groups
    <3>2. <<l, m, n>> \in {<<0, 6, 11>>, <<0, 7, 10>>, <<4, 2, 11>>, <<4, 3, 9>>, <<8, 1, 7>>,
                           <<8, 3, 5>>}
      BY <2>4, <3>1 DEF GroupRules
    <3>. QED
      BY <2>3, <3>2
  <2>6. (Covers(p, x) <=> Covers(q, x))
          <=> ~(Covers(ELCube(p, q, l), x)
                  <=> (Covers(ELCube(p, q, m), x) <=> Covers(ELCube(p, q, n), x)))
    BY <2>1, <2>2, <2>5 DEF Gives3
  <2>. QED
    BY <1>1, <1>4, <2>4, <2>6
<1>5. CASE d = 4
  <2>1. /\ Covers(p, x) <=> common /\ a[1] /\ a[2] /\ a[3] /\ a[4]
        /\ Covers(q, x) <=> common /\ b[1] /\ b[2] /\ b[3] /\ b[4]
    BY <1>2, <1>5
  <2>2. \A n : Covers(ELCube(p, q, n), x) <=> common /\ Met4(n, a, b)
    <3>1. SUFFICES ASSUME NEW n PROVE Covers(ELCube(p, q, n), x) <=> common /\ Met4(n, a, b)
      OBVIOUS
    <3>2. Covers(ELCube(p, q, n), x)
            <=> common /\ Side(Rule(4, n, 1 - 1), a[1], b[1]) /\ Side(Rule(4, n, 2 - 1), a[2], b[2])
                       /\ Side(Rule(4, n, 3 - 1), a[3], b[3]) /\ Side(Rule(4, n, 4 - 1), a[4], b[4])
      BY <1>2, <1>5
    <3>. QED
      BY <3>2 DEF Met4
  <2>4. PICK l, m, n, o : /\ l = GroupRules(4)[g][1] /\ m = GroupRules(4)[g][2]
                          /\ n = GroupRules(4)[g][3] /\ o = GroupRules(4)[g][4]
    OBVIOUS
  <2>5. Gives4(l, m, n, o, a, b)
    <3>1. g \in 1 .. 24
      BY <1>1, <1>5 DEF Groups
    <3>2. <<l, m, n, o>> \in {
             <<0, 12, 22, 31>>, <<0, 12, 23, 30>>, <<0, 20, 14, 31>>,
             <<0, 20, 15, 29>>, <<0, 28, 13, 23>>, <<0, 28, 15, 21>>,
             <<8, 4, 22, 31>>, <<8, 4, 23, 30>>, <<8, 18, 6, 31>>,
             <<8, 18, 7, 27>>, <<8, 26, 5, 23>>, <<8, 26, 7, 19>>,
             <<16, 2, 14, 31>>, <<16, 2, 15, 29>>, <<16, 10, 6, 31>>,
             <<16, 10, 7, 27>>, <<16, 25, 3, 15>>, <<16, 25, 7, 11>>,
             <<24, 1, 13, 23>>, <<24, 1, 15, 21>>, <<24, 9, 5, 23>>,
             <<24, 9, 7, 19>>, <<24, 17, 3, 15>>, <<24, 17, 7, 11>> }
      BY <2>4, <3>1, SMTT(60) DEF GroupRules
    <3>3. ASSUME NEW e, NEW s, NEW t, NEW u, <<l, m, n, o>> = <<e, s, t, u>>
          PROVE  l = e /\ m = s /\ n = t /\ o = u
      BY <3>3
    <3>. QED
      BY <1>2, <1>5, <3>2, Groups4
  <2>6. (Covers(p, x) <=> Covers(q, x))
          <=> (Covers(ELCube(p, q, l), x)
                 <=> (Covers(ELCube(p, q, m), x)
                        <=> (Covers(ELCube(p, q, n), x) <=> Covers(ELCube(p, q, o), x))))
    BY <2>1, <2>2, <2>5 DEF Gives4
  <2>. QED
    BY <1>1, <1>5, <2>4, <2>6
<1>6. d = 2 \/ d = 3 \/ d = 4
  BY <1>1 DEF Distances
<1>. QED
  BY <1>3, <1>4, <1>5, <1>6

-----------------------------------------------------------------------------
(* Literals and costs.                                                      *)
LiteralsOf(c) == {v \in Inputs : c[v] # Absent}

LEMMA LiteralsFacts ==
  ASSUME NEW c
  PROVE  /\ IsFiniteSet(LiteralsOf(c)) /\ Literals(c) = Cardinality(LiteralsOf(c))
         /\ Literals(c) \in 0 .. N
<1>1. IsFiniteSet(LiteralsOf(c)) /\ Cardinality(LiteralsOf(c)) <= Cardinality(Inputs)
  BY PositionFacts, FS_Subset DEF LiteralsOf
<1>2. Cardinality(LiteralsOf(c)) \in Nat /\ Cardinality(LiteralsOf(c)) <= N
  BY <1>1, PositionFacts, FS_CardinalityType
<1>. QED
  BY <1>1, <1>2, CubesAssumption DEF Literals, LiteralsOf

LEMMA CostIsNat == \A c : ComputeQCost(c) \in Nat
<1>1. ASSUME NEW n \in Nat, NEW m \in Nat PROVE GetQCost(n, m) \in Nat
  <2>1. CASE n <= 3
    BY <2>1 DEF GetQCost
  <2>2. CASE n > 3
    <3>1. PICK extra \in Int : extra = m - n \div 2
      OBVIOUS
    <3>2. GetQCost(n, m) = 20 + 12 * (n - 4) + (IF extra > 0 THEN 2 * extra ELSE 0)
      BY <2>2, <3>1 DEF GetQCost
    <3>. QED
      BY <2>2, <3>1, <3>2
  <2>. QED
    BY <2>1, <2>2
<1>2. ASSUME NEW c PROVE ComputeQCost(c) \in Nat
  <2>1. IsFiniteSet({v \in Inputs : c[v] = {0}})
    BY PositionFacts, FS_Subset
  <2>2. Cardinality({v \in Inputs : c[v] = {0}}) \in Nat /\ Literals(c) \in Nat
    BY <2>1, FS_CardinalityType, LiteralsFacts, CubesAssumption
  <2>. QED
    BY <1>1, <2>2 DEF ComputeQCost
<1>. QED
  BY <1>2

(* Changing the value at v changes the number of literals by at most one.    *)
LEMMA LiteralsStep ==
  ASSUME NEW p, NEW m, NEW v \in Positions, \A u \in Positions : u # v => m[u] = p[u]
  PROVE  Literals(m) = IF v = OutPos THEN Literals(p)
                       ELSE Literals(p) - LiteralIn(p[v]) + LiteralIn(m[v])
<1>1. CASE v = OutPos
  <2>1. LiteralsOf(m) = LiteralsOf(p)
    BY <1>1, PositionFacts DEF LiteralsOf
  <2>. QED
    BY <1>1, <2>1, LiteralsFacts
<1>2. CASE v # OutPos
  <2>0. v \in Inputs
    BY <1>2, PositionFacts
  <2>1. PICK R : R = LiteralsOf(p) \ {v}
    OBVIOUS
  <2>2. IsFiniteSet(R) /\ v \notin R
    BY <2>1, LiteralsFacts, FS_Subset
  <2>3. Cardinality(R) \in Nat /\ Cardinality(R \cup {v}) = Cardinality(R) + 1
    BY <2>2, FS_CardinalityType, FS_AddElement
  <2>4. R = LiteralsOf(m) \ {v}
    BY <2>1, PositionFacts DEF LiteralsOf
  <2>5. LiteralsOf(p) = IF p[v] = Absent THEN R ELSE R \cup {v}
    BY <2>0, <2>1 DEF LiteralsOf
  <2>6. LiteralsOf(m) = IF m[v] = Absent THEN R ELSE R \cup {v}
    BY <2>0, <2>4 DEF LiteralsOf
  <2>7. Literals(p) = Cardinality(R) + LiteralIn(p[v])
    BY <2>3, <2>5, LiteralsFacts DEF LiteralIn
  <2>8. Literals(m) = Cardinality(R) + LiteralIn(m[v])
    BY <2>3, <2>6, LiteralsFacts DEF LiteralIn
  <2>9. LiteralIn(p[v]) \in Int /\ LiteralIn(m[v]) \in Int
    BY DEF LiteralIn
  <2>. QED
    BY <1>2, <2>3, <2>7, <2>8, <2>9
<1>. QED
  BY <1>1, <1>2

(* The literals of a cube of the tables, as Create counts them.             *)
LEMMA ELCubeLiterals ==
  ASSUME NEW p, NEW q, NEW n
  PROVE  Literals(ELCube(p, q, n))
           = Literals(p) - Cardinality({v \in Differ(p, q) \ {OutPos} : p[v] # Absent})
               + CubeLiterals(p, q, n)
<1>1. PICK e : e = ELCube(p, q, n)
  OBVIOUS
<1>2. \A v \in Positions \ Differ(p, q) : e[v] = p[v]
  BY <1>1, ELCubeColumns DEF TableCubes
<1>3. PICK R : R = {v \in Inputs \ Differ(p, q) : p[v] # Absent}
  OBVIOUS
<1>4. PICK P : P = {v \in Differ(p, q) \ {OutPos} : p[v] # Absent}
  OBVIOUS
<1>5. PICK E : E = {v \in Differ(p, q) \ {OutPos} : e[v] # Absent}
  OBVIOUS
<1>6. Differ(p, q) \ {OutPos} = Differ(p, q) \cap Inputs
  BY DifferFacts, PositionFacts
<1>7. LiteralsOf(p) = R \cup P /\ R \cap P = {}
  BY <1>3, <1>4, <1>6 DEF LiteralsOf
<1>8. LiteralsOf(e) = R \cup E /\ R \cap E = {}
  <2>1. R = {v \in Inputs \ Differ(p, q) : e[v] # Absent}
    BY <1>2, <1>3, PositionFacts
  <2>. QED
    BY <2>1, <1>5, <1>6 DEF LiteralsOf
<1>9. IsFiniteSet(R) /\ IsFiniteSet(P) /\ IsFiniteSet(E)
  BY <1>7, <1>8, LiteralsFacts, FS_Subset
<1>10. /\ Cardinality(R) \in Nat /\ Cardinality(P) \in Nat /\ Cardinality(E) \in Nat
  BY <1>9, FS_CardinalityType
<1>11. Cardinality(R \cap P) = 0 /\ Cardinality(R \cap E) = 0
  BY <1>7, <1>8, FS_EmptySet
<1>12. Cardinality(R \cup P) = Cardinality(R) + Cardinality(P) - Cardinality(R \cap P)
  BY <1>9, FS_Union
<1>13. Cardinality(R \cup E) = Cardinality(R) + Cardinality(E) - Cardinality(R \cap E)
  BY <1>9, FS_Union
<1>14. CubeLiterals(p, q, n) = Cardinality(E)
  BY <1>1, <1>5 DEF CubeLiterals
<1>15. Literals(p) = Cardinality(R) + Cardinality(P)
  BY <1>7, <1>10, <1>11, <1>12, LiteralsFacts
<1>16. Literals(e) = Cardinality(R) + Cardinality(E)
  <2>1. Literals(e) = Cardinality(LiteralsOf(e))
    BY LiteralsFacts
  <2>. QED
    BY <2>1, <1>8, <1>10, <1>11, <1>13
<1>. QED
  BY <1>1, <1>4, <1>10, <1>14, <1>15, <1>16

(* A costliest group exists, so that one that was not visited is chosen.    *)
LEMMA NextGroupFacts ==
  ASSUME NEW d \in Distances, NEW visited \in SUBSET (1 .. Groups(d)), visited # 1 .. Groups(d),
         NEW p, NEW q
  PROVE  /\ NextGroupOf(d, visited, p, q) \in 1 .. Groups(d)
         /\ NextGroupOf(d, visited, p, q) \notin visited
<1>1. PICK G : G = (1 .. Groups(d)) \ visited
  OBVIOUS
<1>2. G # {} /\ G \subseteq Nat /\ G = DOMAIN GroupRules(d) \ visited
  <2>1. G # {}
    BY <1>1
  <2>2. G \subseteq Nat
    BY <1>1, TableDomain
  <2>3. G = DOMAIN GroupRules(d) \ visited
    BY <1>1, TableDomain
  <2>. QED
    BY <2>1, <2>2, <2>3
<1>3. PICK W : W = (1 .. d) \X Inputs
  OBVIOUS
<1>4. IsFiniteSet(W) /\ Cardinality(W) \in Nat
  <2>1. IsFiniteSet(1 .. d)
    BY FS_Interval DEF Distances
  <2>. QED
    BY <1>3, <2>1, PositionFacts, FS_Product, FS_CardinalityType
<1>5. PICK cost : cost = [g \in G |-> GroupCost(d, g, p, q)]
  OBVIOUS
<1>6. ASSUME NEW g \in G PROVE cost[g] \in Nat /\ cost[g] <= Cardinality(W)
  <2>1. PICK V : V = {w \in W : w[2] \in Differ(p, q)
                                 /\ ELCube(p, q, GroupRules(d)[g][w[1]])[w[2]] # Absent}
    OBVIOUS
  <2>2. V \subseteq W
    BY <2>1
  <2>3. Cardinality(V) \in Nat /\ Cardinality(V) <= Cardinality(W)
    BY <1>4, <2>2, FS_Subset, FS_CardinalityType
  <2>4. cost[g] = Cardinality(V)
    BY <1>3, <1>5, <2>1 DEF GroupCost
  <2>. QED
    BY <2>3, <2>4
<1>7. PICK B : B = {Cardinality(W) - cost[g] : g \in G}
  OBVIOUS
<1>8. B \subseteq Nat /\ B # {}
  BY <1>2, <1>4, <1>6, <1>7
<1>9. Smallest(B) \in B /\ \A y \in B : Smallest(B) <= y
  BY <1>8, LeastOf
<1>10. PICK g \in G : Smallest(B) = Cardinality(W) - cost[g]
  BY <1>7, <1>9
<1>11. \A h \in G : cost[g] >= cost[h]
  <2>1. SUFFICES ASSUME NEW h \in G PROVE cost[g] >= cost[h]
    OBVIOUS
  <2>2. Cardinality(W) - cost[h] \in B
    BY <1>7
  <2>3. Cardinality(W) - cost[g] <= Cardinality(W) - cost[h]
    BY <1>9, <1>10, <2>2
  <2>. QED
    BY <1>4, <1>6, <2>3
<1>12. PICK M : M = {i \in G : \A h \in G : cost[i] >= cost[h]}
  OBVIOUS
<1>13. g \in M /\ M \subseteq G
  BY <1>11, <1>12
<1>14. Smallest(M) \in M
  BY <1>2, <1>13, LeastOf
<1>15. NextGroupOf(d, visited, p, q) = Smallest(M)
  <2>1. DOMAIN cost = G /\ cost = [h \in DOMAIN GroupRules(d) \ visited |-> GroupCost(d, h, p, q)]
    BY <1>2, <1>5
  <2>. QED
    BY <1>12, <2>1 DEF NextGroupOf
<1>. QED
  BY <1>1, <1>13, <1>14, <1>15

-----------------------------------------------------------------------------
(* The inductive invariant.  Of the cells made for a pair, those of the     *)
(* group in work that were merged or inserted have left the hand.           *)
GC(k, i) == k.el[GroupRules(k.dist)[k.group][i]]
Probing == pc = "probe" \/ (pc \in {"scan", "probed"} /\ chk.ret = "probed")
Inserting == pc = "insert" \/ (pc = "scan" /\ chk.ret = "insert")
Gone == IF Touched THEN {GroupRules(link.dist)[link.group][i] : i \in Given} ELSE {}
Made == {n \in 0 .. 31 : link.el[n] # NULL}
Held ==
  IF Linking THEN {link.C1, link.C2} \cup {link.el[n] : n \in Made \ Gone} \cup InScan
  ELSE InScan
(* The cells whose cubes make up the cover.                                 *)
Working == Elements(list) \cup Owed

(* Where every cell is.                                                     *)
PlacesInv ==
  /\ Distinct(list) /\ Distinct(free) /\ Elements(list) \cap Elements(free) = {}
  /\ \A k \in Cells : ID[k] = 0 <=> k \in Elements(free)
  /\ Cells \ (Elements(list) \cup Elements(free)) = Held
MarksInv ==
  \A k \in Cells : fMark[k] => /\ Linking /\ link.dist # 2
                               /\ \E n \in Made : link.el[n] = k

(* What the running ExorLink and the running check know of each other.      *)
LinkOK(k) ==
  /\ k.C1 # NULL /\ k.C2 # NULL /\ k.C1 # k.C2
  /\ k.visited \subseteq 1 .. Groups(k.dist) /\ k.group \in k.visited
  /\ \A n \in 0 .. 31 :
       k.el[n] # NULL => n \in ELCubes(k.dist) /\ k.el[n] # k.C1 /\ k.el[n] # k.C2
  /\ \A m, n \in 0 .. 31 : k.el[m] = k.el[n] /\ k.el[m] # NULL => m = n
  /\ \A i \in 1 .. k.dist : GC(k, i) # NULL
NoLink(k) == k.C1 = NULL /\ k.el = [n \in 0 .. 31 |-> NULL] /\ k.visited = {}
ProbeOK(k) ==
  /\ k.c \in 1 .. k.dist + 1 /\ k.ins \subseteq 1 .. k.c - 1
  /\ k.dist # 4 => k.ins = {}
  /\ k.ins = {} <=> k.gain = 0
  /\ k.gain = 1 => \E i \in 1 .. k.dist : k.ins = {i}
PhaseInv ==
  /\ IF pc \in {"probe", "probed", "insert", "failed"} \/ (pc = "scan" /\ chk.ret # "add")
     THEN LinkOK(link) ELSE NoLink(link)
  /\ pc = "probed" => chk.ret = "probed"
  /\ pc = "scan" => chk.p # NULL
  /\ pc = "scan" /\ chk.ret # "probed" => chk.add
  /\ pc = "scan" /\ chk.ret = "add" => added > 0
  /\ Probing => ProbeOK(link)
  /\ Probing /\ pc # "probe" =>
       link.c <= link.dist /\ chk.p = GC(link, link.c)
  /\ Probing /\ pc = "scan" => (chk.add <=> chk.gain > 0)
  /\ Inserting => link.ins \subseteq 1 .. link.dist /\ link.ins # {}
  /\ Inserting /\ pc = "scan" => \E i \in link.ins : chk.p = GC(link, i)

(* The pairs a pass may still take were all written: the queue never was    *)
(* filled to its end, or every place was written.                           *)
Full(e) == e.p1 # NULL /\ e.p2 # NULL /\ e.ID1 # 0 /\ e.ID2 # 0
InPass == pc = "next" \/ Linking
QueueOK(q, places, linking, here, stop) ==
  \/ \A i \in places : Full(q.buf[i])
  \/ /\ \A i \in places : i < q.in => Full(q.buf[i])
     /\ q.out <= q.in
     /\ linking => q.out <= q.mark /\ q.mark <= q.in
     /\ here => q.out <= stop /\ stop <= q.in
     /\ linking /\ here => stop <= q.mark
QueueInv ==
  \A d \in Distances :
    QueueOK(que[d], Places, Linking, InPass /\ d = link.dist, pass.stop)

(* The data of the cells in use.                                            *)
DataOK(c, l, q) == c \in Cube /\ l = Literals(c) /\ q = ComputeQCost(c)
DataInv == \A k \in Cells : ID[k] # 0 => DataOK(cube[k], lits[k], qcost[k])
Apart(cb, S) == \A a, b \in S : a # b => Distance(cb[a], cb[b]) >= 2
ApartInv == Apart(cube, Elements(list))

(* The list as it was when the pair was taken: what a group tried in vain   *)
(* must leave.                                                              *)
Vain(S, cb, lt, qc, k, sv, f) ==
  /\ {cb[a] : a \in S} = sv \ {cb[k.C1], cb[k.C2]}
  /\ \A n \in 0 .. 31 : k.el[n] # NULL => cb[k.el[n]] = ELCube(cb[k.C1], cb[k.C2], n)
  /\ Distance(cb[k.C1], cb[k.C2]) = k.dist
  /\ Apart(cb, S \cup {k.C1, k.C2})
  /\ \A x \in Points : Par(cb, S \cup {k.C1, k.C2}, x) <=> x \in f
  /\ Cardinality(S) + 2 <= Cardinality(sv)
  /\ \A a \in S \cup {k.C1, k.C2} \cup {k.el[n] : n \in {m \in 0 .. 31 : k.el[m] # NULL}} :
       DataOK(cb[a], lt[a], qc[a])
VainInv ==
  Linking /\ ~Touched => Vain(Elements(list), cube, lits, qcost, link, saved, FunctionRead(added))

(* Undoing the one merge of a group leads back there.                       *)
TotalGain == link.gain + (IF pc = "probe" THEN 0 ELSE chk.gain)
Undoable == Probing /\ TotalGain = 1
UndonePos == IF store.fInput THEN store.Var ELSE OutPos
UndoneValue == IF store.fInput THEN store.Value ELSE cube[Head(free)][OutPos]
UndoneList == (Elements(list) \cup {Head(free)}) \ {store.p}
UndoneCube == [cube EXCEPT ![store.p][UndonePos] = Xor(@, UndoneValue)]
UndoneLits == IF store.fInput THEN [lits EXCEPT ![store.p] = store.PrevPa] ELSE lits
UndoneCost == IF store.fInput THEN [qcost EXCEPT ![store.p] = store.PrevPq] ELSE qcost
UndoInv ==
  Undoable =>
    /\ \E i \in 1 .. link.dist : Given = {i} /\ store.p = GC(link, i)
    /\ store.p \in Elements(list) \cup InScan
    /\ free # <<>> /\ store.PrevID # 0
    /\ Vain(UndoneList, UndoneCube, UndoneLits, UndoneCost, link, saved, FunctionRead(added))

LedgerInv == \A x \in Points : Par(cube, Working, x) <=> x \in FunctionRead(added)

SizeInv ==
  /\ Linking \/ Adding => IsFiniteSet(saved)
  /\ Linking => Cardinality(saved) <= pass.nBefore
  /\ pc = "next" => Len(list) <= pass.nBefore
  /\ Adding => Cardinality(Working) <= Cardinality(saved) + 1
  /\ Probing /\ Touched => Cardinality(Working) + TotalGain + 2 <= Cardinality(saved) + link.dist
  /\ Inserting => Cardinality(Working) <= Cardinality(saved)

(* A cube of an ExorLink-2 that was checked in vain is far from the list.   *)
Missed(i) == pc = "failed" \/ i < link.c \/ (pc = "probed" /\ i = link.c)
TwoInv ==
  Linking /\ ~Touched /\ link.dist = 2 =>
    \A i \in 1 .. 2 : Missed(i) =>
      \A a \in Elements(list) : Distance(cube[GC(link, i)], cube[a]) >= 2

IInv ==
  /\ TypeOK /\ PlacesInv /\ MarksInv /\ PhaseInv /\ QueueInv /\ DataInv /\ ApartInv
  /\ VainInv /\ UndoInv /\ LedgerInv /\ SizeInv /\ TwoInv

-----------------------------------------------------------------------------
LEMMA CellsFacts ==
  ASSUME TypeOK
  PROVE  /\ nCubesAlloc \in Nat /\ Cells \subseteq Nat /\ NULL \notin Cells
         /\ \A k : k \in 0 .. nCubesAlloc /\ k # NULL <=> k \in Cells
         /\ IsFiniteSet(Cells)
         /\ nPosAlloc \in Nat /\ nPosAlloc > 0
         /\ args.esop \in Seq(Cube) /\ args.Quality \in Nat /\ Len(args.esop) \in Nat
<1>1. args.esop \in Seq(Cube) /\ args.Quality \in Nat
  BY ExorcismAssumption DEF TypeOK
<1>2. PICK l \in Nat : l = Len(args.esop)
  BY <1>1
<1>3. PICK a \in Nat : a = AdditionalCubes
  BY ExorcismAssumption
<1>4. PICK n : n = l + a
  OBVIOUS
<1>5. nCubesAlloc = n /\ n \in Nat
  BY <1>2, <1>3, <1>4 DEF nCubesAlloc
<1>6. Cells = 1 .. n
  BY <1>5 DEF Cells
<1>7. IsFiniteSet(Cells)
  BY <1>5, <1>6, FS_Interval
<1>8. PICK f \in Nat \ {0} : f = CubePairFactor /\ f <= a * a
  BY <1>3, ExorcismAssumption
<1>9. PICK m : m = n * n
  OBVIOUS
<1>10. m \in Nat /\ f <= m
  <2>1. n * n = l * l + 2 * (l * a) + a * a
    BY <1>4
  <2>2. l * l >= 0 /\ l * a >= 0 /\ a * a \in Nat /\ l * l \in Nat /\ l * a \in Nat
    OBVIOUS
  <2>3. \A r, s, t \in Nat : f <= t => f <= r + 2 * s + t /\ r + 2 * s + t \in Nat
    OBVIOUS
  <2>. QED
    BY <1>8, <1>9, <2>1, <2>2, <2>3
<1>11. m \div f \in Nat /\ m \div f > 0
  BY <1>8, <1>10
<1>12. nPosAlloc \in Nat /\ nPosAlloc > 0
  BY <1>5, <1>8, <1>9, <1>11 DEF nPosAlloc
<1>. QED
  BY <1>1, <1>2, <1>5, <1>6, <1>7, <1>12 DEF NULL

(* No action changes the call, so the cells and the places stay what they   *)
(* are.                                                                     *)
LEMMA SameArgs ==
  ASSUME args' = args
  PROVE  /\ Cells' = Cells /\ Places' = Places /\ nCubesAlloc' = nCubesAlloc
         /\ nPosAlloc' = nPosAlloc /\ Queues' = Queues /\ Stores' = Stores /\ Checks' = Checks
         /\ Links' = Links /\ Passes' = Passes
         /\ added' = added => FunctionRead(added)' = FunctionRead(added)
<1>1. /\ nCubesAlloc' = nCubesAlloc /\ nPosAlloc' = nPosAlloc
  BY DEF nCubesAlloc, nPosAlloc
<1>2. Cells' = Cells /\ Places' = Places
  BY <1>1 DEF Cells, Places
<1>3. Pairs' = Pairs
  BY <1>1 DEF Pairs
<1>4. Queues' = Queues /\ Stores' = Stores /\ Checks' = Checks /\ Links' = Links /\ Passes' = Passes
  BY <1>1, <1>2, <1>3 DEF Queues, Stores, Checks, Links, Passes
<1>5. added' = added => FunctionRead(added)' = FunctionRead(added)
  BY DEF FunctionRead
<1>. QED
  BY <1>1, <1>2, <1>4, <1>5

(* The fields of the records.                                               *)
LEMMA LinkType ==
  ASSUME TypeOK
  PROVE  /\ link.dist \in Distances /\ link.C1 \in 0 .. nCubesAlloc /\ link.C2 \in 0 .. nCubesAlloc
         /\ link.el \in [0 .. 31 -> 0 .. nCubesAlloc] /\ link.visited \in SUBSET (1 .. 24)
         /\ link.group \in 0 .. 24 /\ link.c \in 0 .. 5 /\ link.ins \in SUBSET (1 .. 4)
         /\ link.gain \in Nat
BY DEF TypeOK, Links

LEMMA ChkType ==
  ASSUME TypeOK
  PROVE  /\ chk.p \in 0 .. nCubesAlloc /\ chk.add \in BOOLEAN /\ chk.gain \in Nat
         /\ chk.ret \in {"add", "probed", "insert"}
BY DEF TypeOK, Checks

-----------------------------------------------------------------------------
(* Steps between two operations.                                            *)
Idle == {"add", "pass", "next", "done", "quit"}

LEMMA IdleFacts ==
  ASSUME PhaseInv, pc \in Idle
  PROVE  /\ ~Linking /\ NoLink(link)
         /\ Held = {} /\ Owed = {} /\ Working = Elements(list)
<1>1. NoLink(link) /\ pc # "scan" /\ pc # "probe" /\ pc # "probed"
  BY DEF PhaseInv, Idle
<1>2. ~Linking /\ InScan = {}
  BY <1>1 DEF NoLink, Linking, InScan
<1>. QED
  BY <1>1, <1>2 DEF Held, Owed, Working

LEMMA IdleStep ==
  ASSUME IInv, pc \in Idle, pc' \in Idle, UNCHANGED <<args, added, cells, saved>>, link'.C1 = NULL
  PROVE  /\ PlacesInv' /\ MarksInv' /\ DataInv' /\ ApartInv'
         /\ VainInv' /\ UndoInv' /\ LedgerInv' /\ TwoInv'
<1>1. /\ args' = args /\ added' = added /\ saved' = saved /\ cube' = cube /\ ID' = ID
      /\ lits' = lits /\ qcost' = qcost /\ fMark' = fMark /\ list' = list /\ free' = free
  BY DEF cells
<1>2. PhaseInv /\ PlacesInv /\ MarksInv /\ DataInv /\ ApartInv /\ LedgerInv
  BY DEF IInv
<1>3. ~Linking /\ Held = {} /\ Working = Elements(list)
  BY <1>2, IdleFacts
<1>4. ~Linking' /\ InScan' = {}
  BY DEF Linking, InScan, Idle
<1>5. Held' = {} /\ Owed' = {} /\ Working' = Elements(list)
  BY <1>1, <1>4 DEF Held, Owed, Working, Elements
<1>6. Cells' = Cells /\ FunctionRead(added)' = FunctionRead(added)
  BY <1>1, SameArgs
<1>7. PlacesInv'
  BY <1>1, <1>2, <1>3, <1>5, <1>6 DEF PlacesInv, Distinct, Elements
<1>8. MarksInv'
  BY <1>1, <1>2, <1>3, <1>6 DEF MarksInv
<1>9. DataInv' /\ ApartInv'
  BY <1>1, <1>2, <1>6 DEF DataInv, ApartInv, Elements
<1>10. LedgerInv'
  BY <1>1, <1>2, <1>3, <1>5, <1>6 DEF LedgerInv
<1>11. VainInv' /\ TwoInv'
  BY <1>4 DEF VainInv, TwoInv
<1>12. UndoInv'
  BY DEF UndoInv, Undoable, Probing, Idle
<1>. QED
  BY <1>7, <1>8, <1>9, <1>10, <1>11, <1>12

(* Such a step keeps the phase and, if it leaves the queues alone, what was *)
(* written into them.                                                       *)
LEMMA IdlePhase ==
  ASSUME IInv, pc \in Idle, pc' \in Idle, NoLink(link)' 
  PROVE  PhaseInv'
BY DEF PhaseInv, Idle, Probing, Inserting

LEMMA IdleSize ==
  ASSUME pc' \in Idle, link'.C1 = NULL, pc' = "next" => Len(list)' <= pass'.nBefore
  PROVE  SizeInv'
BY DEF SizeInv, Idle, Linking, Adding, Probing, Inserting

(* The pairs of an idle step stay readable.                                 *)
LEMMA IdleQueue ==
  ASSUME QueueInv, args' = args, que' = que, link'.C1 = NULL,
         pc' = "next" => /\ pc = "next" /\ link'.dist = link.dist /\ pass'.stop = pass.stop
  PROVE  QueueInv'
<1>1. SUFFICES ASSUME NEW d \in Distances
      PROVE  QueueOK(que'[d], Places', Linking', InPass' /\ d = link'.dist, pass'.stop)
  BY DEF QueueInv
<1>2. QueueOK(que[d], Places, Linking, InPass /\ d = link.dist, pass.stop)
  BY DEF QueueInv
<1>3. Places' = Places /\ que' = que /\ ~Linking'
  BY SameArgs DEF Linking
<1>. QED
  BY <1>2, <1>3 DEF QueueOK, InPass
-----------------------------------------------------------------------------
LEMMA QuitStep == ASSUME IInv, Quit PROVE IInv'
<1>1. /\ pc \in Idle /\ pc' \in Idle /\ pc' # "next" /\ args' = args
      /\ UNCHANGED <<args, added, cells, saved>> /\ que' = que /\ link' = link
  BY DEF Quit, Idle
<1>2. NoLink(link) /\ NoLink(link)' /\ link'.C1 = NULL
  BY <1>1, IdleFacts DEF IInv, NoLink
<1>3. TypeOK'
  BY SameArgs DEF IInv, TypeOK, Quit, cells
<1>4. QueueInv'
  BY <1>1, <1>2, IdleQueue DEF IInv
<1>5. PhaseInv' /\ SizeInv'
  BY <1>1, <1>2, IdlePhase, IdleSize
<1>. QED
  BY <1>1, <1>2, <1>3, <1>4, <1>5, IdleStep DEF IInv

LEMMA FinishStep == ASSUME IInv, Finish PROVE IInv'
<1>1. /\ pc \in Idle /\ pc' \in Idle /\ pc' # "next" /\ args' = args
      /\ UNCHANGED <<args, added, cells, saved>> /\ que' = que /\ link' = link
  BY DEF Finish, Idle
<1>2. NoLink(link) /\ NoLink(link)' /\ link'.C1 = NULL
  BY <1>1, IdleFacts DEF IInv, NoLink
<1>3. TypeOK'
  BY SameArgs DEF IInv, TypeOK, Finish, cells
<1>4. QueueInv'
  BY <1>1, <1>2, IdleQueue DEF IInv
<1>5. PhaseInv' /\ SizeInv'
  BY <1>1, <1>2, IdlePhase, IdleSize
<1>. QED
  BY <1>1, <1>2, <1>3, <1>4, <1>5, IdleStep DEF IInv

LEMMA AsSeq ==
  ASSUME NEW S, NEW n \in Nat, NEW s, s \in [1 .. n -> S]
  PROVE  s \in Seq(S) /\ Len(s) = n
OBVIOUS

(* The script is a sequence of passes.                                      *)
LEMMA ScriptTypes ==
  /\ Shallow \in Seq([dist : Distances, four : BOOLEAN])
  /\ Deep \in Seq([dist : Distances, four : BOOLEAN])
  /\ Final \in Seq([dist : Distances, four : BOOLEAN])
<1>1. PICK P : P = [dist : Distances, four : BOOLEAN]
  OBVIOUS
<1>2. \A d \in 2 .. 4 : \A b \in BOOLEAN : Pass(d, b) \in P
  BY <1>1 DEF Pass, Distances
<1>3. PICK s : s = Shallow
  OBVIOUS
<1>4. s = [i \in 1 .. 12 |-> Pass(IF i % 2 = 1 THEN 2 ELSE 3, FALSE)]
  BY <1>3 DEF Shallow
<1>5. ASSUME NEW i \in 1 .. 12 PROVE s[i] \in P
  <2>1. s[i] = Pass(IF i % 2 = 1 THEN 2 ELSE 3, FALSE)
    BY <1>4
  <2>2. (IF i % 2 = 1 THEN 2 ELSE 3) \in 2 .. 4 /\ FALSE \in BOOLEAN
    OBVIOUS
  <2>. QED
    BY <1>2, <2>1, <2>2
<1>6. s \in Seq(P) /\ Len(s) = 12
  <2>1. s \in [1 .. 12 -> P]
    BY <1>4, <1>5
  <2>. QED
    BY <2>1, AsSeq
<1>7. SubSeq(s, 1, 10) \in Seq(P)
  <2>1. 10 \in 0 .. Len(s)
    BY <1>6
  <2>. QED
    BY <1>6, <2>1, PartFacts
<1>8. PICK a : a = <<Pass(2, FALSE), Pass(3, FALSE), Pass(2, TRUE), Pass(3, TRUE),
                     Pass(2, TRUE), Pass(4, TRUE), Pass(2, TRUE), Pass(4, FALSE)>>
  OBVIOUS
<1>9. a \in Seq(P)
  <2>1. /\ Pass(2, FALSE) \in P /\ Pass(3, FALSE) \in P /\ Pass(2, TRUE) \in P
        /\ Pass(3, TRUE) \in P /\ Pass(4, TRUE) \in P /\ Pass(4, FALSE) \in P
    BY <1>1 DEF Pass, Distances
  <2>2. ASSUME NEW c, NEW d, NEW e, NEW f, NEW g, NEW h,
               c \in P /\ d \in P /\ e \in P /\ f \in P /\ g \in P /\ h \in P
        PROVE  <<c, d, e, f, e, g, e, h>> \in Seq(P)
    <3>1. PICK t : t = <<c, d, e, f, e, g, e, h>>
      OBVIOUS
    <3>2. t \in [1 .. 8 -> P]
      <4>1. t = [i \in 1 .. 8 |-> t[i]]
        BY <3>1
      <4>2. t[1] = c /\ t[2] = d /\ t[3] = e /\ t[4] = f /\ t[5] = e /\ t[6] = g /\ t[7] = e /\ t[8] = h
        BY <3>1
      <4>3. \A i \in 1 .. 8 : t[i] \in P
        BY <2>2, <4>2
      <4>. QED
        BY <4>1, <4>3
    <3>. QED
      BY <3>1, <3>2, AsSeq
  <2>. QED
    BY <1>8, <2>1, <2>2
<1>10. a \o a \in Seq(P)
  BY <1>9, ConcatFacts
<1>. QED
  BY <1>1, <1>3, <1>6, <1>7, <1>8, <1>10 DEF Deep, Twice, Final

LEMMA PassType ==
  ASSUME TypeOK
  PROVE  /\ pass.todo \in Seq([dist : Distances, four : BOOLEAN])
         /\ pass.stage \in {"start", "shallow", "deep", "final"}
         /\ pass.nIter \in Nat /\ pass.GainTotal \in Nat /\ pass.nBefore \in Nat
         /\ pass.stop \in Places /\ pass.fDecrease \in BOOLEAN
BY DEF TypeOK, Passes

LEMMA StartReduceStep == ASSUME IInv, StartReduce PROVE IInv'
<1>1. /\ pc \in Idle /\ pc' \in Idle /\ pc' # "next" /\ args' = args
      /\ UNCHANGED <<args, added, cells, saved>> /\ que' = que /\ link' = link
  BY DEF StartReduce, Idle
<1>2. NoLink(link) /\ NoLink(link)' /\ link'.C1 = NULL
  BY <1>1, IdleFacts DEF IInv, NoLink
<1>3. TypeOK'
  <2>1. pass' \in Passes'
    BY SameArgs, ScriptTypes DEF IInv, TypeOK, Passes, StartReduce
  <2>. QED
    BY <2>1, SameArgs DEF IInv, TypeOK, StartReduce, cells
<1>4. QueueInv'
  BY <1>1, <1>2, IdleQueue DEF IInv
<1>5. PhaseInv' /\ SizeInv'
  BY <1>1, <1>2, IdlePhase, IdleSize
<1>. QED
  BY <1>1, <1>2, <1>3, <1>4, <1>5, IdleStep DEF IInv

LEMMA GoDeepStep == ASSUME IInv, GoDeep PROVE IInv'
<1>1. /\ pc \in Idle /\ pc' \in Idle /\ pc' # "next" /\ args' = args
      /\ UNCHANGED <<args, added, cells, saved>> /\ que' = que /\ link' = link
  BY DEF GoDeep, Idle
<1>2. NoLink(link) /\ NoLink(link)' /\ link'.C1 = NULL
  BY <1>1, IdleFacts DEF IInv, NoLink
<1>3. TypeOK'
  <2>1. pass' \in Passes'
    BY SameArgs, ScriptTypes DEF IInv, TypeOK, Passes, GoDeep
  <2>. QED
    BY <2>1, SameArgs DEF IInv, TypeOK, GoDeep, cells
<1>4. QueueInv'
  BY <1>1, <1>2, IdleQueue DEF IInv
<1>5. PhaseInv' /\ SizeInv'
  BY <1>1, <1>2, IdlePhase, IdleSize
<1>. QED
  BY <1>1, <1>2, <1>3, <1>4, <1>5, IdleStep DEF IInv

LEMMA EndIterationStep == ASSUME IInv, EndIteration PROVE IInv'
<1>1. /\ pc \in Idle /\ pc' \in Idle /\ pc' # "next" /\ args' = args
      /\ UNCHANGED <<args, added, cells, saved>> /\ que' = que /\ link' = link
  BY DEF EndIteration, Idle
<1>2. NoLink(link) /\ NoLink(link)' /\ link'.C1 = NULL
  BY <1>1, IdleFacts DEF IInv, NoLink
<1>3. TypeOK'
  <2>1. PICK n : /\ n = IF pass.GainTotal # 0 THEN 0 ELSE pass.nIter + 1
                 /\ pass' = [pass EXCEPT !.nIter = n,
                              !.GainTotal = 0,
                              !.todo = IF n < 1 + args.Quality THEN Shallow ELSE Final,
                              !.stage = IF n < 1 + args.Quality THEN "shallow" ELSE "final",
                              !.fDecrease = ~(n < 1 + args.Quality)]
    BY DEF EndIteration
  <2>2. n \in Nat
    BY <2>1, PassType DEF IInv
  <2>4. pass \in Passes
    BY DEF IInv, TypeOK
  <2>5. ASSUME n < 1 + args.Quality PROVE pass' \in Passes
    <3>1. pass' = [pass EXCEPT !.nIter = n, !.GainTotal = 0, !.todo = Shallow,
                               !.stage = "shallow", !.fDecrease = FALSE]
      BY <2>1, <2>5
    <3>. QED
      BY <2>2, <2>4, <3>1, ScriptTypes DEF Passes
  <2>6. ASSUME ~(n < 1 + args.Quality) PROVE pass' \in Passes
    <3>1. pass' = [pass EXCEPT !.nIter = n, !.GainTotal = 0, !.todo = Final,
                               !.stage = "final", !.fDecrease = TRUE]
      BY <2>1, <2>6
    <3>. QED
      BY <2>2, <2>4, <3>1, ScriptTypes DEF Passes
  <2>7. pass' \in Passes
    BY <2>5, <2>6
  <2>. QED
    BY <2>7, SameArgs DEF IInv, TypeOK, EndIteration, cells
<1>4. QueueInv'
  BY <1>1, <1>2, IdleQueue DEF IInv
<1>5. PhaseInv' /\ SizeInv'
  BY <1>1, <1>2, IdlePhase, IdleSize
<1>. QED
  BY <1>1, <1>2, <1>3, <1>4, <1>5, IdleStep DEF IInv

LEMMA BeginPassStep == ASSUME IInv, BeginPass PROVE IInv'
<1>0. TypeOK /\ PhaseInv /\ QueueInv
  BY DEF IInv
<1>1. /\ pc \in Idle /\ pc' \in Idle /\ args' = args /\ added' = added /\ list' = list
      /\ UNCHANGED <<args, added, cells, saved>> /\ que' = que
  BY DEF BeginPass, Idle, cells
<1>2. PICK p : p = Head(pass.todo)
  OBVIOUS
<1>3. /\ pass.todo # <<>> /\ link' = [link EXCEPT !.dist = p.dist]
      /\ enabled' = {2, 3} \cup (IF p.four THEN {4} ELSE {})
      /\ pass' = [pass EXCEPT !.todo = Tail(@), !.nBefore = Len(list), !.stop = que[p.dist].in]
  BY <1>2 DEF BeginPass
<1>4. p \in [dist : Distances, four : BOOLEAN]
     /\ Tail(pass.todo) \in Seq([dist : Distances, four : BOOLEAN])
  BY <1>0, <1>2, <1>3, PassType, HeadTailProperties
<1>5. p.dist \in Distances /\ p.four \in BOOLEAN
  BY <1>4
<1>6. link \in Links /\ pass \in Passes /\ que \in Queues /\ Len(list) \in Nat
  BY <1>0, SeqFacts DEF TypeOK
<1>7. /\ link'.dist = p.dist /\ link'.C1 = link.C1 /\ link'.el = link.el
      /\ link'.visited = link.visited
      /\ pass'.nBefore = Len(list) /\ pass'.stop = que[p.dist].in
  BY <1>3, <1>6 DEF Links, Passes
<1>8. NoLink(link)' /\ link'.C1 = NULL
  BY <1>0, <1>1, <1>7, IdleFacts DEF NoLink
<1>9. TypeOK'
  <2>1. link' \in Links
    BY <1>3, <1>5, <1>6 DEF Links
  <2>2. que[p.dist].in \in Places
    BY <1>5, <1>6 DEF Queues
  <2>3. pass' \in Passes
    BY <1>3, <1>4, <1>6, <2>2 DEF Passes
  <2>4. enabled' \in SUBSET Distances
    BY <1>3 DEF Distances
  <2>. QED
    BY <1>0, <2>1, <2>3, <2>4, SameArgs DEF TypeOK, BeginPass, cells
<1>10. QueueInv'
  <2>1. SUFFICES ASSUME NEW d \in Distances
        PROVE  QueueOK(que'[d], Places', Linking', InPass' /\ d = link'.dist, pass'.stop)
    BY DEF QueueInv
  <2>2. QueueOK(que[d], Places, Linking, InPass /\ d = link.dist, pass.stop)
    BY <1>0 DEF QueueInv
  <2>3. Places' = Places /\ que' = que /\ ~Linking'
    BY <1>1, <1>8, SameArgs DEF Linking
  <2>4. que[d].in \in Nat
    BY <1>0, <1>6, CellsFacts DEF Queues, Places
  <2>. QED
    BY <1>7, <2>2, <2>3, <2>4 DEF QueueOK
<1>11. PhaseInv' /\ SizeInv'
  <2>1. Len(list)' <= pass'.nBefore
    BY <1>1, <1>6, <1>7
  <2>. QED
    BY <1>1, <1>8, <2>1, IdlePhase, IdleSize
<1>. QED
  BY <1>1, <1>8, <1>9, <1>10, <1>11, IdleStep DEF IInv

-----------------------------------------------------------------------------
(* Places in the queues.                                                    *)
LEMMA ModFacts ==
  ASSUME NEW n \in Nat, n > 0
  PROVE  /\ \A a \in Int : a % n \in 0 .. n - 1
         /\ \A a \in Nat : a < n => a % n = a
         /\ \A a \in Nat : a < n => (a + n) % n = a
<1>1. ASSUME NEW a \in Int PROVE a % n \in 0 .. n - 1
  OBVIOUS
<1>2. ASSUME NEW a \in Nat, a < n PROVE a % n = a
  BY <1>2
<1>3. ASSUME NEW a \in Nat, a < n PROVE (a + n) % n = a
  BY <1>3
<1>. QED
  BY <1>1, <1>2, <1>3

LEMMA QueueType ==
  ASSUME TypeOK, NEW d \in Distances
  PROVE  /\ que[d].buf \in [Places -> Pairs]
         /\ que[d].out \in 0 .. nPosAlloc - 1 /\ que[d].in \in 0 .. nPosAlloc - 1
         /\ que[d].mark \in 0 .. nPosAlloc - 1
BY DEF TypeOK, Queues, Places

(* What a pass reads was written, and reading on keeps it so.               *)
LEMMA ReadPair ==
  ASSUME TypeOK, QueueInv, pc = "next", NEW j \in Waiting
  PROVE  /\ Full(At(j)) /\ At(j) \in Pairs
         /\ QueueOK([Queue EXCEPT !.out = (Queue.out + j + 1) % nPosAlloc],
                    Places, FALSE, TRUE, pass.stop)
<1>1. PICK n \in Nat : n = nPosAlloc /\ n > 0
  BY CellsFacts
<1>2. PICK q : q = Queue
  OBVIOUS
<1>3. link.dist \in Distances
  BY LinkType
<1>4. q.buf \in [0 .. n - 1 -> Pairs] /\ q.out \in 0 .. n - 1 /\ q.in \in 0 .. n - 1
  BY <1>1, <1>2, <1>3, QueueType DEF Queue, Places
<1>5. PICK s \in 0 .. n - 1 : s = pass.stop
  BY <1>1, PassType DEF Places
<1>6. PICK w : w = (s - q.out + n) % n
  OBVIOUS
<1>7. w \in 0 .. n - 1 /\ j \in 0 .. w - 1
  <2>1. s - q.out + n \in Int
    BY <1>1, <1>4, <1>5
  <2>2. w \in 0 .. n - 1
    BY <1>1, <1>6, <2>1, ModFacts
  <2>. QED
    BY <1>1, <1>2, <1>5, <1>6, <2>2 DEF Waiting
<1>8. j \in Nat /\ q.out + j \in Nat
  BY <1>4, <1>7
<1>9. At(j) = q.buf[(q.out + j) % n]
  BY <1>1, <1>2 DEF At
<1>10. (q.out + j) % n \in 0 .. n - 1
  BY <1>1, <1>8, ModFacts
<1>11. At(j) \in Pairs
  BY <1>4, <1>9, <1>10
<1>12. QueueOK(q, 0 .. n - 1, Linking, TRUE, s)
  BY <1>1, <1>2, <1>3, <1>5 DEF QueueInv, InPass, Queue, Places
<1>13. CASE \A i \in 0 .. n - 1 : Full(q.buf[i])
  <2>1. Full(At(j))
    BY <1>9, <1>10, <1>13
  <2>2. [Queue EXCEPT !.out = (Queue.out + j + 1) % nPosAlloc].buf = q.buf
    BY <1>2, <1>3, <1>4 DEF TypeOK, Queues, Queue
  <2>. QED
    BY <1>1, <1>11, <1>13, <2>1, <2>2 DEF QueueOK, Places
<1>14. CASE /\ \A i \in 0 .. n - 1 : i < q.in => Full(q.buf[i])
            /\ q.out <= s /\ s <= q.in
  <2>1. w = s - q.out
    <3>1. s - q.out \in Nat /\ s - q.out < n
      BY <1>4, <1>5, <1>14
    <3>. QED
      BY <1>1, <1>6, <3>1, ModFacts
  <2>2. q.out + j < s /\ q.out + j + 1 \in 0 .. n - 1 /\ q.out + j \in 0 .. n - 1
    BY <1>4, <1>5, <1>7, <2>1
  <2>3. (q.out + j) % n = q.out + j /\ (q.out + j + 1) % n = q.out + j + 1
    BY <1>1, <2>2, ModFacts
  <2>4. q.out + j < q.in
    BY <1>4, <1>5, <1>14, <2>2
  <2>5. Full(At(j))
    BY <1>9, <1>14, <2>2, <2>3, <2>4
  <2>6. PICK r : r = [Queue EXCEPT !.out = (Queue.out + j + 1) % nPosAlloc]
    OBVIOUS
  <2>7. r.buf = q.buf /\ r.in = q.in /\ r.out = q.out + j + 1
    BY <1>1, <1>2, <1>3, <2>3, <2>6 DEF TypeOK, Queues, Queue
  <2>8. r.out <= s /\ r.out <= r.in
    BY <1>4, <1>5, <1>14, <2>2, <2>7
  <2>9. QueueOK(r, 0 .. n - 1, FALSE, TRUE, s)
    BY <1>14, <2>7, <2>8 DEF QueueOK
  <2>. QED
    BY <1>1, <1>5, <1>11, <2>5, <2>6, <2>9 DEF Places
<1>. QED
  BY <1>12, <1>13, <1>14 DEF QueueOK

(* The pair taken is a pair of cells of the list.                           *)
LEMMA TakenFacts ==
  ASSUME IInv, pc = "next", ValidAt # {}
  PROVE  /\ Smallest(ValidAt) \in Waiting
         /\ Taken.p1 \in Elements(list) /\ Taken.p2 \in Elements(list)
<1>0. TypeOK /\ QueueInv /\ PhaseInv /\ PlacesInv
  BY DEF IInv
<1>1. \A k \in Waiting : k \in Nat
  BY DEF Waiting
<1>2. PICK j : j = Smallest(ValidAt)
  OBVIOUS
<1>3. j \in ValidAt
  <2>1. ValidAt \subseteq Nat
    BY <1>1 DEF ValidAt
  <2>. QED
    BY <1>2, <2>1, LeastOf
<1>4. j \in Waiting /\ Valid(At(j))
  BY <1>3 DEF ValidAt
<1>5. PICK e : e = At(j)
  OBVIOUS
<1>6. Full(e) /\ e \in Pairs /\ Valid(e)
  BY <1>0, <1>4, <1>5, ReadPair
<1>7. e.p1 \in Cells /\ e.p2 \in Cells
  BY <1>0, <1>6, CellsFacts DEF Full, Pairs
<1>8. ID[e.p1] # 0 /\ ID[e.p2] # 0
  BY <1>6 DEF Full, Valid
<1>9. e.p1 \notin Elements(free) /\ e.p2 \notin Elements(free)
  BY <1>0, <1>7, <1>8 DEF PlacesInv
<1>10. Held = {}
  BY <1>0, IdleFacts DEF Idle
<1>11. e.p1 \in Elements(list) /\ e.p2 \in Elements(list)
  BY <1>0, <1>7, <1>9, <1>10 DEF PlacesInv
<1>. QED
  BY <1>2, <1>4, <1>5, <1>11 DEF Taken

LEMMA EndPassStep == ASSUME IInv, EndPass PROVE IInv'
<1>0. TypeOK /\ PhaseInv /\ QueueInv /\ SizeInv
  BY DEF IInv
<1>1. /\ pc = "next" /\ pc \in Idle /\ pc' = "pass" /\ pc' \in Idle /\ pc' # "next" /\ args' = args
      /\ UNCHANGED <<args, added, cells, saved>> /\ link' = link
      /\ que' = MovedOut(pass.stop)
      /\ pass' = [pass EXCEPT !.GainTotal = @ + pass.nBefore - Len(list)]
  BY DEF EndPass, Idle
<1>2. NoLink(link) /\ NoLink(link)' /\ link'.C1 = NULL
  BY <1>0, <1>1, IdleFacts DEF NoLink
<1>3. PICK n \in Nat : n = nPosAlloc /\ n > 0
  BY <1>0, CellsFacts
<1>4. PICK s \in 0 .. n - 1 : s = pass.stop /\ s % n = s
  <2>1. pass.stop \in 0 .. n - 1
    BY <1>0, <1>3, PassType DEF Places
  <2>. QED
    BY <1>3, <2>1, ModFacts
<1>5. PICK d \in Distances : d = link.dist
  BY <1>0, LinkType
<1>6. que' = [que EXCEPT ![d].out = s]
  BY <1>1, <1>3, <1>4, <1>5 DEF MovedOut
<1>7. que \in Queues
  BY <1>0 DEF TypeOK
<1>8. que' \in Queues
  BY <1>3, <1>4, <1>5, <1>6, <1>7 DEF Queues, Places
<1>9. TypeOK'
  <2>1. Len(list) \in Nat /\ Len(list) <= pass.nBefore
    BY <1>0, <1>1, SeqFacts DEF TypeOK, SizeInv
  <2>2. pass.GainTotal + pass.nBefore - Len(list) \in Nat
    BY <1>0, <2>1, PassType
  <2>3. pass' \in Passes
    BY <1>0, <1>1, <2>2 DEF TypeOK, Passes
  <2>. QED
    BY <1>0, <1>8, <2>3, SameArgs DEF TypeOK, EndPass, cells
<1>10. QueueInv'
  <2>1. SUFFICES ASSUME NEW e \in Distances
        PROVE  QueueOK(que'[e], Places', Linking', InPass' /\ e = link'.dist, pass'.stop)
    BY DEF QueueInv
  <2>2. QueueOK(que[e], Places, Linking, InPass /\ e = link.dist, pass.stop)
    BY <1>0 DEF QueueInv
  <2>3. Places' = Places /\ ~Linking' /\ ~InPass'
    BY <1>1, <1>2, SameArgs DEF Linking, InPass
  <2>4. CASE e # d
    <3>1. que'[e] = que[e]
      BY <1>6, <1>7, <2>4 DEF Queues
    <3>. QED
      BY <2>2, <2>3, <3>1 DEF QueueOK
  <2>5. CASE e = d
    <3>1. que'[e].buf = que[e].buf /\ que'[e].in = que[e].in /\ que'[e].out = s
      BY <1>6, <1>7, <2>5 DEF Queues
    <3>2. InPass
      BY <1>1 DEF InPass
    <3>. QED
      BY <1>4, <1>5, <2>2, <2>3, <2>5, <3>1, <3>2 DEF QueueOK
  <2>. QED
    BY <2>4, <2>5
<1>11. PhaseInv' /\ SizeInv'
  BY <1>1, <1>2, IdlePhase, IdleSize
<1>. QED
  BY <1>1, <1>2, <1>9, <1>10, <1>11, IdleStep DEF IInv

LEMMA SkipPairStep == ASSUME IInv, SkipPair PROVE IInv'
<1>0. TypeOK /\ PhaseInv /\ QueueInv /\ SizeInv
  BY DEF IInv
<1>1. /\ pc = "next" /\ pc \in Idle /\ pc' = "next" /\ pc' \in Idle /\ args' = args
      /\ UNCHANGED <<args, added, cells, saved>> /\ link' = link /\ pass' = pass /\ list' = list
      /\ ValidAt # {} /\ que' = MovedOut(Queue.out + Smallest(ValidAt) + 1)
  BY DEF SkipPair, Idle, cells
<1>2. NoLink(link) /\ NoLink(link)' /\ link'.C1 = NULL /\ ~Linking
  BY <1>0, <1>1, IdleFacts DEF NoLink
<1>3. PICK j \in Waiting : j = Smallest(ValidAt)
  BY <1>1, TakenFacts
<1>5. PICK d \in Distances : d = link.dist
  BY <1>0, LinkType
<1>6. que' = [que EXCEPT ![d].out = (Queue.out + j + 1) % nPosAlloc]
  BY <1>1, <1>3, <1>5 DEF MovedOut
<1>7. que \in Queues
  BY <1>0 DEF TypeOK
<1>8. que' \in Queues
  <2>1. Queue.out + j + 1 \in Int
    BY <1>0, <1>5, QueueType DEF Queue, Waiting
  <2>2. (Queue.out + j + 1) % nPosAlloc \in Places
    BY <1>0, <2>1, CellsFacts, ModFacts DEF Places
  <2>. QED
    BY <1>5, <1>6, <1>7, <2>2 DEF Queues
<1>9. TypeOK'
  BY <1>0, <1>8, SameArgs DEF TypeOK, SkipPair, cells
<1>10. QueueInv'
  <2>1. SUFFICES ASSUME NEW e \in Distances
        PROVE  QueueOK(que'[e], Places', Linking', InPass' /\ e = link'.dist, pass'.stop)
    BY DEF QueueInv
  <2>2. QueueOK(que[e], Places, Linking, InPass /\ e = link.dist, pass.stop)
    BY <1>0 DEF QueueInv
  <2>3. Places' = Places /\ ~Linking' /\ InPass'
    BY <1>1, <1>2, SameArgs DEF Linking, InPass
  <2>4. CASE e # d
    <3>1. que'[e] = que[e]
      BY <1>6, <1>7, <2>4 DEF Queues
    <3>. QED
      BY <1>1, <1>5, <2>2, <2>3, <2>4, <3>1 DEF QueueOK
  <2>5. CASE e = d
    <3>1. que'[e] = [Queue EXCEPT !.out = (Queue.out + j + 1) % nPosAlloc]
      BY <1>5, <1>6, <1>7, <2>5 DEF Queues, Queue
    <3>2. QueueOK(que'[e], Places, FALSE, TRUE, pass.stop)
      BY <1>0, <1>1, <3>1, ReadPair
    <3>. QED
      BY <1>1, <2>3, <3>2 DEF QueueOK
  <2>. QED
    BY <2>4, <2>5
<1>11. PhaseInv' /\ SizeInv'
  <2>1. Len(list)' <= pass'.nBefore
    BY <1>0, <1>1 DEF SizeInv
  <2>. QED
    BY <1>1, <1>2, <2>1, IdlePhase, IdleSize
<1>. QED
  BY <1>1, <1>2, <1>9, <1>10, <1>11, IdleStep DEF IInv

-----------------------------------------------------------------------------
(* Cells apart have different cubes, so that they are as many.              *)
LEMMA CoverSize ==
  ASSUME NEW cb, NEW S, IsFiniteSet(S), Apart(cb, S)
  PROVE  /\ IsFiniteSet({cb[a] : a \in S}) /\ Cardinality({cb[a] : a \in S}) = Cardinality(S)
         /\ \A a, b \in S : cb[a] = cb[b] => a = b
<1>1. ASSUME NEW a \in S, NEW b \in S, cb[a] = cb[b] PROVE a = b
  <2>1. Distance(cb[a], cb[b]) = 0
    BY <1>1, DifferFacts
  <2>. QED
    BY <2>1 DEF Apart
<1>2. PICK T : T = {cb[a] : a \in S}
  OBVIOUS
<1>3. PICK f : f = [a \in S |-> cb[a]]
  OBVIOUS
<1>4. f \in Injection(S, T)
  BY <1>1, <1>2, <1>3 DEF Injection, IsInjective
<1>5. f \in Surjection(S, T)
  BY <1>2, <1>3 DEF Surjection
<1>6. f \in Bijection(S, T)
  BY <1>4, <1>5 DEF Bijection
<1>7. IsFiniteSet(T) /\ Cardinality(T) = Cardinality(S)
  BY <1>6, FS_Bijection DEF ExistsBijection
<1>. QED
  BY <1>1, <1>2, <1>7

(* The cells of the list: finitely many, all in use.                        *)
LEMMA ListFacts ==
  ASSUME TypeOK, PlacesInv
  PROVE  /\ Elements(list) \subseteq Cells /\ Elements(free) \subseteq Cells
         /\ IsFiniteSet(Elements(list)) /\ Cardinality(Elements(list)) = Len(list)
         /\ Len(list) \in Nat
         /\ \A k \in Elements(list) : k \in Cells /\ ID[k] # 0 /\ k \notin Elements(free) /\ k \notin Held
         /\ Held \subseteq Cells
         /\ \A k \in Held : ID[k] # 0 /\ k \notin Elements(free) /\ k \notin Elements(list)
<1>1. list \in Seq(Cells) /\ free \in Seq(Cells) /\ Distinct(list)
  BY DEF TypeOK, PlacesInv
<1>2. Elements(list) \subseteq Cells /\ Elements(free) \subseteq Cells /\ Len(list) \in Nat
  BY <1>1, SeqFacts
<1>3. IsFiniteSet(Elements(list)) /\ Cardinality(Elements(list)) = Len(list)
  BY <1>1, CountElements
<1>4. Cells \ (Elements(list) \cup Elements(free)) = Held
  BY DEF PlacesInv
<1>5. \A k \in Elements(list) : k \notin Elements(free) /\ k \notin Held
  BY <1>4 DEF PlacesInv
<1>6. \A k \in Held : k \in Cells /\ k \notin Elements(free) /\ k \notin Elements(list)
  BY <1>4
<1>7. \A k \in Cells : k \notin Elements(free) => ID[k] # 0
  BY DEF PlacesInv
<1>. QED
  BY <1>2, <1>3, <1>5, <1>6, <1>7

LEMMA NewIDType == ASSUME TypeOK PROVE \A i \in Nat : NewID(i) \in 1 .. LastID
<1>1. PICK n \in Nat : n = LastID /\ n > 0
  BY ExorcismAssumption
<1>2. cIDs \in 1 .. n
  BY <1>1 DEF TypeOK
<1>3. ASSUME NEW i \in Nat PROVE NewID(i) \in 1 .. n
  <2>1. cIDs + i - 1 \in Int
    BY <1>2
  <2>2. (cIDs + i - 1) % n \in 0 .. n - 1
    BY <1>1, <2>1, ModFacts
  <2>. QED
    BY <1>1, <2>2 DEF NewID
<1>. QED
  BY <1>1, <1>3

(* The cover of the list.                                                   *)
LEMMA CoverFacts ==
  ASSUME TypeOK, PlacesInv, DataInv, ApartInv
  PROVE  /\ Cover \in SUBSET Cube /\ IsFiniteSet(Cover)
         /\ Cardinality(Cover) = Cardinality(Elements(list))
<1>1. \A k \in Elements(list) : cube[k] \in Cube
  BY ListFacts DEF DataInv, DataOK
<1>2. /\ IsFiniteSet({cube[k] : k \in Elements(list)})
      /\ Cardinality({cube[k] : k \in Elements(list)}) = Cardinality(Elements(list))
  BY ListFacts, CoverSize DEF ApartInv
<1>. QED
  BY <1>1, <1>2 DEF Cover

(* One more cube read.                                                      *)
ReadUpTo(esop, n, x) == Odd({i \in 1 .. n : Covers(esop[i], x)})

LEMMA ReadMore ==
  ASSUME NEW esop, NEW n \in Nat, NEW x
  PROVE  ReadUpTo(esop, n + 1, x) <=> ~(ReadUpTo(esop, n, x) <=> Covers(esop[n + 1], x))
<1>1. PICK S : S = {i \in 1 .. n : Covers(esop[i], x)}
  OBVIOUS
<1>2. IsFiniteSet(1 .. n) /\ S \subseteq 1 .. n
  <2>1. IsFiniteSet(1 .. n)
    BY FS_Interval
  <2>. QED
    BY <1>1, <2>1
<1>3. IsFiniteSet(S) /\ n + 1 \notin S
  <2>1. n + 1 \notin 1 .. n
    OBVIOUS
  <2>. QED
    BY <1>2, <2>1, FS_Subset
<1>4. CASE Covers(esop[n + 1], x)
  <2>1. {i \in 1 .. n + 1 : Covers(esop[i], x)} = S \cup {n + 1}
    BY <1>1, <1>4
  <2>. QED
    BY <1>1, <1>3, <1>4, <2>1, OddAdd DEF ReadUpTo
<1>5. CASE ~Covers(esop[n + 1], x)
  <2>1. {i \in 1 .. n + 1 : Covers(esop[i], x)} = S
    BY <1>1, <1>5
  <2>. QED
    BY <1>1, <1>5, <2>1 DEF ReadUpTo
<1>. QED
  BY <1>4, <1>5

LEMMA AddCubeStep == ASSUME IInv, AddCube PROVE IInv'
<1>0. /\ TypeOK /\ PhaseInv /\ QueueInv /\ PlacesInv /\ MarksInv /\ DataInv /\ ApartInv /\ LedgerInv
  BY DEF IInv
<1>1. /\ pc = "add" /\ pc \in Idle /\ pc' = "scan" /\ added < Len(args.esop) /\ free # <<>>
      /\ args' = args /\ added' = added + 1 /\ fMark' = fMark /\ list' = list /\ que' = que
      /\ enabled' = enabled /\ store' = store /\ link' = link /\ pass' = pass
      /\ saved' = Cover /\ cIDs' = NewID(1) /\ free' = Tail(free)
  BY DEF AddCube, Idle
<1>2. PICK new, c : /\ new = Head(free) /\ c = args.esop[added + 1]
                    /\ cube' = [cube EXCEPT ![new] = c]
                    /\ lits' = [lits EXCEPT ![new] = Literals(c)]
                    /\ qcost' = [qcost EXCEPT ![new] = ComputeQCost(c)]
                    /\ ID' = [ID EXCEPT ![new] = cIDs]
                    /\ chk' = [p |-> new, add |-> TRUE, gain |-> 0, ret |-> "add"]
  BY DEF AddCube
<1>3. NoLink(link) /\ NoLink(link)' /\ ~Linking /\ ~Linking' /\ Held = {} /\ Working = Elements(list)
  BY <1>0, <1>1, IdleFacts DEF NoLink, Linking
<1>4. c \in Cube
  <2>1. added + 1 \in 1 .. Len(args.esop)
    BY <1>0, <1>1, CellsFacts DEF TypeOK
  <2>. QED
    BY <1>0, <1>2, <2>1, CellsFacts, SeqFacts
<1>5. /\ new \in Elements(free) /\ new \in Cells /\ free' \in Seq(Cells) /\ Distinct(free')
      /\ Elements(free') = Elements(free) \ {new}
  <2>1. free \in Seq(Cells) /\ Distinct(free)
    BY <1>0 DEF TypeOK, PlacesInv
  <2>. QED
    BY <1>1, <1>2, <2>1, TailFacts
<1>6. /\ cube \in [Cells -> Cube \cup {Blank}] /\ ID \in [Cells -> 0 .. LastID]
      /\ lits \in [Cells -> 0 .. N] /\ qcost \in [Cells -> Nat]
      /\ fMark \in [Cells -> BOOLEAN] /\ list \in Seq(Cells)
      /\ cIDs \in 1 .. LastID
  BY <1>0 DEF TypeOK
<1>7. Cells' = Cells /\ (added' = added => FunctionRead(added)' = FunctionRead(added))
  BY <1>1, SameArgs
<1>8. new \notin Elements(list) /\ Elements(list)' = Elements(list)
  BY <1>0, <1>1, <1>5 DEF PlacesInv, Elements
<1>9. InScan' = {new} /\ Held' = {new} /\ Owed' = {new} /\ Working' = Elements(list) \cup {new}
  BY <1>1, <1>2, <1>3, <1>8 DEF InScan, Held, Owed, Working
<1>10. /\ cube'[new] = c /\ lits'[new] = Literals(c) /\ qcost'[new] = ComputeQCost(c)
       /\ ID'[new] = cIDs
       /\ \A k \in Cells : k # new => /\ cube'[k] = cube[k] /\ lits'[k] = lits[k]
                                      /\ qcost'[k] = qcost[k] /\ ID'[k] = ID[k]
  BY <1>2, <1>5, <1>6
<1>11. LastID \in Nat /\ LastID > 0 /\ cIDs # 0
  BY <1>6, ExorcismAssumption
<1>12. TypeOK'
  <2>1. /\ cube' \in [Cells -> Cube \cup {Blank}] /\ ID' \in [Cells -> 0 .. LastID]
    BY <1>2, <1>4, <1>5, <1>6, <1>11
  <2>2. lits' \in [Cells -> 0 .. N] /\ qcost' \in [Cells -> Nat]
    BY <1>2, <1>5, <1>6, LiteralsFacts, CostIsNat
  <2>3. chk' \in Checks
    BY <1>0, <1>2, <1>5, CellsFacts DEF Checks
  <2>4. saved' \in SUBSET Cube
    BY <1>0, <1>1, CoverFacts
  <2>5. added' \in 0 .. Len(args.esop)
    BY <1>0, <1>1, CellsFacts DEF TypeOK
  <2>6. cIDs' \in 1 .. LastID
    BY <1>0, <1>1, NewIDType
  <2>. QED
    BY <1>0, <1>1, <1>5, <1>7, <2>1, <2>2, <2>3, <2>4, <2>5, <2>6, SameArgs DEF TypeOK
<1>13. PlacesInv'
  <2>1. Distinct(list') /\ Elements(list)' \cap Elements(free)' = {}
    BY <1>0, <1>1, <1>5, <1>8 DEF PlacesInv, Elements
  <2>2. \A k \in Cells : ID'[k] = 0 <=> k \in Elements(free')
    BY <1>0, <1>5, <1>10, <1>11 DEF PlacesInv
  <2>3. Elements(free)' = Elements(free')
    BY DEF Elements
  <2>4. Cells \ (Elements(list) \cup Elements(free')) = {new}
    BY <1>0, <1>3, <1>5, <1>8 DEF PlacesInv
  <2>. QED
    BY <1>5, <1>7, <1>8, <1>9, <2>1, <2>2, <2>3, <2>4 DEF PlacesInv, Distinct
<1>14. MarksInv'
  BY <1>0, <1>1, <1>3, <1>7 DEF MarksInv
<1>15. PhaseInv'
  <2>1. chk'.p = new /\ chk'.add /\ chk'.ret = "add"
    BY <1>2
  <2>2. new # NULL /\ added' > 0
    BY <1>0, <1>1, <1>5, CellsFacts DEF TypeOK
  <2>. QED
    BY <1>1, <1>3, <2>1, <2>2 DEF PhaseInv, Probing, Inserting
<1>16. QueueInv'
  <2>1. link'.C1 = NULL
    BY <1>3 DEF NoLink
  <2>. QED
    BY <1>0, <1>1, <2>1, IdleQueue
<1>17. DataInv'
  <2>1. \A k \in Cells : ID'[k] # 0 => DataOK(cube'[k], lits'[k], qcost'[k])
    BY <1>0, <1>4, <1>10 DEF DataInv, DataOK
  <2>. QED
    BY <1>7, <2>1 DEF DataInv
<1>18. ApartInv'
  <2>1. \A k \in Elements(list) : cube'[k] = cube[k]
    BY <1>0, <1>8, <1>10, ListFacts
  <2>. QED
    BY <1>0, <1>8, <2>1 DEF ApartInv, Apart
<1>19. VainInv' /\ TwoInv'
  BY <1>3 DEF VainInv, TwoInv
<1>20. UndoInv'
  BY <1>1, <1>2 DEF UndoInv, Undoable, Probing
<1>21. LedgerInv'
  <2>1. SUFFICES ASSUME NEW x \in Points
        PROVE  Par(cube', Elements(list) \cup {new}, x) <=> x \in FunctionRead(added)'
    BY <1>9 DEF LedgerInv
  <2>2. Par(cube, Elements(list), x) <=> ReadUpTo(args.esop, added, x)
    BY <1>0, <1>3, <2>1 DEF LedgerInv, FunctionRead, ReadUpTo
  <2>3. x \in FunctionRead(added)' <=> ReadUpTo(args.esop, added + 1, x)
    BY <1>1, <2>1 DEF FunctionRead, ReadUpTo
  <2>4. added \in Nat
    BY <1>0, CellsFacts DEF TypeOK
  <2>5. x \in FunctionRead(added)' <=> ~(Par(cube, Elements(list), x) <=> Covers(c, x))
    BY <1>2, <2>2, <2>3, <2>4, ReadMore
  <2>6. \A k \in Elements(list) : cube'[k] = cube[k]
    BY <1>0, <1>8, <1>10, ListFacts
  <2>7. Par(cube', Elements(list), x) <=> Par(cube, Elements(list), x)
    BY <2>6, ParSame
  <2>8. Par(cube', Elements(list) \cup {new}, x)
          <=> ~(Par(cube', Elements(list), x) <=> Covers(cube'[new], x))
    BY <1>0, <1>8, ListFacts, ParAdd
  <2>. QED
    BY <1>10, <2>5, <2>7, <2>8
<1>22. SizeInv'
  <2>1. IsFiniteSet(saved') /\ Cardinality(saved') = Cardinality(Elements(list))
    BY <1>0, <1>1, CoverFacts
  <2>2. Cardinality(Elements(list) \cup {new}) = Cardinality(Elements(list)) + 1
    BY <1>0, <1>8, ListFacts, FS_AddElement
  <2>3. Cardinality(Elements(list)) \in Nat
    BY <1>0, ListFacts
  <2>. QED
    BY <1>1, <1>2, <1>3, <1>9, <2>1, <2>2, <2>3 DEF SizeInv, Probing, Inserting
<1>. QED
  BY <1>12, <1>13, <1>14, <1>15, <1>16, <1>17, <1>18, <1>19, <1>20, <1>21, <1>22 DEF IInv

-----------------------------------------------------------------------------
(* A pair of cubes, and the cubes of a group that ExorLink makes of it,      *)
(* next to any other cubes.                                                 *)
Listed(G, d) == {G[i] : i \in 1 .. d}
Swappable(cb, S, c1, c2, d, g, G) ==
  /\ IsFiniteSet(S) /\ c1 # c2 /\ c1 \notin S /\ c2 \notin S
  /\ d \in Distances /\ d = Distance(cb[c1], cb[c2]) /\ g \in 1 .. Groups(d)
  /\ \A i, j \in 1 .. d : G[i] = G[j] => i = j
  /\ \A i \in 1 .. d : G[i] \notin S
  /\ \A i \in 1 .. d : cb[G[i]] = ELCube(cb[c1], cb[c2], GroupRules(d)[g][i])

(* The tables of ExorLink-2, 3 and 4 (s_ELGroupRules, s_ELCubeRules): every   *)
(* group of cubes made of a pair stands for the same function as the pair,   *)
(* and is as many cubes as their distance.                                  *)
THEOREM GroupSwap ==
  ASSUME NEW cb, NEW S, NEW c1, NEW c2, NEW d, NEW g, NEW G, Swappable(cb, S, c1, c2, d, g, G), NEW x
  PROVE  /\ Par(cb, S \cup {c1, c2}, x) <=> Par(cb, S \cup Listed(G, d), x)
         /\ IsFiniteSet(S \cup Listed(G, d))
         /\ Cardinality(S \cup Listed(G, d)) = Cardinality(S) + d
<1>. SUFFICES
       ASSUME IsFiniteSet(S), c1 # c2, c1 \notin S, c2 \notin S,
              d \in Distances, d = Distance(cb[c1], cb[c2]), g \in 1 .. Groups(d),
              \A i, j \in 1 .. d : G[i] = G[j] => i = j, \A i \in 1 .. d : G[i] \notin S,
              \A i \in 1 .. d : cb[G[i]] = ELCube(cb[c1], cb[c2], GroupRules(d)[g][i])
       PROVE  /\ Par(cb, S \cup {c1, c2}, x) <=> Par(cb, S \cup {G[i] : i \in 1 .. d}, x)
              /\ IsFiniteSet(S \cup {G[i] : i \in 1 .. d})
              /\ Cardinality(S \cup {G[i] : i \in 1 .. d}) = Cardinality(S) + d
  BY DEF Swappable, Listed
<1>0. Cardinality(S) \in Nat
  BY FS_CardinalityType
<1>1. Par(cb, S \cup {c1, c2}, x) <=> ~(~(Par(cb, S, x) <=> Covers(cb[c1], x)) <=> Covers(cb[c2], x))
  <2>1. PICK T : T = S \cup {c1}
    OBVIOUS
  <2>2. IsFiniteSet(T) /\ c2 \notin T /\ T \cup {c2} = S \cup {c1, c2}
    BY <2>1, FS_AddElement
  <2>3. Par(cb, T, x) <=> ~(Par(cb, S, x) <=> Covers(cb[c1], x))
    BY <2>1, ParAdd
  <2>4. Par(cb, T \cup {c2}, x) <=> ~(Par(cb, T, x) <=> Covers(cb[c2], x))
    BY <2>2, ParAdd
  <2>. QED
    BY <2>2, <2>3, <2>4
<1>2. ASSUME NEW T, IsFiniteSet(T), NEW k, k \notin T
      PROVE  /\ IsFiniteSet(T \cup {k}) /\ Cardinality(T \cup {k}) = Cardinality(T) + 1
             /\ Par(cb, T \cup {k}, x) <=> ~(Par(cb, T, x) <=> Covers(cb[k], x))
  BY <1>2, FS_AddElement, ParAdd
<1>3. PICK p, q : p = cb[c1] /\ q = cb[c2]
  OBVIOUS
<1>4. PICK C : C = [i \in 1 .. d |-> cb[G[i]]]
  OBVIOUS
<1>5. /\ d = 2 => ((Covers(p, x) <=> Covers(q, x)) <=> (Covers(C[1], x) <=> Covers(C[2], x)))
      /\ d = 3 => ((Covers(p, x) <=> Covers(q, x))
                     <=> ~(Covers(C[1], x) <=> (Covers(C[2], x) <=> Covers(C[3], x))))
      /\ d = 4 => ((Covers(p, x) <=> Covers(q, x))
                     <=> (Covers(C[1], x)
                            <=> (Covers(C[2], x) <=> (Covers(C[3], x) <=> Covers(C[4], x)))))
  <2>1. d = Distance(p, q)
    BY <1>3
  <2>2. PICK r : r = GroupRules(d)[g]
    OBVIOUS
  <2>3. \A i \in 1 .. d : C[i] = ELCube(p, q, r[i])
    BY <1>3, <1>4, <2>2
  <2>4. d = 2 => C[1] = ELCube(p, q, r[1]) /\ C[2] = ELCube(p, q, r[2])
    BY <2>3
  <2>5. d = 3 => /\ C[1] = ELCube(p, q, r[1]) /\ C[2] = ELCube(p, q, r[2])
                 /\ C[3] = ELCube(p, q, r[3])
    BY <2>3
  <2>6. d = 4 => /\ C[1] = ELCube(p, q, r[1]) /\ C[2] = ELCube(p, q, r[2])
                 /\ C[3] = ELCube(p, q, r[3]) /\ C[4] = ELCube(p, q, r[4])
    BY <2>3
  <2>7. /\ d = 2 => ((Covers(p, x) <=> Covers(q, x))
                        <=> (Covers(ELCube(p, q, r[1]), x) <=> Covers(ELCube(p, q, r[2]), x)))
        /\ d = 3 => ((Covers(p, x) <=> Covers(q, x))
                        <=> ~(Covers(ELCube(p, q, r[1]), x)
                                <=> (Covers(ELCube(p, q, r[2]), x)
                                       <=> Covers(ELCube(p, q, r[3]), x))))
        /\ d = 4 => ((Covers(p, x) <=> Covers(q, x))
                        <=> (Covers(ELCube(p, q, r[1]), x)
                               <=> (Covers(ELCube(p, q, r[2]), x)
                                      <=> (Covers(ELCube(p, q, r[3]), x)
                                             <=> Covers(ELCube(p, q, r[4]), x)))))
    BY <2>1, <2>2, TableParity
  <2>. QED
    BY <2>4, <2>5, <2>6, <2>7
<1>6. CASE d = 2
  <2>1. /\ G[1] \notin S /\ G[2] \notin S /\ G[1] # G[2]
        /\ C[1] = cb[G[1]] /\ C[2] = cb[G[2]]
        /\ {G[i] : i \in 1 .. d} = {G[1], G[2]}
    BY <1>4, <1>6
  <2>2. PICK T : T = S \cup {G[1]}
    OBVIOUS
  <2>3. /\ IsFiniteSet(T) /\ G[2] \notin T /\ S \cup {G[i] : i \in 1 .. d} = T \cup {G[2]}
    BY <1>2, <2>1, <2>2
  <2>4. Cardinality(T) = Cardinality(S) + 1 /\ (Par(cb, T, x) <=> ~(Par(cb, S, x) <=> Covers(C[1], x)))
    BY <1>2, <2>1, <2>2
  <2>5. /\ IsFiniteSet(T \cup {G[2]}) /\ Cardinality(T \cup {G[2]}) = Cardinality(T) + 1
        /\ Par(cb, T \cup {G[2]}, x) <=> ~(Par(cb, T, x) <=> Covers(C[2], x))
    BY <1>2, <2>1, <2>3
  <2>6. (Covers(p, x) <=> Covers(q, x)) <=> (Covers(C[1], x) <=> Covers(C[2], x))
    BY <1>5, <1>6
  <2>7. Par(cb, S \cup {c1, c2}, x) <=> Par(cb, T \cup {G[2]}, x)
    BY <1>1, <1>3, <2>4, <2>5, <2>6
  <2>8. Cardinality(T \cup {G[2]}) = Cardinality(S) + d
    BY <1>0, <1>6, <2>4, <2>5
  <2>. QED
    BY <2>3, <2>5, <2>7, <2>8
<1>7. CASE d = 3
  <2>1. /\ G[1] \notin S /\ G[2] \notin S /\ G[3] \notin S
        /\ G[1] # G[2] /\ G[1] # G[3] /\ G[2] # G[3]
        /\ C[1] = cb[G[1]] /\ C[2] = cb[G[2]] /\ C[3] = cb[G[3]]
        /\ {G[i] : i \in 1 .. d} = {G[1], G[2], G[3]}
    BY <1>4, <1>7
  <2>2. PICK T : T = S \cup {G[1]}
    OBVIOUS
  <2>3. PICK U : U = T \cup {G[2]}
    OBVIOUS
  <2>4. /\ IsFiniteSet(T) /\ Cardinality(T) = Cardinality(S) + 1
        /\ (Par(cb, T, x) <=> ~(Par(cb, S, x) <=> Covers(C[1], x)))
    BY <1>2, <2>1, <2>2
  <2>5. /\ IsFiniteSet(U) /\ Cardinality(U) = Cardinality(T) + 1
        /\ (Par(cb, U, x) <=> ~(Par(cb, T, x) <=> Covers(C[2], x)))
    <3>1. G[2] \notin T
      BY <2>1, <2>2
    <3>. QED
      BY <1>2, <2>1, <2>3, <2>4, <3>1
  <2>6. /\ IsFiniteSet(U \cup {G[3]}) /\ Cardinality(U \cup {G[3]}) = Cardinality(U) + 1
        /\ (Par(cb, U \cup {G[3]}, x) <=> ~(Par(cb, U, x) <=> Covers(C[3], x)))
    <3>1. G[3] \notin U
      BY <2>1, <2>2, <2>3
    <3>. QED
      BY <1>2, <2>1, <2>5, <3>1
  <2>7. S \cup {G[i] : i \in 1 .. d} = U \cup {G[3]}
    BY <2>1, <2>2, <2>3
  <2>8. (Covers(p, x) <=> Covers(q, x))
          <=> ~(Covers(C[1], x) <=> (Covers(C[2], x) <=> Covers(C[3], x)))
    BY <1>5, <1>7
  <2>9. Par(cb, S \cup {c1, c2}, x) <=> Par(cb, U \cup {G[3]}, x)
    BY <1>1, <1>3, <2>4, <2>5, <2>6, <2>8
  <2>10. Cardinality(U \cup {G[3]}) = Cardinality(S) + d
    BY <1>0, <1>7, <2>4, <2>5, <2>6
  <2>. QED
    BY <2>6, <2>7, <2>9, <2>10
<1>8. CASE d = 4
  <2>1. /\ G[1] \notin S /\ G[2] \notin S /\ G[3] \notin S /\ G[4] \notin S
        /\ G[1] # G[2] /\ G[1] # G[3] /\ G[2] # G[3]
        /\ G[1] # G[4] /\ G[2] # G[4] /\ G[3] # G[4]
        /\ C[1] = cb[G[1]] /\ C[2] = cb[G[2]] /\ C[3] = cb[G[3]] /\ C[4] = cb[G[4]]
        /\ {G[i] : i \in 1 .. d} = {G[1], G[2], G[3], G[4]}
    BY <1>4, <1>8
  <2>2. PICK T : T = S \cup {G[1]}
    OBVIOUS
  <2>3. PICK U : U = T \cup {G[2]}
    OBVIOUS
  <2>4. PICK V : V = U \cup {G[3]}
    OBVIOUS
  <2>5. /\ IsFiniteSet(T) /\ Cardinality(T) = Cardinality(S) + 1
        /\ (Par(cb, T, x) <=> ~(Par(cb, S, x) <=> Covers(C[1], x)))
    BY <1>2, <2>1, <2>2
  <2>6. /\ IsFiniteSet(U) /\ Cardinality(U) = Cardinality(T) + 1
        /\ (Par(cb, U, x) <=> ~(Par(cb, T, x) <=> Covers(C[2], x)))
    <3>1. G[2] \notin T
      BY <2>1, <2>2
    <3>. QED
      BY <1>2, <2>1, <2>3, <2>5, <3>1
  <2>7. /\ IsFiniteSet(V) /\ Cardinality(V) = Cardinality(U) + 1
        /\ (Par(cb, V, x) <=> ~(Par(cb, U, x) <=> Covers(C[3], x)))
    <3>1. G[3] \notin U
      BY <2>1, <2>2, <2>3
    <3>. QED
      BY <1>2, <2>1, <2>4, <2>6, <3>1
  <2>8. /\ IsFiniteSet(V \cup {G[4]}) /\ Cardinality(V \cup {G[4]}) = Cardinality(V) + 1
        /\ (Par(cb, V \cup {G[4]}, x) <=> ~(Par(cb, V, x) <=> Covers(C[4], x)))
    <3>1. G[4] \notin V
      BY <2>1, <2>2, <2>3, <2>4
    <3>. QED
      BY <1>2, <2>1, <2>7, <3>1
  <2>9. S \cup {G[i] : i \in 1 .. d} = V \cup {G[4]}
    BY <2>1, <2>2, <2>3, <2>4
  <2>10. (Covers(p, x) <=> Covers(q, x))
           <=> (Covers(C[1], x) <=> (Covers(C[2], x) <=> (Covers(C[3], x) <=> Covers(C[4], x))))
    BY <1>5, <1>8
  <2>11. Par(cb, S \cup {c1, c2}, x) <=> Par(cb, V \cup {G[4]}, x)
    BY <1>1, <1>3, <2>5, <2>6, <2>7, <2>8, <2>10
  <2>12. Cardinality(V \cup {G[4]}) = Cardinality(S) + d
    BY <1>0, <1>8, <2>5, <2>6, <2>7, <2>8
  <2>. QED
    BY <2>8, <2>9, <2>11, <2>12
<1>9. d = 2 \/ d = 3 \/ d = 4
  BY DEF Distances
<1>. QED
  BY <1>6, <1>7, <1>8, <1>9

-----------------------------------------------------------------------------
LEMMA GreatestOf ==
  ASSUME NEW m \in Nat, NEW W, W \subseteq 1 .. m, W # {}
  PROVE  \E i \in W : \A j \in W : i >= j
<1>1. PICK D : D = {m - i : i \in W}
  OBVIOUS
<1>2. D \subseteq Nat /\ D # {}
  <2>1. \A i \in W : m - i \in Nat
    OBVIOUS
  <2>2. PICK i : i \in W
    OBVIOUS
  <2>3. m - i \in D
    BY <1>1, <2>2
  <2>. QED
    BY <1>1, <2>1, <2>3
<1>3. PICK s : s = Smallest(D)
  OBVIOUS
<1>4. s \in D /\ \A y \in D : s <= y
  BY <1>2, <1>3, LeastOf
<1>5. PICK i \in W : s = m - i
  BY <1>1, <1>4
<1>6. \A j \in W : m - i <= m - j
  BY <1>1, <1>4, <1>5
<1>7. \A j \in W : i >= j
  BY <1>6
<1>. QED
  BY <1>7

(* What a scan writes into the queue of a distance: pairs of the cube       *)
(* checked and cubes of the list, from the place after the last.            *)
LEMMA WrittenFacts ==
  ASSUME NEW d, NEW n \in Nat, n = nPosAlloc, n > 0, que[d].in \in 0 .. n - 1,
         NEW m \in Nat, NEW range, DOMAIN range = 1 .. m,
         NEW w, w = Written(d, range), NEW i \in 0 .. n - 1
  PROVE  /\ w = [place \in Places |-> w[place]]
         /\ \/ w[i] = que[d].buf[i]
            \/ \E j \in 1 .. m : w[i] = [p1 |-> chk.p, p2 |-> range[j],
                                         ID1 |-> ID[chk.p], ID2 |-> ID[range[j]]]
         /\ i >= que[d].in /\ i < que[d].in + m =>
              \E j \in 1 .. m : w[i] = [p1 |-> chk.p, p2 |-> range[j],
                                        ID1 |-> ID[chk.p], ID2 |-> ID[range[j]]]
<1>1. i \in Places
  BY DEF Places
<1>2. PICK W : W = {j \in DOMAIN range : Place(d, j) = i}
  OBVIOUS
<1>3. W \subseteq 1 .. m
  BY <1>2
<1>4. PICK k : k = CHOOSE l \in W : \A j \in W : l >= j
  OBVIOUS
<1>5. W # {} => k \in 1 .. m
  BY <1>3, <1>4, GreatestOf
<1>6. w[i] = IF W = {} THEN que[d].buf[i]
             ELSE [p1 |-> chk.p, p2 |-> range[k], ID1 |-> ID[chk.p], ID2 |-> ID[range[k]]]
  BY <1>1, <1>2, <1>4 DEF Written
<1>7. ASSUME i >= que[d].in, i < que[d].in + m PROVE W # {}
  <2>1. PICK q \in 0 .. n - 1 : q = que[d].in
    OBVIOUS
  <2>2. PICK j : j = i - q + 1
    OBVIOUS
  <2>0. i >= q /\ i < q + m
    BY <1>7, <2>1
  <2>3. j \in 1 .. m /\ q + j - 1 = i
    <3>1. j \in Int /\ j >= 1 /\ j <= m
      BY <2>0, <2>2
    <3>2. q + j - 1 = i
      BY <2>2
    <3>. QED
      BY <3>1, <3>2
  <2>4. Place(d, j) = i % n
    BY <2>1, <2>3 DEF Place
  <2>5. i % n = i
    BY ModFacts
  <2>. QED
    BY <1>2, <2>3, <2>4, <2>5
<1>8. w = [place \in Places |-> w[place]]
  <2>1. ASSUME NEW f, f = [place \in Places |->
                 LET X == {j \in DOMAIN range : Place(d, j) = place}
                     x == range[CHOOSE j \in X : \A l \in X : j >= l]
                 IN  IF X = {} THEN que[d].buf[place]
                     ELSE [p1 |-> chk.p, p2 |-> x, ID1 |-> ID[chk.p], ID2 |-> ID[x]]]
        PROVE  f = [place \in Places |-> f[place]]
    BY <2>1
  <2>. QED
    BY <2>1 DEF Written
<1>. QED
  BY <1>5, <1>6, <1>7, <1>8

(* So the pairs a pass may take still all were written.                     *)
LEMMA QueueWrite ==
  ASSUME NEW n \in Nat, n > 0, NEW q, NEW r, NEW m \in Nat, NEW linking, NEW here, NEW stop,
         q.in \in 0 .. n - 1, q.out \in 0 .. n - 1, q.mark \in 0 .. n - 1, stop \in 0 .. n - 1,
         QueueOK(q, 0 .. n - 1, linking, here, stop),
         r.out = q.out, r.mark = q.mark, r.in = q.in \/ r.in = (q.in + m) % n,
         \A i \in 0 .. n - 1 : r.buf[i] = q.buf[i] \/ Full(r.buf[i]),
         \A i \in 0 .. n - 1 : i >= q.in /\ i < q.in + m => Full(r.buf[i])
  PROVE  QueueOK(r, 0 .. n - 1, linking, here, stop)
<1>1. CASE \A i \in 0 .. n - 1 : Full(q.buf[i])
  <2>1. \A i \in 0 .. n - 1 : Full(r.buf[i])
    BY <1>1
  <2>. QED
    BY <2>1 DEF QueueOK
<1>2. CASE /\ \A i \in 0 .. n - 1 : i < q.in => Full(q.buf[i])
           /\ q.out <= q.in
           /\ linking => q.out <= q.mark /\ q.mark <= q.in
           /\ here => q.out <= stop /\ stop <= q.in
           /\ linking /\ here => stop <= q.mark
  <2>1. \A i \in 0 .. n - 1 : i < q.in => Full(r.buf[i])
    BY <1>2
  <2>2. \A i \in 0 .. n - 1 : i < q.in + m => Full(r.buf[i])
    <3>1. \A i \in 0 .. n - 1 : i < q.in \/ i >= q.in
      OBVIOUS
    <3>. QED
      BY <2>1, <3>1
  <2>3. CASE q.in + m >= n
    <3>1. \A i \in 0 .. n - 1 : Full(r.buf[i])
      BY <2>2, <2>3
    <3>. QED
      BY <3>1 DEF QueueOK
  <2>4. CASE q.in + m < n
    <3>1. (q.in + m) % n = q.in + m
      <4>1. q.in + m \in Nat
        OBVIOUS
      <4>. QED
        BY <2>4, <4>1, ModFacts
    <3>2. q.in <= r.in /\ r.in <= q.in + m /\ r.in \in Nat
      <4>1. PICK a \in 0 .. n - 1 : a = q.in
        OBVIOUS
      <4>2. PICK b : b = r.in
        OBVIOUS
      <4>3. b = a \/ b = a + m
        BY <3>1, <4>1, <4>2
      <4>. QED
        BY <4>1, <4>2, <4>3
    <3>3. \A i \in 0 .. n - 1 : i < r.in => Full(r.buf[i])
      BY <2>2, <3>2
    <3>4. /\ r.out <= r.in
          /\ linking => r.out <= r.mark /\ r.mark <= r.in
          /\ here => r.out <= stop /\ stop <= r.in
          /\ linking /\ here => stop <= r.mark
      BY <1>2, <3>2
    <3>. QED
      BY <3>3, <3>4 DEF QueueOK
  <2>. QED
    BY <2>3, <2>4
<1>. QED
  BY <1>1, <1>2 DEF QueueOK

(* The cube checked and the cubes met.                                      *)
LEMMA ScanFacts ==
  ASSUME IInv, pc = "scan"
  PROVE  /\ chk.p \in Cells /\ chk.p \in Held /\ ID[chk.p] # 0
         /\ chk.p \notin Elements(list) /\ chk.p \notin Elements(free)
         /\ Hits # {} => /\ Smallest(Hits) \in 1 .. Len(list) /\ Hit \in Elements(list)
                         /\ From(Hit) = 0 \/ From(Hit) = 1
         /\ Hits = {} => \A a \in Elements(list) : Distance(cube[chk.p], cube[a]) >= 2
<1>0. TypeOK /\ PlacesInv /\ PhaseInv
  BY DEF IInv
<1>1. chk.p \in Held
  BY DEF InScan, Held
<1>2. list \in Seq(Cells)
  BY <1>0 DEF TypeOK
<1>3. DOMAIN list = 1 .. Len(list) /\ Len(list) \in Nat /\ Elements(list) = {list[i] : i \in 1 .. Len(list)}
  BY <1>2, SeqFacts
<1>4. ASSUME Hits # {} PROVE Smallest(Hits) \in 1 .. Len(list) /\ From(Hit) <= 1
  <2>1. Hits \subseteq Nat
    BY <1>3 DEF Hits
  <2>2. Smallest(Hits) \in Hits
    BY <1>4, <2>1, LeastOf
  <2>. QED
    BY <1>3, <2>2 DEF Hits, Hit
<1>5. \A x : From(x) \in Nat
  BY DifferFacts DEF From
<1>6. ASSUME Hits # {} PROVE /\ Hit \in Elements(list)
                             /\ From(Hit) = 0 \/ From(Hit) = 1
  BY <1>3, <1>4, <1>5, <1>6 DEF Hit
<1>7. ASSUME Hits = {}, NEW a \in Elements(list) PROVE Distance(cube[chk.p], cube[a]) >= 2
  <2>1. PICK i \in 1 .. Len(list) : a = list[i]
    BY <1>3
  <2>2. ~(From(list[i]) <= 1)
    BY <1>3, <1>7, <2>1 DEF Hits
  <2>. QED
    BY <1>5, <2>1, <2>2 DEF From
<1>. QED
  BY <1>0, <1>1, <1>4, <1>6, <1>7, ListFacts

LEMMA NewRangeFacts ==
  ASSUME IInv, pc = "scan", NEW d
  PROVE  /\ NewRange(d) \in Seq(Cells)
         /\ Elements(NewRange(d)) \subseteq Elements(list)
<1>1. list \in Seq(Cells) /\ Len(list) \in Nat
  BY SeqFacts DEF IInv, TypeOK
<1>2. Elements(list) = {list[i] : i \in 1 .. Len(list)}
  BY <1>1, SeqFacts
<1>3. Passed \in Seq(Cells) /\ Elements(Passed) \subseteq Elements(list)
  <2>1. CASE Hits = {}
    BY <1>1, <2>1 DEF Passed
  <2>2. CASE Hits # {}
    <3>1. PICK k : k = Smallest(Hits)
      OBVIOUS
    <3>2. k \in 1 .. Len(list)
      BY <2>2, <3>1, ScanFacts
    <3>3. PICK m : m = k - 1
      OBVIOUS
    <3>4. m \in 0 .. Len(list)
      BY <1>1, <3>2, <3>3
    <3>5. /\ SubSeq(list, 1, m) \in Seq(Cells)
          /\ Elements(SubSeq(list, 1, m)) = {list[i] : i \in 1 .. m}
      BY <1>1, <3>4, PartFacts
    <3>6. \A i \in 1 .. m : i \in 1 .. Len(list)
      BY <1>1, <3>4
    <3>. QED
      BY <1>2, <2>2, <3>1, <3>3, <3>5, <3>6 DEF Passed
  <2>. QED
    BY <2>1, <2>2
<1>4. CASE d \in enabled
  <2>1. PICK T : T = {x \in Elements(Passed) : From(x) = d}
    OBVIOUS
  <2>2. NewRange(d) = Chosen(Passed, T)
    BY <1>4, <2>1 DEF NewRange
  <2>. QED
    BY <1>3, <2>2, ChosenFacts
<1>5. CASE d \notin enabled
  BY <1>5 DEF NewRange, Elements
<1>. QED
  BY <1>4, <1>5

-----------------------------------------------------------------------------
(* A scan leaves the queues in order.                                       *)
LEMMA ScanQueueStep ==
  ASSUME IInv, pc = "scan", NEW keep \in BOOLEAN, ScanQueues(keep), args' = args, link' = link,
         pass' = pass, pc' \in {"scan", "add", "probed", "insert"}
  PROVE  que' \in Queues /\ QueueInv'
<1>0. TypeOK /\ QueueInv /\ PhaseInv /\ PlacesInv
  BY DEF IInv
<1>1. PICK n \in Nat : n = nPosAlloc /\ n > 0 /\ Places = 0 .. n - 1
  BY <1>0, CellsFacts DEF Places
<1>2. \A x \in Elements(list) : x \in Cells /\ ID[x] # 0 /\ x # NULL
  BY <1>0, ListFacts, CellsFacts
<1>3. chk.p \in Cells /\ ID[chk.p] # 0 /\ chk.p # NULL
  BY <1>0, ScanFacts, CellsFacts
<1>4. \A x \in Cells : x \in 0 .. nCubesAlloc /\ ID[x] \in 0 .. LastID
  BY <1>0, CellsFacts DEF TypeOK
<1>5. ASSUME NEW d \in Distances
      PROVE  /\ que'[d] \in [buf : [Places -> Pairs], out : Places, in : Places, mark : Places]
             /\ QueueOK(que'[d], Places, Linking, InPass /\ d = link.dist, pass.stop)
  <2>1. PICK range : range = NewRange(d)
    OBVIOUS
  <2>2. range \in Seq(Cells) /\ Elements(range) \subseteq Elements(list)
    BY <2>1, NewRangeFacts
  <2>3. PICK m \in Nat : m = Len(range) /\ DOMAIN range = 1 .. m
    BY <2>2, SeqFacts
  <2>4. \A j \in 1 .. m : range[j] \in Elements(list)
    BY <2>2, <2>3, SeqFacts
  <2>5. PICK q : q = que[d]
    OBVIOUS
  <2>6. /\ q.buf \in [Places -> Pairs]
        /\ q.out \in 0 .. n - 1 /\ q.in \in 0 .. n - 1 /\ q.mark \in 0 .. n - 1
    BY <1>0, <1>1, <2>5, QueueType
  <2>7. PICK w : w = Written(d, range)
    OBVIOUS
  <2>8. PICK e : e = IF keep THEN (q.in + m) % n ELSE q.in
    OBVIOUS
  <2>9. PICK r : r = que'[d]
    OBVIOUS
  <2>10. r = [q EXCEPT !.buf = w, !.in = e]
    <3>1. que'[d] = [que[d] EXCEPT !.buf = Written(d, NewRange(d)),
                       !.in = IF keep THEN (@ + Len(NewRange(d))) % nPosAlloc ELSE @]
      BY DEF ScanQueues
    <3>. QED
      BY <1>1, <2>1, <2>3, <2>5, <2>7, <2>8, <2>9, <3>1
  <2>11. q = [buf |-> q.buf, out |-> q.out, in |-> q.in, mark |-> q.mark]
    BY <1>0, <2>5 DEF TypeOK, Queues
  <2>12. r = [buf |-> w, out |-> q.out, in |-> e, mark |-> q.mark]
    BY <2>10, <2>11
  <2>13. r.buf = w /\ r.out = q.out /\ r.in = e /\ r.mark = q.mark
    BY <2>12
  <2>14. w = [place \in Places |-> w[place]]
    <3>1. 0 \in 0 .. n - 1
      BY <1>1
    <3>. QED
      BY <1>1, <2>3, <2>5, <2>6, <2>7, <3>1, WrittenFacts
  <2>15. ASSUME NEW x \in Elements(list), NEW t,
                t = [p1 |-> chk.p, p2 |-> x, ID1 |-> ID[chk.p], ID2 |-> ID[x]]
         PROVE  t \in Pairs /\ Full(t)
    BY <1>2, <1>3, <1>4, <2>15 DEF Pairs, Full
  <2>16. ASSUME NEW i \in 0 .. n - 1
         PROVE  /\ w[i] \in Pairs /\ (w[i] = q.buf[i] \/ Full(w[i]))
                /\ i >= q.in /\ i < q.in + m => Full(w[i])
    <3>1. /\ \/ w[i] = que[d].buf[i]
             \/ \E j \in 1 .. m : w[i] = [p1 |-> chk.p, p2 |-> range[j],
                                          ID1 |-> ID[chk.p], ID2 |-> ID[range[j]]]
          /\ i >= que[d].in /\ i < que[d].in + m =>
               \E j \in 1 .. m : w[i] = [p1 |-> chk.p, p2 |-> range[j],
                                         ID1 |-> ID[chk.p], ID2 |-> ID[range[j]]]
      <4>1. que[d].in \in 0 .. n - 1 /\ DOMAIN range = 1 .. m /\ n = nPosAlloc /\ n > 0
        BY <1>1, <2>3, <2>5, <2>6
      <4>. QED
        BY <2>7, <4>1, WrittenFacts
    <3>2. (\E j \in 1 .. m : w[i] = [p1 |-> chk.p, p2 |-> range[j],
                                     ID1 |-> ID[chk.p], ID2 |-> ID[range[j]]])
            => w[i] \in Pairs /\ Full(w[i])
      BY <2>4, <2>15
    <3>3. q.buf[i] \in Pairs
      BY <1>1, <2>6
    <3>. QED
      BY <2>5, <3>1, <3>2, <3>3
  <2>17. w \in [Places -> Pairs]
    BY <1>1, <2>14, <2>16
  <2>18. e \in Places
    <3>1. q.in + m \in Int
      BY <2>6
    <3>2. (q.in + m) % n \in 0 .. n - 1
      BY <1>1, <3>1, ModFacts
    <3>. QED
      BY <1>1, <2>6, <2>8, <3>2
  <2>19. r \in [buf : [Places -> Pairs], out : Places, in : Places, mark : Places]
    BY <1>1, <2>6, <2>12, <2>17, <2>18
  <2>20. QueueOK(q, 0 .. n - 1, Linking, InPass /\ d = link.dist, pass.stop)
    BY <1>0, <1>1, <2>5 DEF QueueInv
  <2>21. pass.stop \in 0 .. n - 1
    BY <1>0, <1>1, PassType
  <2>22. QueueOK(r, 0 .. n - 1, Linking, InPass /\ d = link.dist, pass.stop)
    BY <1>1, <2>6, <2>8, <2>13, <2>16, <2>20, <2>21, QueueWrite
  <2>. QED
    BY <1>1, <2>9, <2>19, <2>22
<1>6. que' \in Queues
  <2>1. que' = [d \in Distances |-> que'[d]]
    <3>1. ASSUME NEW f, f = [d \in Distances |->
             [que[d] EXCEPT !.buf = Written(d, NewRange(d)),
                            !.in = IF keep THEN (@ + Len(NewRange(d))) % nPosAlloc ELSE @]]
          PROVE  f = [d \in Distances |-> f[d]]
      BY <3>1
    <3>. QED
      BY <3>1 DEF ScanQueues
  <2>. QED
    BY <1>5, <2>1 DEF Queues
<1>7. Linking' = Linking /\ Places' = Places
  BY SameArgs DEF Linking
<1>8. InPass' = InPass
  BY <1>7 DEF InPass
<1>9. QueueInv'
  BY <1>5, <1>7, <1>8 DEF QueueInv
<1>. QED
  BY <1>6, <1>9

-----------------------------------------------------------------------------
(* The cells made for a pair, and those of the group in work.               *)
MadeCells(k) == {k.el[n] : n \in {m \in 0 .. 31 : k.el[m] # NULL}}
GCs(k, I) == {GC(k, i) : i \in I}

LEMMA GroupFacts ==
  ASSUME NEW k, LinkOK(k), k.dist \in Distances
  PROVE  /\ k.group \in 1 .. Groups(k.dist)
         /\ \A i \in 1 .. k.dist : /\ GC(k, i) # NULL /\ GC(k, i) # k.C1 /\ GC(k, i) # k.C2
                                   /\ GC(k, i) \in MadeCells(k)
         /\ \A i, j \in 1 .. k.dist : GC(k, i) = GC(k, j) => i = j
         /\ \A I \in SUBSET (1 .. k.dist) :
              {k.el[n] : n \in {m \in 0 .. 31 : k.el[m] # NULL}
                                 \ {GroupRules(k.dist)[k.group][i] : i \in I}}
                = MadeCells(k) \ GCs(k, I)
<1>1. k.group \in 1 .. Groups(k.dist)
  BY DEF LinkOK
<1>2. PICK r : r = GroupRules(k.dist)[k.group]
  OBVIOUS
<1>3. Row(r, k.dist)
  BY <1>1, <1>2, TableRows
<1>4. PICK d \in 2 .. 4 : d = k.dist
  BY DEF Distances
<1>5. \A i \in 1 .. d : r[i] \in 0 .. 31
  BY <1>3, <1>4, SeqFacts DEF Row
<1>6. \A i, j \in 1 .. d : r[i] = r[j] => i = j
  BY <1>3, <1>4 DEF Row, Distinct
<1>7. \A i : GC(k, i) = k.el[r[i]]
  BY <1>2 DEF GC
<1>8. \A i \in 1 .. d : GC(k, i) # NULL
  BY <1>4 DEF LinkOK
<1>9. \A n \in 0 .. 31 : k.el[n] # NULL => k.el[n] # k.C1 /\ k.el[n] # k.C2
  BY DEF LinkOK
<1>10. ASSUME NEW m, NEW n, m \in 0 .. 31, n \in 0 .. 31, k.el[m] = k.el[n], k.el[m] # NULL
       PROVE  m = n
  BY <1>10 DEF LinkOK
<1>11. \A i \in 1 .. d : /\ GC(k, i) # NULL /\ GC(k, i) # k.C1 /\ GC(k, i) # k.C2
                         /\ GC(k, i) \in MadeCells(k)
  BY <1>5, <1>7, <1>8, <1>9 DEF MadeCells
<1>12. \A i, j \in 1 .. d : GC(k, i) = GC(k, j) => i = j
  <2>1. SUFFICES ASSUME NEW i \in 1 .. d, NEW j \in 1 .. d, GC(k, i) = GC(k, j) PROVE i = j
    OBVIOUS
  <2>2. r[i] \in 0 .. 31 /\ r[j] \in 0 .. 31 /\ k.el[r[i]] = k.el[r[j]] /\ k.el[r[i]] # NULL
    BY <1>5, <1>7, <1>8, <2>1
  <2>3. r[i] = r[j]
    BY <1>10, <2>2
  <2>. QED
    BY <1>6, <2>3
<1>13. ASSUME NEW I \in SUBSET (1 .. d)
       PROVE  {k.el[n] : n \in {m \in 0 .. 31 : k.el[m] # NULL} \ {r[i] : i \in I}}
                = MadeCells(k) \ GCs(k, I)
  <2>1. ASSUME NEW n \in 0 .. 31, k.el[n] # NULL
        PROVE  n \in {r[i] : i \in I} <=> k.el[n] \in GCs(k, I)
    <3>1. ASSUME NEW i \in I, k.el[n] = GC(k, i) PROVE n = r[i]
      <4>1. r[i] \in 0 .. 31 /\ k.el[r[i]] = k.el[n] /\ k.el[r[i]] # NULL
        BY <1>5, <1>7, <2>1, <3>1
      <4>. QED
        BY <1>10, <4>1
    <3>2. ASSUME NEW i \in I, n = r[i] PROVE k.el[n] = GC(k, i)
      BY <1>7, <3>2
    <3>. QED
      BY <3>1, <3>2 DEF GCs
  <2>. QED
    BY <2>1 DEF MadeCells
<1>. QED
  BY <1>1, <1>2, <1>4, <1>11, <1>12, <1>13

LEMMA LinkingIs ==
  ASSUME TypeOK, PhaseInv
  PROVE  /\ Linking <=> \/ pc \in {"probe", "probed", "insert", "failed"}
                        \/ pc = "scan" /\ chk.ret # "add"
         /\ Linking => LinkOK(link) /\ link.dist \in Distances
         /\ ~Linking => NoLink(link)
         /\ Linking => Given \subseteq 1 .. link.dist \/ ~Touched
<1>1. /\ Linking <=> \/ pc \in {"probe", "probed", "insert", "failed"}
                     \/ pc = "scan" /\ chk.ret # "add"
      /\ Linking => LinkOK(link)
      /\ ~Linking => NoLink(link)
  BY DEF PhaseInv, LinkOK, NoLink, Linking
<1>2. PICK d \in 2 .. 4 : d = link.dist
  BY LinkType DEF Distances
<1>3. ASSUME Linking, Touched PROVE Given \subseteq 1 .. d
  <2>1. chk.ret \in {"add", "probed", "insert"}
    BY ChkType
  <2>2. Probing \/ Inserting
    BY <1>1, <1>3, <2>1 DEF Touched, Probing, Inserting, PhaseInv
  <2>3. CASE Inserting
    BY <1>2, <2>3 DEF PhaseInv, Given, Merging, Inserting
  <2>4. CASE Probing
    <3>1. PICK c \in 1 .. d + 1 : c = link.c
      BY <1>2, <2>4 DEF PhaseInv, ProbeOK
    <3>2. link.ins \subseteq 1 .. c - 1
      BY <2>4, <3>1 DEF PhaseInv, ProbeOK
    <3>3. pc # "probe" => c <= d
      BY <1>2, <2>4, <3>1 DEF PhaseInv
    <3>4. link.ins \subseteq 1 .. d
      BY <3>1, <3>2
    <3>. QED
      BY <3>1, <3>3, <3>4 DEF Given, Merging
  <2>. QED
    BY <2>2, <2>3, <2>4
<1>. QED
  BY <1>1, <1>2, <1>3, LinkType

LEMMA HeldNow ==
  ASSUME Linking, LinkOK(link), link.dist \in Distances, NEW I \in SUBSET (1 .. link.dist),
         I = IF Touched THEN Given ELSE {}
  PROVE  Held = {link.C1, link.C2} \cup (MadeCells(link) \ GCs(link, I)) \cup InScan
<1>1. Gone = {GroupRules(link.dist)[link.group][i] : i \in I}
  BY DEF Gone
<1>2. Made = {m \in 0 .. 31 : link.el[m] # NULL}
  BY DEF Made
<1>3. {link.el[n] : n \in Made \ Gone} = MadeCells(link) \ GCs(link, I)
  BY <1>1, <1>2, GroupFacts
<1>. QED
  BY <1>3 DEF Held

LEMMA HeldThen ==
  ASSUME Linking, LinkOK(link), link.dist \in Distances, NEW I \in SUBSET (1 .. link.dist),
         link'.el = link.el, link'.C1 = link.C1, link'.C2 = link.C2, link'.dist = link.dist,
         link'.group = link.group, I = IF Touched' THEN Given' ELSE {}
  PROVE  Held' = {link.C1, link.C2} \cup (MadeCells(link) \ GCs(link, I)) \cup InScan'
<1>1. Gone' = {GroupRules(link.dist)[link.group][i] : i \in I}
  BY DEF Gone
<1>2. Made' = {m \in 0 .. 31 : link.el[m] # NULL}
  BY DEF Made
<1>3. {link.el[n] : n \in Made' \ Gone'} = MadeCells(link) \ GCs(link, I)
  BY <1>1, <1>2, GroupFacts
<1>4. Linking'
  BY DEF Linking
<1>. QED
  BY <1>3, <1>4 DEF Held

-----------------------------------------------------------------------------
(* Before a group is touched, its cubes and the pair are interchangeable.   *)
LEMMA SwapFacts ==
  ASSUME IInv, Linking, ~Touched, NEW d, d = link.dist, NEW S, S = Elements(list) \cup GCs(link, 1 .. d)
  PROVE  /\ \A x \in Points : Par(cube, S, x) <=> x \in FunctionRead(added)
         /\ IsFiniteSet(S) /\ Cardinality(S) = Cardinality(Elements(list)) + d
         /\ Cardinality(S) + 2 <= Cardinality(saved) + d
         /\ GCs(link, 1 .. d) \cap Elements(list) = {} /\ GCs(link, 1 .. d) \subseteq Held
         /\ link.C1 \notin Elements(list) /\ link.C2 \notin Elements(list) /\ link.C1 # link.C2
<1>0. TypeOK /\ PlacesInv /\ PhaseInv /\ VainInv
  BY DEF IInv
<1>1. LinkOK(link) /\ d \in Distances
  BY <1>0, LinkingIs
<1>2. Vain(Elements(list), cube, lits, qcost, link, saved, FunctionRead(added))
  BY <1>0 DEF VainInv
<1>3. PICK T : T = Elements(list)
  OBVIOUS
<1>4. /\ \A n \in 0 .. 31 :
           link.el[n] # NULL => cube[link.el[n]] = ELCube(cube[link.C1], cube[link.C2], n)
      /\ d = Distance(cube[link.C1], cube[link.C2])
      /\ \A x \in Points : Par(cube, T \cup {link.C1, link.C2}, x) <=> x \in FunctionRead(added)
      /\ Cardinality(T) + 2 <= Cardinality(saved)
  BY <1>2, <1>3 DEF Vain
<1>5. Held = {link.C1, link.C2} \cup MadeCells(link) \cup InScan
  <2>1. {} \in SUBSET (1 .. link.dist) /\ GCs(link, {}) = {}
    BY DEF GCs
  <2>. QED
    BY <1>1, <2>1, HeldNow
<1>6. /\ \A i \in 1 .. d : GC(link, i) \in MadeCells(link) /\ GC(link, i) # NULL
      /\ \A i, j \in 1 .. d : GC(link, i) = GC(link, j) => i = j
      /\ link.group \in 1 .. Groups(d)
  BY <1>1, GroupFacts
<1>7. /\ IsFiniteSet(T) /\ Cardinality(T) \in Nat /\ \A k \in Held : k \notin T
  BY <1>0, <1>3, ListFacts
<1>8. link.C1 # link.C2 /\ link.C1 \notin T /\ link.C2 \notin T
  BY <1>1, <1>5, <1>7 DEF LinkOK
<1>9. PICK G : G = [i \in 1 .. d |-> GC(link, i)]
  OBVIOUS
<1>10. \A i \in 1 .. d : G[i] = GC(link, i)
  BY <1>9
<1>11. \A i, j \in 1 .. d : G[i] = G[j] => i = j
  BY <1>6, <1>10
<1>12. \A i \in 1 .. d : G[i] \notin T
  BY <1>5, <1>6, <1>7, <1>10
<1>13. PICK g \in 1 .. Groups(d) : g = link.group
  BY <1>6
<1>14. \A i \in 1 .. d : cube[G[i]] = ELCube(cube[link.C1], cube[link.C2], GroupRules(d)[g][i])
  <2>1. PICK r : r = GroupRules(d)[g]
    OBVIOUS
  <2>2. Row(r, d)
    BY <1>1, <2>1, TableRows
  <2>3. ASSUME NEW i \in 1 .. d PROVE r[i] \in 0 .. 31
    BY <2>2, SeqFacts DEF Row
  <2>4. \A i \in 1 .. d : link.el[r[i]] = GC(link, i)
    BY <1>13, <2>1 DEF GC
  <2>. QED
    BY <1>4, <1>6, <1>10, <2>1, <2>3, <2>4
<1>15. GCs(link, 1 .. d) = Listed(G, d)
  BY <1>10 DEF GCs, Listed
<1>16. ASSUME NEW x
       PROVE  /\ Par(cube, T \cup {link.C1, link.C2}, x) <=> Par(cube, T \cup Listed(G, d), x)
              /\ IsFiniteSet(T \cup Listed(G, d))
              /\ Cardinality(T \cup Listed(G, d)) = Cardinality(T) + d
  <2>1. PICK c1, c2 : c1 = link.C1 /\ c2 = link.C2
    OBVIOUS
  <2>2. c1 # c2 /\ c1 \notin T /\ c2 \notin T /\ IsFiniteSet(T) /\ d \in Distances
    BY <1>1, <1>7, <1>8, <2>1
  <2>3. d = Distance(cube[c1], cube[c2])
    BY <1>4, <2>1
  <2>4. \A i \in 1 .. d : cube[G[i]] = ELCube(cube[c1], cube[c2], GroupRules(d)[g][i])
    BY <1>14, <2>1
  <2>. QED
    <3>1. Swappable(cube, T, c1, c2, d, g, G)
      BY <1>11, <1>12, <2>2, <2>3, <2>4 DEF Swappable
    <3>. QED
      BY <2>1, <3>1, GroupSwap
<1>17. S = T \cup Listed(G, d)
  BY <1>3, <1>15
<1>18. \A x \in Points : Par(cube, S, x) <=> x \in FunctionRead(added)
  BY <1>4, <1>16, <1>17
<1>19. IsFiniteSet(S) /\ Cardinality(S) = Cardinality(T) + d
  BY <1>16, <1>17
<1>20. Cardinality(S) + 2 <= Cardinality(saved) + d
  <2>1. IsFiniteSet(saved) /\ Cardinality(saved) \in Nat
    BY FS_CardinalityType DEF IInv, SizeInv
  <2>2. d \in Nat
    BY <1>1 DEF Distances
  <2>. QED
    BY <1>4, <1>7, <1>19, <2>1, <2>2
<1>21. GCs(link, 1 .. d) \cap T = {} /\ GCs(link, 1 .. d) \subseteq Held
  BY <1>5, <1>6, <1>7 DEF GCs
<1>. QED
  BY <1>3, <1>8, <1>18, <1>19, <1>20, <1>21

(* What will be in the list once the cube being checked, and what is left   *)
(* of its group, are inserted.                                              *)
Rest(p, k) == {p} \cup (IF k.C1 # NULL THEN GCs(k, (1 .. k.dist) \ k.ins) ELSE {})

LEMMA ReadyFacts ==
  ASSUME IInv, pc = "scan", NEW R, R = Rest(chk.p, link), NEW S, S = Elements(list) \cup R
  PROVE  /\ chk.p \in R /\ R \cap Elements(list) = {} /\ R \subseteq Cells
         /\ IsFiniteSet(S) /\ Cardinality(S) \in Nat
         /\ \A x \in Points : Par(cube, S, x) <=> x \in FunctionRead(added)
         /\ chk.ret = "add" => Cardinality(S) <= Cardinality(saved) + 1
         /\ chk.ret = "insert" => Cardinality(S) <= Cardinality(saved)
         /\ chk.ret = "probed" =>
              Cardinality(S) + link.gain + chk.gain + 2 <= Cardinality(saved) + link.dist
<1>0. TypeOK /\ PlacesInv /\ PhaseInv /\ LedgerInv /\ SizeInv
  BY DEF IInv
<1>1. /\ chk.ret = "add" <=> ~Linking
      /\ Linking => LinkOK(link) /\ link.dist \in Distances
  BY <1>0, LinkingIs
<1>2. chk.ret \in {"add", "probed", "insert"} /\ chk.gain \in Nat /\ link.gain \in Nat
  BY <1>0, ChkType, LinkType
<1>3. InScan = {chk.p} /\ chk.p \in Held
  BY ScanFacts DEF InScan
<1>4. IsFiniteSet(saved) /\ Cardinality(saved) \in Nat
  <2>1. Linking \/ Adding
    BY DEF Adding
  <2>. QED
    BY <1>0, <2>1, FS_CardinalityType DEF SizeInv
<1>5. /\ IsFiniteSet(Elements(list)) /\ \A k \in Held : k \notin Elements(list) /\ k \in Cells
  BY <1>0, ListFacts
<1>6. CASE ~Linking
  <2>1. R = {chk.p} /\ Owed = {chk.p} /\ Working = S
    BY <1>3, <1>6 DEF Rest, Owed, Linking, Working
  <2>2. IsFiniteSet(S)
    BY <1>5, <2>1, FS_AddElement
  <2>3. Cardinality(S) <= Cardinality(saved) + 1
    BY <1>0, <1>6, <2>1 DEF SizeInv, Adding
  <2>. QED
    BY <1>0, <1>1, <1>3, <1>5, <1>6, <2>1, <2>2, <2>3, FS_CardinalityType DEF LedgerInv
<1>7. CASE Linking /\ ~Touched
  <2>1. PICK d \in Distances : d = link.dist
    BY <1>1, <1>7
  <2>2. chk.ret = "probed" /\ link.ins = {} /\ chk.gain = 0
    BY <1>0, <1>1, <1>2, <1>7 DEF Touched, Merging, PhaseInv, Inserting
  <2>3. ProbeOK(link) /\ link.c \in 1 .. d /\ chk.p = GC(link, link.c)
    <3>1. Probing
      BY <2>2 DEF Probing
    <3>2. ProbeOK(link) /\ link.c <= d /\ chk.p = GC(link, link.c)
      BY <1>0, <2>1, <3>1 DEF PhaseInv
    <3>3. link.c \in 1 .. d + 1 /\ d \in Nat
      BY <2>1, <3>2 DEF ProbeOK, Distances
    <3>. QED
      BY <3>2, <3>3
  <2>4. link.gain = 0
    BY <2>2, <2>3 DEF ProbeOK
  <2>5. R = GCs(link, 1 .. d)
    BY <1>7, <2>1, <2>2, <2>3 DEF Rest, Linking, GCs
  <2>6. /\ \A x \in Points : Par(cube, S, x) <=> x \in FunctionRead(added)
        /\ IsFiniteSet(S) /\ Cardinality(S) = Cardinality(Elements(list)) + d
        /\ Cardinality(S) + 2 <= Cardinality(saved) + d
        /\ R \cap Elements(list) = {} /\ R \subseteq Held
    BY <1>7, <2>1, <2>5, SwapFacts
  <2>7. Cardinality(S) \in Nat
    BY <2>6, FS_CardinalityType
  <2>8. chk.p \in R /\ R \subseteq Cells
    BY <1>5, <2>3, <2>5, <2>6 DEF GCs
  <2>9. Cardinality(S) + link.gain + chk.gain + 2 <= Cardinality(saved) + link.dist
    BY <2>1, <2>2, <2>4, <2>6, <2>7
  <2>. QED
    BY <2>2, <2>6, <2>7, <2>8, <2>9
<1>8. CASE Linking /\ Touched
  <2>1. PICK d \in Distances : d = link.dist
    BY <1>1, <1>8
  <2>2. Owed = GCs(link, (1 .. d) \ Given) \cup {chk.p}
    BY <1>3, <1>8, <2>1 DEF Owed, GCs, GroupCell, Rules, GC
  <2>3. R = GCs(link, (1 .. d) \ link.ins) \cup {chk.p}
    BY <1>8, <2>1 DEF Rest, Linking
  <2>4. Owed = R
    <3>1. CASE Merging
      <4>1. chk.p = GC(link, link.c) /\ Given = link.ins \cup {link.c}
        BY <1>0, <3>1 DEF Merging, PhaseInv, Probing, Given
      <4>. QED
        BY <2>2, <2>3, <4>1 DEF GCs
    <3>2. CASE ~Merging
      BY <2>2, <2>3, <3>2 DEF Given
    <3>. QED
      BY <3>1, <3>2
  <2>5. Working = S
    BY <2>4 DEF Working
  <2>6. R \subseteq Held
    <3>1. PICK I \in SUBSET (1 .. d) : I = Given
      BY <1>0, <1>8, <2>1, LinkingIs
    <3>2. Held = {link.C1, link.C2} \cup (MadeCells(link) \ GCs(link, I)) \cup InScan
      BY <1>1, <1>8, <2>1, <3>1, HeldNow
    <3>3. \A i \in 1 .. d : GC(link, i) \in MadeCells(link)
      BY <1>1, <1>8, <2>1, GroupFacts
    <3>4. \A i, j \in 1 .. d : GC(link, i) = GC(link, j) => i = j
      BY <1>1, <1>8, <2>1, GroupFacts
    <3>5. \A i \in (1 .. d) \ I : GC(link, i) \in MadeCells(link) \ GCs(link, I)
      BY <3>3, <3>4 DEF GCs
    <3>. QED
      BY <1>3, <2>2, <2>4, <3>1, <3>2, <3>5 DEF GCs
  <2>7. IsFiniteSet(S)
    <3>1. S \subseteq Cells /\ IsFiniteSet(Cells)
      BY <1>0, <1>5, <2>6, CellsFacts, ListFacts
    <3>. QED
      BY <3>1, FS_Subset
  <2>8. \A x \in Points : Par(cube, S, x) <=> x \in FunctionRead(added)
    BY <1>0, <2>5 DEF LedgerInv
  <2>9. Cardinality(S) \in Nat
    BY <2>7, FS_CardinalityType
  <2>10. chk.ret = "insert" => Cardinality(S) <= Cardinality(saved)
    BY <1>0, <2>5 DEF SizeInv, Inserting
  <2>11. chk.ret = "probed" =>
           Cardinality(S) + link.gain + chk.gain + 2 <= Cardinality(saved) + link.dist
    <3>1. ASSUME chk.ret = "probed" PROVE Cardinality(S) + TotalGain + 2 <= Cardinality(saved) + link.dist
      BY <1>0, <1>8, <2>5, <3>1 DEF SizeInv, Probing
    <3>2. TotalGain = link.gain + chk.gain
      BY DEF TotalGain
    <3>3. PICK s, g, h \in Nat : s = Cardinality(S) /\ g = link.gain /\ h = chk.gain
      BY <1>2, <2>9
    <3>4. s + (g + h) + 2 = s + g + h + 2
      BY <3>3
    <3>. QED
      BY <3>1, <3>2, <3>3, <3>4
  <2>. QED
    BY <1>1, <1>5, <1>8, <2>3, <2>6, <2>7, <2>8, <2>9, <2>10, <2>11
<1>. QED
  BY <1>6, <1>7, <1>8

-----------------------------------------------------------------------------
(* The cube being checked while a pair is linked.                           *)
LEMMA ScanBase ==
  ASSUME IInv, pc = "scan", Linking
  PROVE  /\ LinkOK(link) /\ link.dist \in Distances /\ chk.ret \in {"probed", "insert"}
         /\ chk.ret = "probed" => /\ ProbeOK(link) /\ chk.p = GC(link, link.c)
                                  /\ link.c \in 1 .. link.dist /\ link.c \notin link.ins
                                  /\ link.ins \subseteq 1 .. link.dist
                                  /\ chk.add <=> chk.gain > 0
         /\ chk.ret = "insert" => /\ chk.add /\ link.ins \subseteq 1 .. link.dist /\ link.ins # {}
                                  /\ \E i \in link.ins : chk.p = GC(link, i)
<1>0. TypeOK /\ PhaseInv
  BY DEF IInv
<1>1. LinkOK(link) /\ link.dist \in Distances /\ chk.ret \in {"probed", "insert"}
  BY <1>0, LinkingIs, ChkType
<1>2. PICK d \in 2 .. 4 : d = link.dist
  BY <1>1 DEF Distances
<1>3. ASSUME chk.ret = "probed"
      PROVE  /\ ProbeOK(link) /\ chk.p = GC(link, link.c) /\ link.c \in 1 .. d
             /\ link.c \notin link.ins /\ link.ins \subseteq 1 .. d /\ (chk.add <=> chk.gain > 0)
  <2>1. /\ ProbeOK(link) /\ link.c <= d /\ chk.p = GC(link, link.c)
        /\ chk.add <=> chk.gain > 0
    BY <1>0, <1>2, <1>3 DEF PhaseInv, Probing
  <2>2. PICK c \in 1 .. d + 1 : c = link.c
    BY <1>2, <2>1 DEF ProbeOK
  <2>3. c <= d /\ link.ins \subseteq 1 .. c - 1
    BY <2>1, <2>2 DEF ProbeOK
  <2>4. c \notin link.ins /\ link.ins \subseteq 1 .. d
    BY <2>3
  <2>. QED
    BY <2>1, <2>2, <2>3, <2>4
<1>4. ASSUME chk.ret = "insert"
      PROVE  /\ chk.add /\ link.ins \subseteq 1 .. d /\ link.ins # {}
             /\ \E i \in link.ins : chk.p = GC(link, i)
  BY <1>0, <1>2, <1>4 DEF PhaseInv, Inserting
<1>. QED
  BY <1>1, <1>2, <1>3, <1>4

(* What a scan leaves in hand, and owed: less the cube, if it was placed or *)
(* merged away.                                                             *)
LEMMA ScanHeld ==
  ASSUME IInv, pc = "scan", link' = link, chk'.p = chk.p, chk'.ret = chk.ret,
         chk'.gain \in Nat, chk'.gain >= chk.gain,
         (pc' = "scan" /\ chk'.gain > 0) \/ pc' = chk.ret,
         NEW placed \in BOOLEAN,
         placed <=> pc' # "scan" /\ ~(chk.ret = "probed" /\ chk'.gain = 0)
  PROVE  /\ Held' = IF placed THEN Held \ {chk.p} ELSE Held
         /\ ~Linking \/ Touched' =>
              Owed' = IF placed THEN Rest(chk.p, link) \ {chk.p} ELSE Rest(chk.p, link)
         /\ Linking /\ ~Touched' =>
              /\ ~Touched /\ ~placed /\ chk.gain = 0 /\ chk.ret = "probed" /\ pc' = "probed"
              /\ Owed' = Owed
<1>0. TypeOK /\ PhaseInv
  BY DEF IInv
<1>1. InScan' = (IF pc' = "scan" THEN {chk.p} ELSE {}) /\ InScan = {chk.p} /\ (Linking' <=> Linking)
  BY DEF InScan, Linking
<1>2. chk.ret \in {"add", "probed", "insert"} /\ chk.gain \in Nat
  BY <1>0, ChkType
<1>3. CASE ~Linking
  <2>1. chk.ret = "add"
    BY <1>0, <1>2, <1>3, LinkingIs
  <2>2. Held = {chk.p} /\ Held' = InScan' /\ Owed' = InScan'
    BY <1>1, <1>3 DEF Held, Owed
  <2>3. Rest(chk.p, link) = {chk.p}
    BY <1>3 DEF Rest, Linking
  <2>. QED
    BY <1>1, <1>3, <2>1, <2>2, <2>3
<1>4. CASE Linking
  <2>1. PICK d \in Distances : d = link.dist
    BY <1>4, ScanBase
  <2>2. LinkOK(link) /\ chk.ret \in {"probed", "insert"}
    BY <1>4, ScanBase
  <2>3. PICK M : M = MadeCells(link)
    OBVIOUS
  <2>4. /\ \A i \in 1 .. d : GC(link, i) # link.C1 /\ GC(link, i) # link.C2 /\ GC(link, i) \in M
        /\ \A i, j \in 1 .. d : GC(link, i) = GC(link, j) => i = j
    BY <2>1, <2>2, <2>3, GroupFacts
  <2>5. Rest(chk.p, link) = {chk.p} \cup GCs(link, (1 .. d) \ link.ins)
    BY <1>4, <2>1 DEF Rest, Linking
  <2>6. pc # "failed" /\ pc' # "failed"
    BY <1>2
  <2>7. CASE chk.ret = "insert"
    <3>1. PICK ins \in SUBSET (1 .. d) : ins = link.ins /\ ins # {}
      BY <1>4, <2>1, <2>7, ScanBase
    <3>2. PICK e \in ins : chk.p = GC(link, e)
      BY <1>4, <2>7, <3>1, ScanBase
    <3>3. ~Merging /\ ~Merging'
      BY <2>7 DEF Merging
    <3>4. Touched /\ Touched' /\ Given = ins /\ Given' = ins
      BY <2>6, <3>1, <3>3 DEF Touched, Given
    <3>5. /\ Held = {link.C1, link.C2} \cup (M \ GCs(link, ins)) \cup {chk.p}
      BY <1>1, <1>4, <2>1, <2>2, <2>3, <3>4, HeldNow
    <3>6. /\ Held' = {link.C1, link.C2} \cup (M \ GCs(link, ins)) \cup InScan'
      BY <1>4, <2>1, <2>2, <2>3, <3>4, HeldThen
    <3>7. chk.p \notin {link.C1, link.C2} \cup (M \ GCs(link, ins))
      BY <2>4, <3>2 DEF GCs
    <3>8. Owed' = GCs(link, (1 .. d) \ ins) \cup InScan'
      BY <1>1, <1>4, <2>1, <3>4 DEF Owed, GCs, GroupCell, Rules, GC
    <3>9. chk.p \notin GCs(link, (1 .. d) \ ins)
      BY <2>4, <3>2 DEF GCs
    <3>10. placed <=> pc' # "scan"
      BY <2>7
    <3>11. Held' = IF placed THEN Held \ {chk.p} ELSE Held
      BY <1>1, <3>5, <3>6, <3>7, <3>10
    <3>12. Owed' = IF placed THEN Rest(chk.p, link) \ {chk.p} ELSE Rest(chk.p, link)
      BY <1>1, <2>5, <3>1, <3>8, <3>9, <3>10
    <3>. QED
      BY <3>4, <3>11, <3>12
  <2>8. CASE chk.ret = "probed"
    <3>1. PICK ins \in SUBSET (1 .. d) : ins = link.ins
      BY <1>4, <2>1, <2>8, ScanBase
    <3>2. PICK c \in 1 .. d : c = link.c /\ chk.p = GC(link, c) /\ c \notin ins
      BY <1>4, <2>1, <2>8, <3>1, ScanBase
    <3>3. (Merging <=> chk.gain > 0) /\ (Merging' <=> chk'.gain > 0)
      BY <2>8 DEF Merging
    <3>4. PICK I \in SUBSET (1 .. d) : I = IF chk.gain > 0 THEN ins \cup {c} ELSE ins
      OBVIOUS
    <3>5. PICK J \in SUBSET (1 .. d) : J = IF chk'.gain > 0 THEN ins \cup {c} ELSE ins
      OBVIOUS
    <3>6. /\ Given = I /\ Given' = J
          /\ Touched <=> I # {}
          /\ Touched' <=> J # {}
      BY <2>6, <3>1, <3>2, <3>3, <3>4, <3>5 DEF Touched, Given
    <3>7. Held = {link.C1, link.C2} \cup (M \ GCs(link, I)) \cup {chk.p}
      BY <1>1, <1>4, <2>1, <2>2, <2>3, <3>6, HeldNow
    <3>8. Held' = {link.C1, link.C2} \cup (M \ GCs(link, J)) \cup InScan'
      BY <1>4, <2>1, <2>2, <2>3, <3>6, HeldThen
    <3>9. /\ chk.p \notin {link.C1, link.C2} /\ chk.p \in M \ GCs(link, ins)
          /\ GCs(link, ins \cup {c}) = GCs(link, ins) \cup {chk.p}
      BY <2>4, <3>2 DEF GCs
    <3>10. GCs(link, (1 .. d) \ ins) = GCs(link, (1 .. d) \ (ins \cup {c})) \cup {chk.p}
      BY <3>2 DEF GCs
    <3>11. chk.p \notin GCs(link, (1 .. d) \ (ins \cup {c}))
      BY <2>4, <3>2 DEF GCs
    <3>12. Held = {link.C1, link.C2} \cup (M \ GCs(link, ins))
      BY <3>4, <3>7, <3>9
    <3>13. Rest(chk.p, link) = GCs(link, (1 .. d) \ ins)
      BY <2>5, <3>1, <3>10
    <3>14. Touched' => Owed' = GCs(link, (1 .. d) \ J) \cup InScan'
      BY <1>1, <1>4, <2>1, <3>6 DEF Owed, GCs, GroupCell, Rules, GC
    <3>15. CASE chk'.gain > 0
      <4>1. J = ins \cup {c} /\ (placed <=> pc' # "scan") /\ Touched'
        BY <2>8, <3>5, <3>6, <3>15
      <4>2. Held' = IF placed THEN Held \ {chk.p} ELSE Held
        BY <1>1, <3>8, <3>9, <3>12, <4>1
      <4>3. Owed' = IF placed THEN Rest(chk.p, link) \ {chk.p} ELSE Rest(chk.p, link)
        BY <1>1, <3>10, <3>11, <3>13, <3>14, <4>1
      <4>. QED
        BY <4>1, <4>2, <4>3
    <3>16. CASE ~(chk'.gain > 0)
      <4>1. chk'.gain = 0 /\ chk.gain = 0 /\ J = ins /\ I = ins /\ pc' = "probed" /\ ~placed
        BY <1>2, <2>8, <3>4, <3>5, <3>16
      <4>2. Held' = Held
        BY <1>1, <3>8, <3>12, <4>1
      <4>3. Touched' => Owed' = Rest(chk.p, link)
        BY <1>1, <3>13, <3>14, <4>1
      <4>4. ~Touched' => ~Touched /\ Owed' = Owed
        BY <1>1, <1>4, <3>6, <4>1 DEF Owed
      <4>. QED
        BY <1>4, <2>8, <4>1, <4>2, <4>3, <4>4
    <3>. QED
      BY <3>15, <3>16
  <2>. QED
    BY <2>2, <2>7, <2>8
<1>. QED
  BY <1>3, <1>4

-----------------------------------------------------------------------------
LEMMA ScanKeepStep == ASSUME IInv, ScanKeep PROVE IInv'
<1>0. /\ TypeOK /\ PhaseInv /\ QueueInv /\ PlacesInv /\ MarksInv /\ DataInv /\ ApartInv
      /\ VainInv /\ UndoInv /\ LedgerInv /\ SizeInv /\ TwoInv
  BY DEF IInv
<1>1. /\ pc = "scan" /\ Hits = {} /\ pc' = chk.ret /\ ScanQueues(TRUE)
      /\ list' = IF chk.add THEN <<chk.p>> \o list ELSE list
      /\ args' = args /\ added' = added /\ cube' = cube /\ ID' = ID /\ lits' = lits
      /\ qcost' = qcost /\ fMark' = fMark /\ free' = free /\ cIDs' = cIDs /\ enabled' = enabled
      /\ store' = store /\ chk' = chk /\ link' = link /\ pass' = pass /\ saved' = saved
  BY DEF ScanKeep
<1>2. chk.ret \in {"add", "probed", "insert"} /\ chk.gain \in Nat /\ link.gain \in Nat
  BY <1>0, ChkType, LinkType
<1>3. /\ chk.p \in Cells /\ chk.p \in Held /\ ID[chk.p] # 0
      /\ chk.p \notin Elements(list) /\ chk.p \notin Elements(free)
      /\ \A a \in Elements(list) : Distance(cube[chk.p], cube[a]) >= 2
  BY <1>1, ScanFacts
<1>4. /\ Linking' = Linking /\ InScan' = {} /\ Cells' = Cells
      /\ FunctionRead(added)' = FunctionRead(added)
  <2>1. InScan' = {}
    BY <1>1, <1>2 DEF InScan
  <2>. QED
    BY <1>1, <2>1, SameArgs DEF Linking
<1>5. chk.ret = "add" <=> ~Linking
  BY <1>0, <1>1, <1>2, LinkingIs
<1>6. PICK R, S : R = Rest(chk.p, link) /\ S = Elements(list) \cup R
  OBVIOUS
<1>7. /\ chk.p \in R /\ R \cap Elements(list) = {}
      /\ \A x \in Points : Par(cube, S, x) <=> x \in FunctionRead(added)
      /\ chk.ret = "insert" => Cardinality(S) <= Cardinality(saved)
      /\ chk.ret = "probed" =>
           Cardinality(S) + link.gain + chk.gain + 2 <= Cardinality(saved) + link.dist
  BY <1>1, <1>6, ReadyFacts
<1>8. chk.add <=> ~(chk.ret = "probed" /\ chk.gain = 0)
  <2>1. chk.ret # "probed" => chk.add
    BY <1>0, <1>1 DEF PhaseInv
  <2>2. chk.ret = "probed" => (chk.add <=> chk.gain > 0)
    BY <1>1, <1>5, ScanBase
  <2>. QED
    BY <1>2, <2>1, <2>2
<1>9. PICK placed \in BOOLEAN : placed <=> chk.add
  OBVIOUS
<1>10. /\ Held' = IF placed THEN Held \ {chk.p} ELSE Held
       /\ ~Linking \/ Touched' => Owed' = IF placed THEN R \ {chk.p} ELSE R
       /\ Linking /\ ~Touched' =>
            /\ ~Touched /\ ~placed /\ chk.gain = 0 /\ chk.ret = "probed" /\ Owed' = Owed
  <2>1. placed <=> pc' # "scan" /\ ~(chk.ret = "probed" /\ chk'.gain = 0)
    BY <1>1, <1>2, <1>8, <1>9
  <2>2. chk'.gain \in Nat /\ chk'.gain >= chk.gain /\ chk'.p = chk.p /\ chk'.ret = chk.ret
    BY <1>1, <1>2
  <2>. QED
    BY <1>1, <1>6, <2>1, <2>2, ScanHeld
<1>11. /\ list' \in Seq(Cells) /\ Distinct(list')
       /\ Elements(list') = IF placed THEN Elements(list) \cup {chk.p} ELSE Elements(list)
  <2>1. list \in Seq(Cells) /\ Distinct(list)
    BY <1>0 DEF TypeOK, PlacesInv
  <2>2. CASE placed
    <3>1. list' = <<chk.p>> \o list
      BY <1>1, <1>9, <2>2
    <3>. QED
      BY <1>3, <2>1, <2>2, <3>1, ConsFacts
  <2>3. CASE ~placed
    BY <1>1, <1>9, <2>1, <2>3
  <2>. QED
    BY <2>2, <2>3
<1>12. Elements(list)' = Elements(list') /\ Elements(free)' = Elements(free)
  BY <1>1 DEF Elements
<1>13. TypeOK'
  <2>1. que' \in Queues
    BY <1>1, <1>2, ScanQueueStep
  <2>. QED
    BY <1>0, <1>1, <1>2, <1>11, <2>1, SameArgs DEF TypeOK
<1>14. QueueInv'
  BY <1>1, <1>2, ScanQueueStep
<1>15. PlacesInv'
  <2>1. Cells \ (Elements(list) \cup Elements(free)) = Held
    BY <1>0 DEF PlacesInv
  <2>2. Cells \ (Elements(list') \cup Elements(free)) = Held'
    BY <1>10, <1>11, <2>1
  <2>3. Elements(list') \cap Elements(free) = {}
    BY <1>0, <1>3, <1>11 DEF PlacesInv
  <2>. QED
    BY <1>0, <1>1, <1>4, <1>11, <1>12, <2>2, <2>3 DEF PlacesInv, Distinct
<1>16. MarksInv'
  BY <1>0, <1>1, <1>4 DEF MarksInv, Made
<1>17. PhaseInv'
  <2>1. Probing' => Probing
    BY <1>1, <1>2 DEF Probing
  <2>2. Inserting' => Inserting
    BY <1>1, <1>2 DEF Inserting
  <2>. QED
    BY <1>0, <1>1, <1>2, <1>4, <1>5, <2>1, <2>2, LinkingIs DEF PhaseInv
<1>18. DataInv'
  BY <1>0, <1>1, <1>4 DEF DataInv
<1>19. ApartInv'
  <2>1. \A a, b \in Elements(list') : a # b => Distance(cube[a], cube[b]) >= 2
    BY <1>0, <1>3, <1>11, DifferFacts DEF ApartInv, Apart
  <2>. QED
    BY <1>1, <1>12, <2>1 DEF ApartInv, Apart
<1>20. ASSUME Linking, ~Touched'
       PROVE  ~Touched /\ list' = list /\ chk.ret = "probed"
  BY <1>1, <1>9, <1>10, <1>20
<1>21. VainInv'
  BY <1>0, <1>1, <1>4, <1>20 DEF VainInv, Elements
<1>22. TwoInv'
  <2>1. SUFFICES ASSUME Linking', ~Touched', link'.dist = 2, NEW i \in 1 .. 2, Missed(i)',
                        NEW a \in Elements(list)'
        PROVE  Distance(cube'[GC(link', i)], cube'[a]) >= 2
    BY DEF TwoInv
  <2>2. ~Touched /\ list' = list /\ chk.ret = "probed" /\ Linking
    BY <1>4, <1>20, <2>1
  <2>3. i < link.c \/ i = link.c
    BY <1>1, <2>1, <2>2 DEF Missed
  <2>4. CASE i < link.c
    BY <1>0, <1>1, <2>1, <2>2, <2>4 DEF TwoInv, Missed, Elements
  <2>5. CASE i = link.c
    <3>1. chk.p = GC(link, i)
      BY <1>1, <2>2, <2>5, ScanBase
    <3>. QED
      BY <1>1, <1>3, <1>12, <2>1, <2>2, <3>1
  <2>. QED
    BY <2>3, <2>4, <2>5
<1>23. Working' = S \/ (Working' = Working /\ Linking /\ ~Touched')
  <2>1. CASE ~Linking \/ Touched'
    <3>1. Owed' = IF placed THEN R \ {chk.p} ELSE R
      BY <1>10, <2>1
    <3>2. Elements(list') \cup Owed' = S
      BY <1>6, <1>7, <1>11, <3>1
    <3>. QED
      BY <1>12, <3>2 DEF Working
  <2>2. CASE Linking /\ ~Touched'
    BY <1>1, <1>9, <1>10, <1>12, <2>2 DEF Working
  <2>. QED
    BY <2>1, <2>2
<1>24. LedgerInv'
  BY <1>0, <1>1, <1>4, <1>7, <1>23 DEF LedgerInv
<1>25. SizeInv'
  <2>1. IsFiniteSet(saved)
    BY <1>0, <1>1 DEF SizeInv, Adding
  <2>2. Linking' => Cardinality(saved') <= pass'.nBefore
    BY <1>0, <1>1, <1>4 DEF SizeInv
  <2>3. pc' # "next" /\ ~Adding'
    BY <1>1, <1>2 DEF Adding
  <2>4. Inserting' => Cardinality(Working') <= Cardinality(saved')
    <3>1. ASSUME Inserting' PROVE chk.ret = "insert"
      BY <1>1, <1>2, <3>1 DEF Inserting
    <3>2. ASSUME Inserting' PROVE Working' = S
      BY <1>20, <1>23, <3>1, <3>2
    <3>. QED
      BY <1>1, <1>7, <3>1, <3>2
  <2>5. Probing' /\ Touched' =>
          Cardinality(Working') + TotalGain' + 2 <= Cardinality(saved') + link'.dist
    <3>1. ASSUME Probing', Touched' PROVE chk.ret = "probed" /\ Working' = S
      BY <1>1, <1>2, <1>23, <3>1 DEF Probing
    <3>2. chk.ret = "probed" => TotalGain' = link.gain + chk.gain
      BY <1>1 DEF TotalGain
    <3>3. Cardinality(S) \in Nat
      BY <1>1, <1>6, ReadyFacts
    <3>4. chk.ret = "probed" =>
            Cardinality(S) + (link.gain + chk.gain) + 2 <= Cardinality(saved) + link.dist
      <4>1. PICK s, g, h \in Nat : s = Cardinality(S) /\ g = link.gain /\ h = chk.gain
        BY <1>2, <3>3
      <4>2. s + (g + h) + 2 = s + g + h + 2
        OBVIOUS
      <4>. QED
        BY <1>7, <4>1, <4>2
    <3>. QED
      BY <1>1, <3>1, <3>2, <3>4
  <2>. QED
    BY <1>1, <2>1, <2>2, <2>3, <2>4, <2>5 DEF SizeInv
<1>26. UndoInv'
  <2>1. SUFFICES ASSUME Undoable'
        PROVE  /\ \E i \in 1 .. link'.dist : Given' = {i} /\ store'.p = GC(link', i)
               /\ store'.p \in Elements(list') \cup InScan'
               /\ free' # <<>> /\ store'.PrevID # 0
               /\ Vain(UndoneList', UndoneCube', UndoneLits', UndoneCost', link', saved',
                       FunctionRead(added)')
    BY DEF UndoInv, Elements
  <2>2. pc' = "probed" /\ chk.ret = "probed" /\ Undoable
    <3>1. pc' = "probed" /\ chk.ret = "probed"
      BY <1>1, <1>2, <2>1 DEF Undoable, Probing
    <3>2. TotalGain' = TotalGain
      BY <1>1, <3>1 DEF TotalGain
    <3>. QED
      BY <1>1, <2>1, <3>1, <3>2 DEF Undoable, Probing
  <2>3. Given' = Given
    BY <1>1, <2>2 DEF Given, Merging
  <2>4. /\ \E i \in 1 .. link.dist : Given = {i} /\ store.p = GC(link, i)
        /\ store.p \in Elements(list) \cup InScan
        /\ free # <<>> /\ store.PrevID # 0
        /\ Vain(UndoneList, UndoneCube, UndoneLits, UndoneCost, link, saved, FunctionRead(added))
    BY <1>0, <2>2 DEF UndoInv
  <2>5. /\ UndoneCube' = UndoneCube /\ UndoneLits' = UndoneLits /\ UndoneCost' = UndoneCost
    BY <1>1 DEF UndoneCube, UndoneLits, UndoneCost, UndonePos, UndoneValue
  <2>6. Linking
    BY <1>5, <2>2
  <2>7. /\ link.c \notin link.ins /\ chk.p = GC(link, link.c) /\ link.c \in 1 .. link.dist
        /\ link.dist \in Distances /\ LinkOK(link)
    BY <1>1, <2>2, <2>6, ScanBase
  <2>8. PICK i \in 1 .. link.dist : Given = {i} /\ store.p = GC(link, i)
    BY <2>4
  <2>9. CASE placed
    <3>1. chk.gain > 0
      BY <1>2, <1>8, <1>9, <2>2, <2>9
    <3>2. link.c \in Given
      BY <1>1, <2>2, <3>1 DEF Given, Merging
    <3>3. store.p = chk.p
      BY <2>7, <2>8, <3>2
    <3>4. Elements(list') = Elements(list) \cup {store.p}
      BY <1>11, <2>9, <3>3
    <3>5. UndoneList' = UndoneList
      BY <1>1, <1>12, <3>4 DEF UndoneList
    <3>6. store'.p \in Elements(list') \cup InScan'
      BY <1>1, <3>4
    <3>. QED
      BY <1>1, <1>4, <2>3, <2>4, <2>5, <3>5, <3>6
  <2>10. CASE ~placed
    <3>1. chk.gain = 0 /\ list' = list
      BY <1>1, <1>2, <1>8, <1>9, <2>10
    <3>2. Given = link.ins
      BY <3>1 DEF Given, Merging
    <3>3. store.p # chk.p
      <4>1. i # link.c
        BY <2>7, <2>8, <3>2
      <4>2. \A a, b \in 1 .. link.dist : GC(link, a) = GC(link, b) => a = b
        BY <2>7, GroupFacts
      <4>. QED
        BY <2>7, <2>8, <4>1, <4>2
    <3>4. store.p \in Elements(list)
      BY <1>1, <2>4, <3>3 DEF InScan
    <3>5. UndoneList' = UndoneList
      BY <1>1, <1>12, <3>1 DEF UndoneList
    <3>. QED
      BY <1>1, <1>4, <2>3, <2>4, <2>5, <3>1, <3>4, <3>5
  <2>. QED
    BY <2>9, <2>10
<1>. QED
  BY <1>13, <1>14, <1>15, <1>16, <1>17, <1>18, <1>19, <1>21, <1>22, <1>24, <1>25, <1>26 DEF IInv

-----------------------------------------------------------------------------
(* Two equal cubes cancel.                                                  *)
LEMMA ParCancel ==
  ASSUME NEW cb, NEW S, IsFiniteSet(S), NEW a, NEW b, a \in S, b \in S, a # b, cb[a] = cb[b],
         NEW T, T = S \ {a, b}
  PROVE  /\ IsFiniteSet(T) /\ Cardinality(T) = Cardinality(S) - 2
         /\ \A x : Par(cb, T, x) <=> Par(cb, S, x)
<1>1. PICK U : U = T \cup {a}
  OBVIOUS
<1>2. IsFiniteSet(T) /\ a \notin T /\ b \notin U /\ S = U \cup {b}
  <2>1. T \subseteq S
    BY <1>1
  <2>. QED
    BY <1>1, <2>1, FS_Subset
<1>3. IsFiniteSet(U) /\ Cardinality(U) = Cardinality(T) + 1
  BY <1>1, <1>2, FS_AddElement
<1>4. Cardinality(S) = Cardinality(U) + 1 /\ Cardinality(T) \in Nat
  BY <1>2, <1>3, FS_AddElement, FS_CardinalityType
<1>5. ASSUME NEW x PROVE Par(cb, T, x) <=> Par(cb, S, x)
  <2>1. Par(cb, U, x) <=> ~(Par(cb, T, x) <=> Covers(cb[a], x))
    BY <1>1, <1>2, ParAdd
  <2>2. Par(cb, U \cup {b}, x) <=> ~(Par(cb, U, x) <=> Covers(cb[b], x))
    BY <1>2, <1>3, ParAdd
  <2>. QED
    BY <1>2, <2>1, <2>2
<1>6. Cardinality(T) = Cardinality(S) - 2
  BY <1>3, <1>4
<1>. QED
  BY <1>1, <1>2, <1>5, <1>6

LEMMA ScanCancelStep == ASSUME IInv, ScanCancel PROVE IInv'
<1>0. /\ TypeOK /\ PhaseInv /\ QueueInv /\ PlacesInv /\ MarksInv /\ DataInv /\ ApartInv
      /\ VainInv /\ UndoInv /\ LedgerInv /\ SizeInv /\ TwoInv
  BY DEF IInv
<1>1. PICK h : h = Hit
  OBVIOUS
<1>2. PICK p : p = chk.p
  OBVIOUS
<1>3. /\ pc = "scan" /\ Hits # {} /\ From(h) = 0 /\ pc' = chk.ret /\ ScanQueues(FALSE)
      /\ list' = Without(list, h) /\ free' = <<h, p>> \o free
      /\ ID' = [ID EXCEPT ![p] = 0, ![h] = 0]
      /\ chk' = [chk EXCEPT !.gain = @ + 2]
      /\ args' = args /\ added' = added /\ cube' = cube /\ lits' = lits
      /\ qcost' = qcost /\ fMark' = fMark /\ cIDs' = cIDs /\ enabled' = enabled
      /\ store' = store /\ link' = link /\ pass' = pass /\ saved' = saved
  BY <1>1, <1>2 DEF ScanCancel
<1>4. chk.ret \in {"add", "probed", "insert"} /\ chk.gain \in Nat /\ link.gain \in Nat
  BY <1>0, ChkType, LinkType
<1>5. /\ chk' \in Checks /\ chk'.gain = chk.gain + 2 /\ chk'.p = p /\ chk'.ret = chk.ret
      /\ chk'.add = chk.add
  <2>1. chk \in [p : 0 .. nCubesAlloc, add : BOOLEAN, gain : Nat, ret : {"add", "probed", "insert"}]
    BY <1>0 DEF TypeOK, Checks
  <2>2. PICK g : g = chk.gain + 2
    OBVIOUS
  <2>3. g \in Nat /\ chk' = [chk EXCEPT !.gain = g]
    BY <1>3, <1>4, <2>2
  <2>. QED
    BY <1>2, <2>1, <2>2, <2>3 DEF Checks
<1>6. /\ p \in Cells /\ p \in Held /\ ID[p] # 0
      /\ p \notin Elements(list) /\ p \notin Elements(free)
      /\ h \in Elements(list) /\ h \in Cells /\ ID[h] # 0 /\ h \notin Elements(free) /\ h # p
  BY <1>0, <1>1, <1>2, <1>3, ScanFacts, ListFacts
<1>7. cube[p] = cube[h]
  <2>1. Distance(cube[p], cube[h]) = 0
    BY <1>2, <1>3 DEF From
  <2>2. cube[p] \in Cube /\ cube[h] \in Cube
    BY <1>0, <1>6 DEF DataInv, DataOK
  <2>. QED
    BY <2>1, <2>2, SameCube
<1>8. /\ Linking' = Linking /\ InScan' = {} /\ Cells' = Cells
      /\ FunctionRead(added)' = FunctionRead(added)
  <2>1. InScan' = {}
    BY <1>3, <1>4 DEF InScan
  <2>. QED
    BY <1>3, <2>1, SameArgs DEF Linking
<1>9. chk.ret = "add" <=> ~Linking
  BY <1>0, <1>3, <1>4, LinkingIs
<1>10. PICK R, S : R = Rest(p, link) /\ S = Elements(list) \cup R
  OBVIOUS
<1>11. /\ p \in R /\ R \cap Elements(list) = {} /\ IsFiniteSet(S) /\ Cardinality(S) \in Nat
       /\ \A x \in Points : Par(cube, S, x) <=> x \in FunctionRead(added)
       /\ chk.ret = "insert" => Cardinality(S) <= Cardinality(saved)
       /\ chk.ret = "probed" =>
            Cardinality(S) + link.gain + chk.gain + 2 <= Cardinality(saved) + link.dist
  BY <1>2, <1>3, <1>10, ReadyFacts
<1>12. /\ Held' = Held \ {p} /\ (~Linking \/ Touched') /\ Owed' = R \ {p}
  <2>1. TRUE <=> pc' # "scan" /\ ~(chk.ret = "probed" /\ chk'.gain = 0)
    BY <1>3, <1>4, <1>5
  <2>2. chk'.gain \in Nat /\ chk'.gain >= chk.gain /\ chk'.p = chk.p /\ chk'.ret = chk.ret
    BY <1>2, <1>4, <1>5
  <2>. QED
    BY <1>2, <1>3, <1>10, <2>1, <2>2, ScanHeld
<1>13. /\ list' \in Seq(Cells) /\ Distinct(list') /\ Elements(list') = Elements(list) \ {h}
  BY <1>0, <1>3, <1>6, WithoutFacts DEF TypeOK, PlacesInv
<1>14. /\ free' \in Seq(Cells) /\ Distinct(free') /\ Elements(free') = Elements(free) \cup {h, p}
  <2>1. PICK t : t = <<h, p>>
    OBVIOUS
  <2>2. t \in Seq(Cells) /\ Distinct(t) /\ Elements(t) = {h, p}
    BY <1>6, <2>1, TwoFacts
  <2>3. Elements(t) \cap Elements(free) = {} /\ free \in Seq(Cells) /\ Distinct(free)
    BY <1>0, <1>6, <2>2 DEF TypeOK, PlacesInv
  <2>4. free' = t \o free
    BY <1>3, <2>1
  <2>. QED
    BY <2>2, <2>3, <2>4, ConcatFacts
<1>15. Elements(list)' = Elements(list') /\ Elements(free)' = Elements(free')
  BY DEF Elements
<1>16. /\ ID' \in [Cells -> 0 .. LastID] /\ ID'[p] = 0 /\ ID'[h] = 0
       /\ \A k \in Cells : k # p /\ k # h => ID'[k] = ID[k]
  <2>1. ID \in [Cells -> 0 .. LastID] /\ 0 \in 0 .. LastID
    BY <1>0, ExorcismAssumption DEF TypeOK
  <2>. QED
    BY <1>3, <1>6, <2>1
<1>17. TypeOK'
  <2>1. que' \in Queues
    BY <1>3, <1>4, ScanQueueStep
  <2>. QED
    BY <1>0, <1>3, <1>4, <1>5, <1>13, <1>14, <1>16, <2>1, SameArgs DEF TypeOK
<1>18. QueueInv'
  BY <1>3, <1>4, ScanQueueStep
<1>19. PlacesInv'
  <2>1. Cells \ (Elements(list) \cup Elements(free)) = Held
    BY <1>0 DEF PlacesInv
  <2>2. Cells \ (Elements(list') \cup Elements(free')) = Held'
    <3>1. PICK A, B, C : A = Elements(list) /\ B = Elements(free) /\ C = Held
      OBVIOUS
    <3>2. Cells \ (A \cup B) = C /\ h \in A /\ p \in C
      BY <1>6, <2>1, <3>1
    <3>3. Elements(list') = A \ {h} /\ Elements(free') = B \cup {h, p} /\ Held' = C \ {p}
      BY <1>12, <1>13, <1>14, <3>1
    <3>. QED
      BY <3>2, <3>3
  <2>3. Elements(list') \cap Elements(free') = {}
    BY <1>0, <1>6, <1>13, <1>14 DEF PlacesInv
  <2>4. \A k \in Cells : ID'[k] = 0 <=> k \in Elements(free')
    BY <1>0, <1>14, <1>16 DEF PlacesInv
  <2>. QED
    BY <1>8, <1>13, <1>14, <1>15, <2>2, <2>3, <2>4 DEF PlacesInv, Distinct
<1>20. MarksInv'
  BY <1>0, <1>3, <1>8 DEF MarksInv, Made
<1>21. PhaseInv'
  <2>1. Probing' => Probing
    BY <1>3, <1>4, <1>5 DEF Probing
  <2>2. Inserting' => Inserting
    BY <1>3, <1>4, <1>5 DEF Inserting
  <2>3. pc' # "scan" /\ pc' # "probe"
    BY <1>3, <1>4
  <2>. QED
    BY <1>0, <1>2, <1>3, <1>4, <1>5, <1>8, <1>9, <2>1, <2>2, <2>3, LinkingIs DEF PhaseInv
<1>22. DataInv'
  BY <1>0, <1>3, <1>8, <1>16 DEF DataInv
<1>23. ApartInv'
  BY <1>0, <1>3, <1>13, <1>15 DEF ApartInv, Apart
<1>24. VainInv' /\ TwoInv'
  BY <1>8, <1>12 DEF VainInv, TwoInv
<1>25. UndoInv'
  <2>1. ~Undoable'
    <3>1. Undoable' => TotalGain' = link.gain + (chk.gain + 2)
      BY <1>3, <1>4, <1>5 DEF Undoable, TotalGain
    <3>2. link.gain + (chk.gain + 2) # 1
      BY <1>4
    <3>. QED
      BY <3>1, <3>2 DEF Undoable
  <2>. QED
    BY <2>1 DEF UndoInv
<1>t. PICK T : T = S \ {h, p}
  OBVIOUS
<1>26. Working' = T
  <2>1. Elements(list') \cup Owed' = T
    BY <1>6, <1>10, <1>11, <1>12, <1>13, <1>t
  <2>. QED
    BY <1>15, <2>1 DEF Working
<1>27. /\ Cardinality(T) = Cardinality(S) - 2
       /\ \A x : Par(cube, T, x) <=> Par(cube, S, x)
  <2>1. h \in S /\ p \in S /\ h # p /\ cube[h] = cube[p] /\ IsFiniteSet(S) /\ T = S \ {h, p}
    BY <1>6, <1>7, <1>10, <1>11, <1>t
  <2>. QED
    BY ONLY <2>1, ParCancel
<1>28. LedgerInv'
  BY <1>3, <1>8, <1>11, <1>26, <1>27 DEF LedgerInv
<1>29. SizeInv'
  <2>1. IsFiniteSet(saved)
    BY <1>0, <1>3 DEF SizeInv, Adding
  <2>2. Linking' => Cardinality(saved') <= pass'.nBefore
    BY <1>0, <1>3, <1>8 DEF SizeInv
  <2>3. pc' # "next" /\ ~Adding'
    BY <1>3, <1>4 DEF Adding
  <2>4. PICK s, g, e, z \in Nat : /\ s = Cardinality(S) /\ g = link.gain /\ e = chk.gain
                                  /\ z = Cardinality(saved)
    BY <1>4, <1>11, <2>1, FS_CardinalityType
  <2>5. Cardinality(Working') = s - 2
    BY <1>26, <1>27, <2>4
  <2>6. Inserting' => Cardinality(Working') <= Cardinality(saved')
    <3>1. ASSUME Inserting' PROVE chk.ret = "insert"
      BY <1>3, <1>4, <1>5, <3>1 DEF Inserting
    <3>. QED
      BY <1>3, <1>11, <2>4, <2>5, <3>1
  <2>7. Probing' => Cardinality(Working') + TotalGain' + 2 <= Cardinality(saved') + link'.dist
    <3>1. ASSUME Probing' PROVE chk.ret = "probed"
      BY <1>3, <1>4, <1>5, <3>1 DEF Probing
    <3>2. chk.ret = "probed" => TotalGain' = g + (e + 2)
      BY <1>3, <1>4, <1>5, <2>4 DEF TotalGain
    <3>3. link.dist \in Nat
      BY <1>0, LinkType DEF Distances
    <3>4. chk.ret = "probed" => (s - 2) + (g + (e + 2)) + 2 <= z + link.dist
      <4>1. chk.ret = "probed" => s + g + e + 2 <= z + link.dist
        BY <1>11, <2>4
      <4>2. (s - 2) + (g + (e + 2)) + 2 = s + g + e + 2
        OBVIOUS
      <4>. QED
        BY <4>1, <4>2
    <3>. QED
      BY <1>3, <2>4, <2>5, <3>1, <3>2, <3>4
  <2>. QED
    BY <1>3, <2>1, <2>2, <2>3, <2>6, <2>7 DEF SizeInv
<1>. QED
  BY <1>17, <1>18, <1>19, <1>20, <1>21, <1>22, <1>23, <1>24, <1>25, <1>28, <1>29 DEF IInv

-----------------------------------------------------------------------------
(* Two cubes are merged into one of them.                                   *)
LEMMA ParMerge ==
  ASSUME NEW cb, NEW cc, NEW S, IsFiniteSet(S), NEW a, NEW b, a \in S, b \in S, a # b,
         NEW T, T = S \ {b}, \A k \in S : k # a => cc[k] = cb[k],
         \A x : Covers(cc[a], x) <=> ~(Covers(cb[a], x) <=> Covers(cb[b], x))
  PROVE  /\ IsFiniteSet(T) /\ Cardinality(T) = Cardinality(S) - 1
         /\ \A x : Par(cc, T, x) <=> Par(cb, S, x)
<1>1. PICK Q : Q = T \ {a}
  OBVIOUS
<1>2. /\ IsFiniteSet(Q) /\ IsFiniteSet(T) /\ a \notin Q /\ b \notin T
      /\ T = Q \cup {a} /\ S = T \cup {b}
  <2>1. T \subseteq S /\ Q \subseteq S
    BY <1>1
  <2>. QED
    BY <1>1, <2>1, FS_Subset
<1>3. Cardinality(S) = Cardinality(T) + 1 /\ Cardinality(T) \in Nat
  BY <1>2, FS_AddElement, FS_CardinalityType
<1>4. ASSUME NEW x PROVE Par(cc, T, x) <=> Par(cb, S, x)
  <2>1. Par(cb, Q \cup {a}, x) <=> ~(Par(cb, Q, x) <=> Covers(cb[a], x))
    BY <1>2, ParAdd
  <2>2. Par(cb, T \cup {b}, x) <=> ~(Par(cb, T, x) <=> Covers(cb[b], x))
    BY <1>2, ParAdd
  <2>3. Par(cc, Q \cup {a}, x) <=> ~(Par(cc, Q, x) <=> Covers(cc[a], x))
    BY <1>2, ParAdd
  <2>4. Par(cc, Q, x) <=> Par(cb, Q, x)
    <3>1. \A k \in Q : cc[k] = cb[k]
      BY <1>1, <1>2
    <3>. QED
      BY <3>1, ParSame
  <2>5. Covers(cc[a], x) <=> ~(Covers(cb[a], x) <=> Covers(cb[b], x))
    OBVIOUS
  <2>. QED
    BY <1>2, <2>1, <2>2, <2>3, <2>4, <2>5
<1>5. Cardinality(T) = Cardinality(S) - 1
  BY <1>3
<1>. QED
  BY <1>2, <1>4, <1>5

(* The cost is that of the inputs.                                          *)
LEMMA CostSame ==
  ASSUME NEW c, NEW m, \A v \in Inputs : c[v] = m[v]
  PROVE  Literals(c) = Literals(m) /\ ComputeQCost(c) = ComputeQCost(m)
<1>1. {v \in Inputs : c[v] # Absent} = {v \in Inputs : m[v] # Absent}
  OBVIOUS
<1>2. {v \in Inputs : c[v] = {0}} = {v \in Inputs : m[v] = {0}}
  OBVIOUS
<1>. QED
  BY <1>1, <1>2 DEF Literals, ComputeQCost

(* The cube merged into, its literals and its cost, and back.               *)
LEMMA MergedData ==
  ASSUME NEW a \in Cube, NEW b \in Cube, NEW v, OneApart(a, b, v), NEW new, new = Xor(a[v], b[v]),
         NEW m, m = [a EXCEPT ![v] = new]
  PROVE  /\ m \in Cube /\ v \in Positions
         /\ [m EXCEPT ![v] = Xor(@, b[v])] = a
         /\ \A x : Covers(m, x) <=> ~(Covers(a, x) <=> Covers(b, x))
         /\ v = OutPos => Literals(m) = Literals(a) /\ ComputeQCost(m) = ComputeQCost(a)
         /\ v # OutPos => Literals(m) = Literals(a) - LiteralIn(a[v]) + LiteralIn(new)
<1>1. m = Merged(a, b, v)
  BY DEF Merged
<1>2. /\ m \in Cube
      /\ [m EXCEPT ![v] = Xor(@, b[v])] = a
      /\ \A x : Covers(m, x) <=> ~(Covers(a, x) <=> Covers(b, x))
  <2>1. /\ Merged(a, b, v) \in Cube
        /\ [Merged(a, b, v) EXCEPT ![v] = Xor(@, b[v])] = a
        /\ \A x : Covers(Merged(a, b, v), x) <=> ~(Covers(a, x) <=> Covers(b, x))
    BY MergeFacts
  <2>. QED
    BY <1>1, <2>1
<1>3. v \in Positions /\ a = [u \in Positions |-> a[u]]
  BY CubeFacts DEF OneApart
<1>4. m[v] = new /\ \A u \in Positions : u # v => m[u] = a[u]
  BY <1>3
<1>5. v # OutPos => Literals(m) = Literals(a) - LiteralIn(a[v]) + LiteralIn(new)
  BY <1>3, <1>4, LiteralsStep
<1>6. v = OutPos => Literals(m) = Literals(a) /\ ComputeQCost(m) = ComputeQCost(a)
  <2>1. v = OutPos => \A u \in Inputs : m[u] = a[u]
    BY <1>4, PositionFacts
  <2>. QED
    BY <2>1, CostSame
<1>. QED
  BY <1>2, <1>3, <1>5, <1>6

-----------------------------------------------------------------------------
LEMMA ScanMergeStep == ASSUME IInv, ScanMerge PROVE IInv'
<1>0. /\ TypeOK /\ PhaseInv /\ QueueInv /\ PlacesInv /\ MarksInv /\ DataInv /\ ApartInv
      /\ VainInv /\ UndoInv /\ LedgerInv /\ SizeInv /\ TwoInv
  BY DEF IInv
<1>1. PICK h : h = Hit
  OBVIOUS
<1>2. PICK p : p = chk.p
  OBVIOUS
<1>3. PICK v : v = Smallest(Differ(cube[p], cube[h]))
  OBVIOUS
<1>4. PICK new : new = Xor(cube[p][v], cube[h][v])
  OBVIOUS
<1>5. /\ pc = "scan" /\ Hits # {} /\ From(h) = 1 /\ pc' = pc /\ ScanQueues(FALSE)
      /\ store' = [fInput |-> v # OutPos, p |-> p, PrevQa |-> lits[h], PrevPa |-> lits[p],
                   PrevQq |-> qcost[h], PrevPq |-> qcost[p], Var |-> v,
                   Value |-> cube[h][v], PrevID |-> ID[h]]
      /\ cube' = [cube EXCEPT ![p][v] = new]
      /\ lits' = IF v = OutPos THEN lits
                 ELSE [lits EXCEPT ![p] = @ - LiteralIn(cube[p][v]) + LiteralIn(new)]
      /\ qcost' = IF v = OutPos THEN qcost
                  ELSE [qcost EXCEPT ![p] = ComputeQCost([cube[p] EXCEPT ![v] = new])]
      /\ list' = Without(list, h) /\ free' = <<h>> \o free /\ ID' = [ID EXCEPT ![h] = 0]
      /\ chk' = [chk EXCEPT !.add = TRUE, !.gain = @ + 1]
      /\ args' = args /\ added' = added /\ fMark' = fMark /\ cIDs' = cIDs /\ enabled' = enabled
      /\ link' = link /\ pass' = pass /\ saved' = saved
  BY <1>1, <1>2, <1>3, <1>4 DEF ScanMerge
<1>6. chk.ret \in {"add", "probed", "insert"} /\ chk.gain \in Nat /\ link.gain \in Nat
  BY <1>0, ChkType, LinkType
<1>7. /\ chk' \in Checks /\ chk'.gain = chk.gain + 1 /\ chk'.p = p /\ chk'.ret = chk.ret
      /\ chk'.add
  <2>1. chk \in [p : 0 .. nCubesAlloc, add : BOOLEAN, gain : Nat, ret : {"add", "probed", "insert"}]
    BY <1>0 DEF TypeOK, Checks
  <2>2. PICK g : g = chk.gain + 1
    OBVIOUS
  <2>3. g \in Nat /\ chk' = [chk EXCEPT !.add = TRUE, !.gain = g]
    BY <1>5, <1>6, <2>2
  <2>. QED
    BY <1>2, <2>1, <2>2, <2>3 DEF Checks
<1>8. /\ p \in Cells /\ p \in Held /\ ID[p] # 0
      /\ p \notin Elements(list) /\ p \notin Elements(free)
      /\ h \in Elements(list) /\ h \in Cells /\ ID[h] # 0 /\ h \notin Elements(free) /\ h # p
  BY <1>0, <1>1, <1>2, <1>5, ScanFacts, ListFacts
<1>9. PICK a, b : a = cube[p] /\ b = cube[h]
  OBVIOUS
<1>10. a \in Cube /\ b \in Cube /\ lits[p] = Literals(a) /\ qcost[p] = ComputeQCost(a)
  BY <1>0, <1>8, <1>9 DEF DataInv, DataOK
<1>11. OneApart(a, b, v)
  <2>1. Distance(a, b) = 1
    BY <1>2, <1>5, <1>9 DEF From
  <2>. QED
    BY <1>3, <1>9, <2>1, OneApartFacts
<1>12. PICK m : m = [a EXCEPT ![v] = new]
  OBVIOUS
<1>13. /\ m \in Cube /\ v \in Positions
       /\ [m EXCEPT ![v] = Xor(@, b[v])] = a
       /\ \A x : Covers(m, x) <=> ~(Covers(a, x) <=> Covers(b, x))
       /\ v = OutPos => Literals(m) = Literals(a) /\ ComputeQCost(m) = ComputeQCost(a)
       /\ v # OutPos => Literals(m) = Literals(a) - LiteralIn(a[v]) + LiteralIn(new)
  BY <1>4, <1>9, <1>10, <1>11, <1>12, MergedData
<1>14. /\ cube' = [cube EXCEPT ![p] = m] /\ cube \in [Cells -> Cube \cup {Blank}]
       /\ cube'[p] = m /\ \A k \in Cells : k # p => cube'[k] = cube[k]
  <2>1. cube' = [cube EXCEPT ![p] = m] /\ cube \in [Cells -> Cube \cup {Blank}]
    BY <1>0, <1>5, <1>9, <1>12 DEF TypeOK
  <2>. QED
    BY <1>8, <2>1
<1>15. /\ lits' = [lits EXCEPT ![p] = Literals(m)] /\ lits \in [Cells -> 0 .. N]
       /\ lits'[p] = Literals(m) /\ \A k \in Cells : k # p => lits'[k] = lits[k]
  <2>1. lits \in [Cells -> 0 .. N]
    BY <1>0 DEF TypeOK
  <2>2. CASE v = OutPos
    <3>1. lits' = lits /\ lits[p] = Literals(m)
      BY <1>5, <1>10, <1>13, <2>2
    <3>. QED
      BY <2>1, <3>1
  <2>3. CASE v # OutPos
    <3>1. lits' = [lits EXCEPT ![p] = Literals(m)]
      BY <1>5, <1>9, <1>10, <1>13, <2>3
    <3>. QED
      BY <1>8, <2>1, <3>1
  <2>. QED
    BY <2>2, <2>3
<1>16. /\ qcost' = [qcost EXCEPT ![p] = ComputeQCost(m)] /\ qcost \in [Cells -> Nat]
       /\ qcost'[p] = ComputeQCost(m) /\ \A k \in Cells : k # p => qcost'[k] = qcost[k]
  <2>1. qcost \in [Cells -> Nat]
    BY <1>0 DEF TypeOK
  <2>2. CASE v = OutPos
    <3>1. qcost' = qcost /\ qcost[p] = ComputeQCost(m)
      BY <1>5, <1>10, <1>13, <2>2
    <3>. QED
      BY <2>1, <3>1
  <2>3. CASE v # OutPos
    <3>1. qcost' = [qcost EXCEPT ![p] = ComputeQCost(m)]
      BY <1>5, <1>9, <1>12, <2>3
    <3>. QED
      BY <1>8, <2>1, <3>1
  <2>. QED
    BY <2>2, <2>3
<1>17. /\ ID' \in [Cells -> 0 .. LastID] /\ ID'[h] = 0 /\ \A k \in Cells : k # h => ID'[k] = ID[k]
  <2>1. ID \in [Cells -> 0 .. LastID] /\ 0 \in 0 .. LastID
    BY <1>0, ExorcismAssumption DEF TypeOK
  <2>. QED
    BY <1>5, <1>8, <2>1
<1>18. /\ Linking' = Linking /\ InScan' = {p} /\ Cells' = Cells
       /\ FunctionRead(added)' = FunctionRead(added)
  <2>1. InScan' = {p}
    BY <1>5, <1>7 DEF InScan
  <2>. QED
    BY <1>5, <2>1, SameArgs DEF Linking
<1>19. chk.ret = "add" <=> ~Linking
  BY <1>0, <1>5, <1>6, LinkingIs
<1>20. PICK R, S : R = Rest(p, link) /\ S = Elements(list) \cup R
  OBVIOUS
<1>21. /\ p \in R /\ R \cap Elements(list) = {} /\ R \subseteq Cells
       /\ IsFiniteSet(S) /\ Cardinality(S) \in Nat
       /\ \A x \in Points : Par(cube, S, x) <=> x \in FunctionRead(added)
       /\ chk.ret = "add" => Cardinality(S) <= Cardinality(saved) + 1
       /\ chk.ret = "insert" => Cardinality(S) <= Cardinality(saved)
       /\ chk.ret = "probed" =>
            Cardinality(S) + link.gain + chk.gain + 2 <= Cardinality(saved) + link.dist
  BY <1>2, <1>5, <1>20, ReadyFacts
<1>22. /\ Held' = Held /\ (~Linking \/ Touched') /\ Owed' = R
  <2>1. FALSE <=> pc' # "scan" /\ ~(chk.ret = "probed" /\ chk'.gain = 0)
    BY <1>5
  <2>2. /\ chk'.gain \in Nat /\ chk'.gain >= chk.gain /\ chk'.p = chk.p /\ chk'.ret = chk.ret
        /\ chk'.gain > 0
    BY <1>2, <1>6, <1>7
  <2>3. pc' # "probed"
    BY <1>5
  <2>. QED
    BY <1>2, <1>5, <1>20, <2>1, <2>2, <2>3, ScanHeld
<1>23. /\ list' \in Seq(Cells) /\ Distinct(list') /\ Elements(list') = Elements(list) \ {h}
  BY <1>0, <1>5, <1>8, WithoutFacts DEF TypeOK, PlacesInv
<1>24. /\ free' \in Seq(Cells) /\ Distinct(free') /\ Elements(free') = Elements(free) \cup {h}
       /\ free' # <<>> /\ Head(free') = h
  <2>1. free \in Seq(Cells) /\ Distinct(free)
    BY <1>0 DEF TypeOK, PlacesInv
  <2>. QED
    BY <1>5, <1>8, <2>1, ConsFacts
<1>25. Elements(list)' = Elements(list') /\ Elements(free)' = Elements(free')
  BY DEF Elements
<1>26. store' \in Stores
  <2>1. lits[h] \in 0 .. N /\ lits[p] \in 0 .. N /\ qcost[h] \in Nat /\ qcost[p] \in Nat
    BY <1>8, <1>15, <1>16
  <2>2. ID[h] \in 0 .. LastID /\ p \in 0 .. nCubesAlloc
    BY <1>0, <1>8, CellsFacts DEF TypeOK
  <2>3. v \in 0 .. OutPos
    <3>1. OutPos \in Nat
      BY CubesAssumption DEF OutPos
    <3>. QED
      BY <1>13, <3>1 DEF Positions
  <2>4. cube[h][v] \in Literal \cup SUBSET Outs
    <3>1. v \in Inputs \/ v = OutPos
      BY <1>13, PositionFacts
    <3>. QED
      BY <1>9, <1>10, <3>1, CubeFacts
  <2>5. (v # OutPos) \in BOOLEAN
    OBVIOUS
  <2>. QED
    BY <1>5, <2>1, <2>2, <2>3, <2>4, <2>5 DEF Stores
<1>27. TypeOK'
  <2>1. que' \in Queues
    BY <1>5, <1>6, ScanQueueStep
  <2>2. cube' \in [Cells -> Cube \cup {Blank}]
    BY <1>8, <1>13, <1>14
  <2>3. lits' \in [Cells -> 0 .. N]
    BY <1>8, <1>15, LiteralsFacts
  <2>4. qcost' \in [Cells -> Nat]
    BY <1>8, <1>16, CostIsNat
  <2>5. /\ args' \in Arguments /\ added' \in 0 .. Len(args'.esop) /\ fMark' \in [Cells -> BOOLEAN]
        /\ cIDs' \in 1 .. LastID /\ enabled' \in SUBSET Distances /\ link' \in Links
        /\ pass' \in Passes /\ saved' \in SUBSET Cube
        /\ pc' \in {"add", "scan", "pass", "next", "probe", "probed", "insert", "failed", "done", "quit"}
    BY <1>0, <1>5 DEF TypeOK
  <2>. QED
    BY <1>5, <1>7, <1>17, <1>18, <1>23, <1>24, <1>26, <2>1, <2>2, <2>3, <2>4, <2>5, SameArgs DEF TypeOK
<1>28. QueueInv'
  BY <1>5, <1>6, ScanQueueStep
<1>29. PlacesInv'
  <2>1. Cells \ (Elements(list) \cup Elements(free)) = Held
    BY <1>0 DEF PlacesInv
  <2>2. Cells \ (Elements(list') \cup Elements(free')) = Held'
    <3>1. PICK A, B, C : A = Elements(list) /\ B = Elements(free) /\ C = Held
      OBVIOUS
    <3>2. Cells \ (A \cup B) = C /\ h \in A
      BY <1>8, <2>1, <3>1
    <3>3. Elements(list') = A \ {h} /\ Elements(free') = B \cup {h} /\ Held' = C
      BY <1>22, <1>23, <1>24, <3>1
    <3>. QED
      BY <3>2, <3>3
  <2>3. Elements(list') \cap Elements(free') = {}
    BY <1>0, <1>8, <1>23, <1>24 DEF PlacesInv
  <2>4. \A k \in Cells : ID'[k] = 0 <=> k \in Elements(free')
    BY <1>0, <1>24, <1>17 DEF PlacesInv
  <2>. QED
    BY <1>18, <1>23, <1>24, <1>25, <2>2, <2>3, <2>4 DEF PlacesInv, Distinct
<1>30. MarksInv'
  BY <1>0, <1>5, <1>18 DEF MarksInv, Made
<1>31. PhaseInv'
  <2>1. Probing' => Probing
    BY <1>5, <1>7 DEF Probing
  <2>2. Inserting' => Inserting
    BY <1>5, <1>7 DEF Inserting
  <2>3. chk'.gain > 0
    BY <1>6, <1>7
  <2>. QED
    BY <1>0, <1>2, <1>5, <1>6, <1>7, <1>18, <1>19, <2>1, <2>2, <2>3, LinkingIs DEF PhaseInv
<1>32. DataInv'
  <2>1. \A k \in Cells : ID'[k] # 0 => DataOK(cube'[k], lits'[k], qcost'[k])
    BY <1>0, <1>13, <1>14, <1>15, <1>16, <1>17 DEF DataInv, DataOK
  <2>. QED
    BY <1>18, <2>1 DEF DataInv
<1>33. ApartInv'
  <2>1. \A k \in Elements(list') : k \in Elements(list) /\ cube'[k] = cube[k]
    BY <1>0, <1>8, <1>14, <1>23, ListFacts
  <2>. QED
    BY <1>0, <1>25, <2>1 DEF ApartInv, Apart
<1>34. VainInv' /\ TwoInv'
  BY <1>18, <1>22 DEF VainInv, TwoInv
<1>35. PICK T : T = S \ {h}
  OBVIOUS
<1>36. Working' = T
  <2>1. Elements(list') \cup Owed' = T
    BY <1>8, <1>20, <1>21, <1>22, <1>23, <1>35
  <2>. QED
    BY <1>25, <2>1 DEF Working
<1>37. /\ Cardinality(T) = Cardinality(S) - 1
       /\ \A x : Par(cube', T, x) <=> Par(cube, S, x)
  <2>1. h \in S /\ p \in S /\ p # h /\ IsFiniteSet(S) /\ T = S \ {h}
    BY <1>8, <1>20, <1>21, <1>35
  <2>2. \A k \in S : k # p => cube'[k] = cube[k]
    BY <1>0, <1>14, <1>20, <1>21, ListFacts
  <2>3. \A x : Covers(cube'[p], x) <=> ~(Covers(cube[p], x) <=> Covers(cube[h], x))
    BY <1>9, <1>13, <1>14
  <2>. QED
    <3>1. PICK cb, cc : cb = cube /\ cc = cube'
      OBVIOUS
    <3>2. \A k \in S : k # p => cc[k] = cb[k]
      BY <2>2, <3>1
    <3>3. \A x : Covers(cc[p], x) <=> ~(Covers(cb[p], x) <=> Covers(cb[h], x))
      BY <2>3, <3>1
    <3>4. /\ Cardinality(T) = Cardinality(S) - 1
          /\ \A x : Par(cc, T, x) <=> Par(cb, S, x)
      BY ONLY <2>1, <3>2, <3>3, ParMerge
    <3>. QED
      BY <3>1, <3>4
<1>38. LedgerInv'
  BY <1>18, <1>21, <1>36, <1>37 DEF LedgerInv
<1>39. SizeInv'
  <2>1. IsFiniteSet(saved)
    BY <1>0, <1>5 DEF SizeInv, Adding
  <2>2. Linking' => Cardinality(saved') <= pass'.nBefore
    BY <1>0, <1>5, <1>18 DEF SizeInv
  <2>3. pc' # "next"
    BY <1>5
  <2>4. PICK s, g, e, z \in Nat : /\ s = Cardinality(S) /\ g = link.gain /\ e = chk.gain
                                  /\ z = Cardinality(saved)
    BY <1>6, <1>21, <2>1, FS_CardinalityType
  <2>5. Cardinality(Working') = s - 1
    BY <1>36, <1>37, <2>4
  <2>6. Inserting' => Cardinality(Working') <= Cardinality(saved')
    <3>1. ASSUME Inserting' PROVE chk.ret = "insert"
      BY <1>5, <1>6, <1>7, <3>1 DEF Inserting
    <3>. QED
      BY <1>5, <1>21, <2>4, <2>5, <3>1
  <2>7. Adding' => Cardinality(Working') <= Cardinality(saved') + 1
    <3>1. ASSUME Adding' PROVE chk.ret = "add"
      BY <1>18, <1>19, <3>1 DEF Adding
    <3>. QED
      BY <1>5, <1>21, <2>4, <2>5, <3>1
  <2>8. Probing' => Cardinality(Working') + TotalGain' + 2 <= Cardinality(saved') + link'.dist
    <3>1. ASSUME Probing' PROVE chk.ret = "probed"
      BY <1>5, <1>6, <1>7, <3>1 DEF Probing
    <3>2. TotalGain' = g + (e + 1)
      BY <1>5, <1>6, <1>7, <2>4 DEF TotalGain
    <3>3. link.dist \in Nat
      BY <1>0, LinkType DEF Distances
    <3>4. chk.ret = "probed" => (s - 1) + (g + (e + 1)) + 2 <= z + link.dist
      <4>1. chk.ret = "probed" => s + g + e + 2 <= z + link.dist
        BY <1>21, <2>4
      <4>2. (s - 1) + (g + (e + 1)) + 2 = s + g + e + 2
        OBVIOUS
      <4>. QED
        BY <4>1, <4>2
    <3>. QED
      BY <1>5, <2>4, <2>5, <3>1, <3>2, <3>4
  <2>. QED
    BY <1>5, <2>1, <2>2, <2>3, <2>6, <2>7, <2>8 DEF SizeInv
<1>40. UndoneCube' = cube
  <2>1. /\ store'.fInput <=> v # OutPos
        /\ store'.p = p /\ store'.Var = v /\ store'.Value = b[v]
    BY <1>5, <1>9
  <2>2. UndonePos' = v
    BY <2>1 DEF UndonePos
  <2>3. UndoneValue' = b[v]
    <3>1. CASE v # OutPos
      BY <2>1, <3>1 DEF UndoneValue
    <3>2. CASE v = OutPos
      <4>1. UndoneValue' = cube'[h][OutPos]
        BY <1>24, <2>1, <3>2 DEF UndoneValue
      <4>2. cube'[h] = b
        BY <1>8, <1>9, <1>14
      <4>. QED
        BY <3>2, <4>1, <4>2
    <3>. QED
      BY <3>1, <3>2
  <2>4. UndoneCube' = [cube' EXCEPT ![p][v] = Xor(@, b[v])]
    BY <2>1, <2>2, <2>3 DEF UndoneCube
  <2>5. [cube' EXCEPT ![p][v] = Xor(@, b[v])] = [cube' EXCEPT ![p] = [m EXCEPT ![v] = Xor(@, b[v])]]
    BY <1>8, <1>14
  <2>6. [cube' EXCEPT ![p] = a] = cube
    BY <1>8, <1>9, <1>14
  <2>. QED
    BY <1>13, <2>4, <2>5, <2>6
<1>41. UndoneLits' = lits /\ UndoneCost' = qcost
  <2>1. /\ store'.fInput <=> v # OutPos
        /\ store'.p = p /\ store'.PrevPa = lits[p] /\ store'.PrevPq = qcost[p]
    BY <1>5
  <2>2. CASE v = OutPos
    BY <1>5, <2>1, <2>2 DEF UndoneLits, UndoneCost
  <2>3. CASE v # OutPos
    <3>1. UndoneLits' = [lits' EXCEPT ![p] = lits[p]]
      BY <2>1, <2>3 DEF UndoneLits
    <3>2. UndoneCost' = [qcost' EXCEPT ![p] = qcost[p]]
      BY <2>1, <2>3 DEF UndoneCost
    <3>3. [lits' EXCEPT ![p] = lits[p]] = lits
      BY <1>8, <1>15
    <3>4. [qcost' EXCEPT ![p] = qcost[p]] = qcost
      BY <1>8, <1>16
    <3>. QED
      BY <3>1, <3>2, <3>3, <3>4
  <2>. QED
    BY <2>2, <2>3
<1>42. UndoneList' = Elements(list)
  <2>1. store'.p = p
    BY <1>5
  <2>2. UndoneList' = (Elements(list') \cup {h}) \ {p}
    BY <1>24, <1>25, <2>1 DEF UndoneList
  <2>3. ((Elements(list) \ {h}) \cup {h}) \ {p} = Elements(list)
    BY <1>8
  <2>. QED
    BY <1>23, <2>2, <2>3
<1>43. UndoInv'
  <2>1. SUFFICES ASSUME Undoable'
        PROVE  /\ \E i \in 1 .. link'.dist : Given' = {i} /\ store'.p = GC(link', i)
               /\ store'.p \in Elements(list') \cup InScan'
               /\ free' # <<>> /\ store'.PrevID # 0
               /\ Vain(UndoneList', UndoneCube', UndoneLits', UndoneCost', link', saved',
                       FunctionRead(added)')
    BY DEF UndoInv, Elements
  <2>2. chk.ret = "probed" /\ Linking
    BY <1>5, <1>6, <1>7, <1>19, <2>1 DEF Undoable, Probing
  <2>3. chk.gain = 0 /\ link.gain = 0
    <3>1. link.gain + (chk.gain + 1) = 1
      BY <1>5, <1>7, <2>1 DEF Undoable, TotalGain
    <3>. QED
      BY <1>6, <3>1
  <2>4. /\ ProbeOK(link) /\ p = GC(link, link.c) /\ link.c \in 1 .. link.dist
    BY <1>2, <1>5, <2>2, ScanBase
  <2>5. link.ins = {} /\ ~Touched
    BY <2>3, <2>4 DEF ProbeOK, Touched, Merging
  <2>6. Vain(Elements(list), cube, lits, qcost, link, saved, FunctionRead(added))
    BY <1>0, <2>2, <2>5 DEF VainInv
  <2>7. Given' = {link.c}
    <3>1. Merging'
      BY <1>5, <1>6, <1>7, <2>2 DEF Merging
    <3>. QED
      BY <1>5, <2>5, <3>1 DEF Given
  <2>8. store'.p = p /\ store'.PrevID = ID[h]
    BY <1>5
  <2>. QED
    BY <1>5, <1>8, <1>18, <1>24, <1>40, <1>41, <1>42, <2>4, <2>6, <2>7, <2>8
<1>. QED
  BY <1>27, <1>28, <1>29, <1>30, <1>31, <1>32, <1>33, <1>34, <1>38, <1>39, <1>43 DEF IInv
=============================================================================
