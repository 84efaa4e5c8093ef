------------------------------ MODULE Counting ------------------------------
(***************************************************************************)
(* Lemmas about the sizes of sets that the proofs of several components    *)
(* share: what a set loses and gains in elements, the least and greatest   *)
(* of its numbers, and how the duplicates of a queue are charged.          *)
(***************************************************************************)
EXTENDS Naturals, FiniteSets, FiniteSetTheorems, WellFoundedInduction, TLAPS

LEMMA Fewer ==
  ASSUME NEW A, NEW B, IsFiniteSet(A), B \subseteq A
  PROVE  /\ IsFiniteSet(B) /\ Cardinality(B) <= Cardinality(A)
         /\ Cardinality(A) \in Nat /\ Cardinality(B) \in Nat
BY FS_Subset, FS_CardinalityType

LEMMA OneFewer ==
  ASSUME NEW A, NEW B, NEW w \in A, IsFiniteSet(A), B \subseteq A \ {w}
  PROVE  /\ IsFiniteSet(B) /\ Cardinality(B) + 1 <= Cardinality(A)
         /\ Cardinality(A) \in Nat /\ Cardinality(B) \in Nat
<1>1. IsFiniteSet(A \ {w}) /\ Cardinality(A \ {w}) = Cardinality(A) - 1
  BY FS_RemoveElement
<1>2. IsFiniteSet(B) /\ Cardinality(B) <= Cardinality(A \ {w})
  BY <1>1, FS_Subset
<1>3. Cardinality(A) \in Nat /\ Cardinality(B) \in Nat
  BY <1>2, FS_CardinalityType
<1>. QED
  BY <1>1, <1>2, <1>3

LEMMA OneMore ==
  ASSUME NEW A, NEW B, NEW w, IsFiniteSet(A), B \subseteq A \cup {w}
  PROVE  /\ IsFiniteSet(B) /\ Cardinality(B) <= Cardinality(A) + 1
         /\ Cardinality(A) \in Nat /\ Cardinality(B) \in Nat
<1>1. /\ IsFiniteSet(A \cup {w})
      /\ Cardinality(A \cup {w}) = Cardinality(A) \/ Cardinality(A \cup {w}) = Cardinality(A) + 1
  BY FS_AddElement
<1>2. IsFiniteSet(B) /\ Cardinality(B) <= Cardinality(A \cup {w})
  BY <1>1, FS_Subset
<1>3. Cardinality(A) \in Nat /\ Cardinality(B) \in Nat
  BY <1>2, FS_CardinalityType
<1>. QED
  BY <1>1, <1>2, <1>3

LEMMA OneForOne ==
  ASSUME NEW A, NEW B, NEW v, NEW w, IsFiniteSet(A), v \in A, B \subseteq (A \ {v}) \cup {w}
  PROVE  /\ IsFiniteSet(B) /\ Cardinality(B) <= Cardinality(A)
         /\ Cardinality(A) \in Nat /\ Cardinality(B) \in Nat
<1>1. IsFiniteSet(A \ {v}) /\ Cardinality(A \ {v}) = Cardinality(A) - 1
  BY FS_RemoveElement
<1>2. IsFiniteSet(B) /\ Cardinality(B) <= Cardinality(A \ {v}) + 1
      /\ Cardinality(B) \in Nat /\ Cardinality(A) \in Nat
  BY <1>1, OneMore, FS_CardinalityType
<1>. QED
  BY <1>1, <1>2

-----------------------------------------------------------------------------
\* A set of natural numbers has a least member, and a bounded one a greatest.
LEMMA Least ==
  ASSUME NEW T, T \subseteq Nat, T # {}
  PROVE  \E x \in T : \A y \in T : x <= y
<1>. DEFINE R == OpToRel(<, Nat)
<1>1. \E x \in T : \A y \in T : ~ (<<y, x>> \in R)
  BY NatLessThanWellFounded, WFMin
<1>2. \A x, y \in Nat : <<y, x>> \in R <=> y < x
  BY DEF OpToRel
<1>. HIDE DEF R
<1>3. PICK x \in T : \A y \in T : ~ (<<y, x>> \in R)
  BY <1>1
<1>4. ASSUME NEW y \in T PROVE x <= y
  <2>1. x \in Nat /\ y \in Nat
    BY <1>3
  <2>2. ~ (y < x)
    BY <1>2, <1>3, <2>1
  <2>. QED
    BY <2>1, <2>2
<1>. QED
  BY <1>4

LEMMA Greatest ==
  ASSUME NEW n \in Nat, NEW T, T \subseteq 0..n, T # {}
  PROVE  \E x \in T : \A y \in T : y <= x
<1>. DEFINE U == {m \in Nat : \A y \in T : y <= m}
<1>1. n \in U
  OBVIOUS
<1>2. PICK x \in U : \A y \in U : x <= y
  BY <1>1, Least
<1>3. x \in T
  <2>1. CASE x = 0
    <3>1. PICK y \in T : TRUE
      OBVIOUS
    <3>2. y <= 0
      BY <1>2, <2>1, <3>1
    <3>. QED
      BY <2>1, <3>1, <3>2
  <2>2. CASE x # 0 /\ x \notin T
    <3>1. x - 1 \in U
      BY <1>2, <2>2
    <3>. QED
      BY <1>2, <3>1
  <2>. QED
    BY <2>1, <2>2
<1>. QED
  BY <1>2, <1>3

-----------------------------------------------------------------------------
(***************************************************************************)
(* The messages of jobs J, of which c[j] have reached their user.  The     *)
(* copies after the first are charged, and so is a job of R: one that has  *)
(* reached its user and will be sent once more.                            *)
(***************************************************************************)
Extra(J, c) == UNION {{j} \X (2..c[j]) : j \in J}

OnceMore(R) == {<<j, 1>> : j \in R}

Charges(J, c, R) == Extra(J, c) \cup OnceMore(R)

LEMMA ChargesElements ==
  ASSUME NEW J, NEW c \in [J -> Nat], NEW R \in SUBSET J
  PROVE  \A x : x \in Charges(J, c, R) <=>
           \E j \in J : (\E n \in 2..c[j] : x = <<j, n>>) \/ (j \in R /\ x = <<j, 1>>)
<1>1. \A x : x \in Extra(J, c) <=> \E j \in J : \E n \in 2..c[j] : x = <<j, n>>
  <2>1. \A x, j : x \in {j} \X (2..c[j]) <=> \E n \in 2..c[j] : x = <<j, n>>
    OBVIOUS
  <2>. QED
    BY <2>1 DEF Extra
<1>2. \A x : x \in OnceMore(R) <=> \E j \in J : j \in R /\ x = <<j, 1>>
  BY DEF OnceMore
<1>. QED
  BY <1>1, <1>2 DEF Charges

LEMMA NothingCharged ==
  ASSUME NEW J, NEW R \in SUBSET J, NEW Q \in SUBSET R, NEW c \in [J -> Nat], IsFiniteSet(Charges(J, c, R))
  PROVE  /\ IsFiniteSet(Charges(J, c, Q))
         /\ Cardinality(Charges(J, c, Q)) <= Cardinality(Charges(J, c, R))
         /\ Cardinality(Charges(J, c, R)) \in Nat /\ Cardinality(Charges(J, c, Q)) \in Nat
<1>1. Charges(J, c, Q) \subseteq Charges(J, c, R)
  BY ChargesElements
<1>. QED
  BY <1>1, Fewer

\* Job j will be sent again.
LEMMA RiskCharged ==
  ASSUME NEW J, NEW R \in SUBSET J, NEW Q \in SUBSET J, NEW j \in J, Q \subseteq R \cup {j},
         NEW c \in [J -> Nat], IsFiniteSet(Charges(J, c, R))
  PROVE  /\ IsFiniteSet(Charges(J, c, Q))
         /\ Cardinality(Charges(J, c, Q)) <= Cardinality(Charges(J, c, R)) + 1
         /\ Cardinality(Charges(J, c, R)) \in Nat /\ Cardinality(Charges(J, c, Q)) \in Nat
<1>1. Charges(J, c, Q) \subseteq Charges(J, c, R) \cup {<<j, 1>>}
  BY ChargesElements
<1>. QED
  BY <1>1, OneMore

\* What n more copies of job j add.
LEMMA SentElements ==
  ASSUME NEW J, NEW R \in SUBSET J, NEW Q \in SUBSET J, NEW j \in J, Q \subseteq R \cup {j},
         NEW c \in [J -> Nat], NEW d \in [J -> Nat], NEW n \in Nat, n <= 2,
         d[j] = c[j] + n, \A k \in J \ {j} : d[k] = c[k], NEW x \in Charges(J, d, Q)
  PROVE  \/ x \in Charges(J, c, R) /\ x # <<j, 1>>
         \/ x = <<j, 1>> /\ j \in Q
         \/ x = <<j, c[j] + 1>> /\ n > 0 /\ c[j] > 0
         \/ x = <<j, c[j] + 2>> /\ n = 2
<1>1. PICK k \in J : (\E m \in 2..d[k] : x = <<k, m>>) \/ (k \in Q /\ x = <<k, 1>>)
  BY ChargesElements
<1>2. CASE k # j
  <2>1. (\E m \in 2..c[k] : x = <<k, m>>) \/ (k \in R /\ x = <<k, 1>>)
    BY <1>1, <1>2
  <2>. QED
    BY <1>2, <2>1, ChargesElements
<1>3. CASE k = j /\ \E m \in 2..d[j] : x = <<j, m>>
  <2>1. PICK m \in 2..(c[j] + n) : x = <<j, m>>
    BY <1>3
  <2>2. CASE m <= c[j]
    <3>1. m \in 2..c[j] /\ m # 1
      BY <2>2
    <3>. QED
      BY <2>1, <3>1, ChargesElements
  <2>3. CASE m > c[j]
    <3>1. \/ m = c[j] + 1 /\ n > 0 /\ c[j] > 0
          \/ m = c[j] + 2 /\ n = 2
      BY <2>3
    <3>. QED
      BY <2>1, <3>1
  <2>. QED
    BY <2>2, <2>3
<1>. QED
  BY <1>1, <1>2, <1>3

\* A job that was at risk, if it had arrived before, is sent and settled: one
\* more copy is free, a second one is charged.
LEMMA SendCharged ==
  ASSUME NEW J, NEW R \in SUBSET J, NEW Q \in SUBSET R, NEW j \in J, j \notin Q,
         NEW c \in [J -> Nat], NEW d \in [J -> Nat], NEW n \in Nat, n <= 2,
         d[j] = c[j] + n, \A k \in J \ {j} : d[k] = c[k], c[j] > 0 => j \in R, IsFiniteSet(Charges(J, c, R))
  PROVE  /\ IsFiniteSet(Charges(J, d, Q))
         /\ Cardinality(Charges(J, d, Q)) <= Cardinality(Charges(J, c, R)) + (IF n = 2 THEN 1 ELSE 0)
         /\ Cardinality(Charges(J, c, R)) \in Nat /\ Cardinality(Charges(J, d, Q)) \in Nat
<1>. DEFINE A == Charges(J, c, R)
            B == Charges(J, d, Q)
            x == <<j, 1>>
            y == <<j, c[j] + 1>>
            z == <<j, c[j] + 2>>
<1>1. IsFiniteSet(A) /\ (c[j] > 0 => x \in A)
  BY ChargesElements
<1>2. \A b \in B : \/ b \in A /\ b # x
                   \/ b = y /\ n > 0 /\ c[j] > 0
                   \/ b = z /\ n = 2
  <2>1. Q \subseteq R \cup {j} /\ Q \in SUBSET J
    OBVIOUS
  <2>2. ASSUME NEW b \in Charges(J, d, Q)
        PROVE  \/ b \in Charges(J, c, R) /\ b # <<j, 1>>
               \/ b = <<j, 1>> /\ j \in Q
               \/ b = <<j, c[j] + 1>> /\ n > 0 /\ c[j] > 0
               \/ b = <<j, c[j] + 2>> /\ n = 2
    BY <2>1, SentElements
  <2>. QED
    BY <2>2
<1>3. c[j] \in Nat
  OBVIOUS
<1>. HIDE DEF A, B, x, y, z
<1>4. /\ IsFiniteSet(B) /\ Cardinality(B) <= Cardinality(A) + (IF n = 2 THEN 1 ELSE 0)
      /\ Cardinality(A) \in Nat /\ Cardinality(B) \in Nat
  <2>1. CASE c[j] = 0 /\ n < 2
    <3>1. B \subseteq A
      BY <1>2, <2>1
    <3>. QED
      BY <1>1, <2>1, <3>1, Fewer
  <2>2. CASE c[j] = 0 /\ n = 2
    <3>1. B \subseteq A \cup {z}
      BY <1>2, <2>2
    <3>. QED
      BY <1>1, <2>2, <3>1, OneMore
  <2>3. CASE c[j] > 0 /\ n < 2
    <3>1. B \subseteq (A \ {x}) \cup {y}
      BY <1>2, <2>3
    <3>2. /\ IsFiniteSet(B) /\ Cardinality(B) <= Cardinality(A)
          /\ Cardinality(A) \in Nat /\ Cardinality(B) \in Nat
      BY <1>1, <2>3, <3>1, OneForOne
    <3>. QED
      BY <2>3, <3>2
  <2>4. CASE c[j] > 0 /\ n = 2
    <3>1. B \ {z} \subseteq (A \ {x}) \cup {y}
      BY <1>2
    <3>2. /\ IsFiniteSet(B \ {z}) /\ Cardinality(B \ {z}) <= Cardinality(A)
          /\ Cardinality(A) \in Nat /\ Cardinality(B \ {z}) \in Nat
      BY <1>1, <2>4, <3>1, OneForOne
    <3>3. B \subseteq (B \ {z}) \cup {z}
      OBVIOUS
    <3>4. IsFiniteSet(B) /\ Cardinality(B) <= Cardinality(B \ {z}) + 1 /\ Cardinality(B) \in Nat
      BY <3>2, <3>3, OneMore
    <3>. QED
      BY <2>4, <3>2, <3>4
  <2>. QED
    BY <1>3, <2>1, <2>2, <2>3, <2>4
<1>. QED
  BY <1>4 DEF A, B

\* A copy of a job that will be sent again.
LEMMA CopyCharged ==
  ASSUME NEW J, NEW R \in SUBSET J, NEW Q \in SUBSET J, NEW j \in J, Q \subseteq R \cup {j},
         NEW c \in [J -> Nat], NEW d \in [J -> Nat],
         d[j] = c[j] + 1, \A k \in J \ {j} : d[k] = c[k], c[j] > 0 => j \in R, IsFiniteSet(Charges(J, c, R))
  PROVE  /\ IsFiniteSet(Charges(J, d, Q))
         /\ Cardinality(Charges(J, d, Q)) <= Cardinality(Charges(J, c, R)) + 1
         /\ Cardinality(Charges(J, c, R)) \in Nat /\ Cardinality(Charges(J, d, Q)) \in Nat
<1>1. PICK A, B, y :
        /\ A = Charges(J, c, R) /\ B = Charges(J, d, Q) /\ y = <<j, c[j] + 1>>
  OBVIOUS
<1>2. ASSUME NEW b \in B PROVE b \in A \cup {y}
  <2>1. b \in A \/ (b = <<j, 1>>) \/ b = y
    BY <1>1, SentElements
  <2>2. CASE b = <<j, 1>>
    <3>1. CASE c[j] = 0
      BY <1>1, <2>2, <3>1
    <3>2. CASE c[j] > 0
      BY <1>1, <2>2, <3>2, ChargesElements
    <3>. QED
      BY <3>1, <3>2
  <2>. QED
    BY <2>1, <2>2
<1>3. B \subseteq A \cup {y}
  BY <1>2
<1>. QED
  BY <1>1, <1>3, OneMore
=============================================================================
