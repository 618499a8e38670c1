----------------------------- MODULE Arithmetic -----------------------------
(***************************************************************************)
(* What the proofs need to know of products and quotients of variables.    *)
(***************************************************************************)
EXTENDS Integers, TLAPS

\* A product grows with its second factor.
LEMMA ProductMonotone ==
  \A n, a, b \in Nat : a <= b => n * a <= n * b
  BY SMT

\* What a division by n yields is the number of times n fits.
LEMMA Quotient ==
  \A s \in Nat, n \in Nat \ {0} :
    /\ s \div n \in Nat
    /\ n * (s \div n) <= s
    /\ s < n * (s \div n) + n
  BY SMT

\* How often n fits is the only number that fits as often.
LEMMA QuotientIs ==
  ASSUME NEW s \in Nat, NEW n \in Nat \ {0}, NEW k \in Nat,
         n * k <= s, s < n * k + n
  PROVE  s \div n = k
<1> DEFINE q == s \div n
<1>1. q \in Nat /\ n * q <= s /\ s < n * q + n
  BY Quotient
<1> HIDE DEF q
<1>2. ~(k < q)
  <2> SUFFICES ASSUME k + 1 <= q PROVE FALSE
    BY <1>1
  <2>1. n * (k + 1) <= n * q /\ n * (k + 1) = n * k + n
    BY <1>1, ProductMonotone
  <2> QED
    BY <1>1, <2>1
<1>3. ~(q < k)
  <2> SUFFICES ASSUME q + 1 <= k PROVE FALSE
    BY <1>1
  <2>1. n * (q + 1) <= n * k /\ n * (q + 1) = n * q + n
    BY <1>1, ProductMonotone
  <2> QED
    BY <1>1, <2>1
<1> QED
  BY <1>1, <1>2, <1>3 DEF q

\* A quotient is below what its dividend is a multiple below.
LEMMA QuotientBelow ==
  ASSUME NEW s \in Nat, NEW n \in Nat \ {0}, NEW k \in Nat, s < n * k
  PROVE  s \div n \in Nat /\ s \div n < k
<1> DEFINE q == s \div n
<1>1. q \in Nat /\ n * q <= s
  BY Quotient
<1> HIDE DEF q
<1>2. q < k
  <2> SUFFICES ASSUME k <= q PROVE FALSE
    BY <1>1
  <2>1. n * k <= n * q /\ n * k \in Nat /\ n * q \in Nat
    BY <1>1, ProductMonotone
  <2> QED
    BY <1>1, <2>1
<1> QED
  BY <1>1, <1>2 DEF q
=============================================================================
