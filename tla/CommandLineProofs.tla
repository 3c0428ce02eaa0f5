------------------------- MODULE CommandLineProofs -------------------------
(***************************************************************************)
(* The command line keeps its types, is a line editor, and remembers the   *)
(* latest commands, for every size of its buffer and of its history.       *)
(***************************************************************************)
EXTENDS CommandLine, SequenceTheorems, WellFoundedInduction, TLAPS

-----------------------------------------------------------------------------
(* Least elements.                                                         *)

Below == {p \in Nat \X Nat : p[1] < p[2]}

\* Some element of a set of natural numbers is the least.
LEMMA Least ==
  ASSUME NEW T \in SUBSET Nat, T # {}
  PROVE  \E x \in T : \A y \in T : x <= y
<1>1. IsWellFoundedOn(Below, Nat)
  BY NatLessThanWellFounded DEF Below, OpToRel
<1>2. PICK x \in T : \A y \in T : ~(<<y, x>> \in Below)
  BY <1>1, WFMin
<1>3. ASSUME NEW y \in T PROVE x <= y
  <2>1. x \in Nat /\ y \in Nat /\ ~(<<y, x>> \in Below)
    BY <1>2
  <2>2. QED
    BY <2>1 DEF Below
<1>4. QED
  BY <1>2, <1>3

\* Going down from c, one comes to the end of a run of the numbers below c in S.
LEMMA RunBelow ==
  ASSUME NEW c \in Nat, NEW S
  PROVE  \E p \in 0..c : (\A k \in p..(c - 1) : k \in S) /\ (p = 0 \/ p - 1 \notin S)
<1> DEFINE T == {p \in 0..c : \A k \in p..(c - 1) : k \in S}
<1>1. c \in T /\ T \in SUBSET Nat
  OBVIOUS
<1>2. PICK p \in T : \A q \in T : p <= q
  <2> HIDE DEF T
  <2>1. QED
    BY <1>1, Least
<1>3. p = 0 \/ p - 1 \notin S
  <2>1. SUFFICES ASSUME p # 0, p - 1 \in S PROVE FALSE
    OBVIOUS
  <2>2. p \in 0..c /\ p - 1 \in 0..c /\ ~(p <= p - 1)
    BY <2>1
  <2>3. \A k \in (p - 1)..(c - 1) : k = p - 1 \/ k \in p..(c - 1)
    BY <2>2
  <2>4. p - 1 \in T
    BY <2>1, <2>2, <2>3
  <2>5. QED
    BY <1>2, <2>2, <2>4
<1>4. QED
  BY <1>2, <1>3

-----------------------------------------------------------------------------
(* The buffer.                                                             *)

Buffers == {b \in [Index -> Char \cup {NUL}] : b[Size - 1] = NUL}

\* The first NUL of b is at n.
Ends(b, n) == n \in Index /\ b[n] = NUL /\ \A k \in 0..(n - 1) : b[k] # NUL

LEMMA IndexNat == Index \in SUBSET Nat /\ Size - 1 \in Index /\ Size \in Nat
BY SizeAssumption DEF Index

LEMMA MarksAreNoChars == NUL \notin Char /\ "newline" \notin Char
BY CharsAssumption

LEMMA EndIsUnique ==
  ASSUME NEW b, NEW m, NEW n, Ends(b, m), Ends(b, n)
  PROVE  m = n
<1>1. m \in Nat /\ n \in Nat
  BY IndexNat DEF Ends
<1>2. m < n => m \in 0..(n - 1)
  BY <1>1
<1>3. n < m => n \in 0..(m - 1)
  BY <1>1
<1>4. QED
  BY <1>1, <1>2, <1>3 DEF Ends

\* strlen finds the first NUL.
LEMMA StrlenIs ==
  ASSUME NEW b, NEW n, Ends(b, n)
  PROVE  strlen(b) = n
<1>1. strlen(b) = CHOOSE m \in Index : Ends(b, m)
  BY DEF strlen, Ends
<1>2. n \in Index
  BY DEF Ends
<1>3. Ends(b, CHOOSE m \in Index : Ends(b, m))
  BY <1>2
<1>4. QED
  BY <1>1, <1>3, EndIsUnique

LEMMA StrlenEnds ==
  ASSUME NEW b \in Buffers
  PROVE  Ends(b, strlen(b))
<1> DEFINE T == {n \in Index : b[n] = NUL}
<1>1. T \in SUBSET Nat /\ T # {}
  BY IndexNat DEF Buffers
<1>2. PICK n \in T : \A m \in T : n <= m
  <2> HIDE DEF T
  <2>1. QED
    BY <1>1, Least
<1>3. Ends(b, n)
  <2>1. n \in Index /\ n \in 0..(Size - 1) /\ b[n] = NUL
    BY <1>2 DEF Index
  <2>2. ASSUME NEW k \in 0..(n - 1) PROVE b[k] # NUL
    <3>1. k \in Index /\ ~(n <= k)
      BY <2>1, SizeAssumption DEF Index
    <3>2. QED
      BY <1>2, <3>1
  <2>3. QED
    BY <2>1, <2>2 DEF Ends
<1>4. QED
  BY <1>3, StrlenIs

\* The length of a line, and its characters.
LEMMA LineChars ==
  ASSUME NEW b \in Buffers
  PROVE  /\ strlen(b) \in 0..(Size - 1) /\ strlen(b) \in Nat /\ b[strlen(b)] = NUL
         /\ \A k \in 0..(strlen(b) - 1) : b[k] \in Char
<1>1. Ends(b, strlen(b))
  BY StrlenEnds
<1>2. strlen(b) \in 0..(Size - 1) /\ strlen(b) \in Nat /\ b[strlen(b)] = NUL
  BY <1>1, IndexNat DEF Ends, Index
<1>3. ASSUME NEW k \in 0..(strlen(b) - 1) PROVE b[k] \in Char
  <2>1. k \in Index
    BY <1>2, SizeAssumption DEF Index
  <2>2. b[k] \in Char \cup {NUL}
    BY <2>1 DEF Buffers
  <2>3. b[k] # NUL
    BY <1>1 DEF Ends
  <2>4. QED
    BY <2>2, <2>3
<1>4. QED
  BY <1>2, <1>3

LEMMA EmptyLine == Empty \in Buffers /\ strlen(Empty) = 0
<1>1. Empty \in Buffers
  BY IndexNat DEF Empty, Buffers
<1>2. Ends(Empty, 0)
  BY SizeAssumption DEF Ends, Empty, Index
<1>3. QED
  BY <1>1, <1>2, StrlenIs

\* What memmove returns.
LEMMA Moved ==
  ASSUME NEW b, NEW to, NEW from, NEW n
  PROVE  /\ DOMAIN memmove(b, to, from, n) = Index
         /\ memmove(b, to, from, n) = [k \in Index |-> memmove(b, to, from, n)[k]]
         /\ \A k \in Index : memmove(b, to, from, n)[k] =
              IF k \in to..(to + n - 1) THEN b[from + k - to] ELSE b[k]
BY DEF memmove

\* The buffer after c is put in at a place i of a line of n characters.
LEMMA Inserted ==
  ASSUME NEW b \in Buffers, strlen(b) < Size - 1, NEW i \in 0..strlen(b), NEW c \in Char
  PROVE  LET n  == strlen(b)
             b1 == [memmove(b, i + 1, i, n - i + 1) EXCEPT ![i] = c]
         IN  /\ b1 \in Buffers /\ strlen(b1) = n + 1
             /\ \A k \in 0..(i - 1) : b1[k] = b[k]
             /\ b1[i] = c
             /\ \A k \in i..(n - 1) : b1[k + 1] = b[k]
<1> DEFINE n  == strlen(b)
           b0 == memmove(b, i + 1, i, n - i + 1)
           b1 == [b0 EXCEPT ![i] = c]
<1>1. n \in 0..(Size - 2) /\ n \in Nat /\ Size \in Nat /\ Index = 0..(Size - 1)
  BY LineChars, SizeAssumption DEF Index
<1>2. b \in [Index -> Char \cup {NUL}] /\ b[Size - 1] = NUL /\ b[n] = NUL
  BY LineChars DEF Buffers
<1>3. \A k \in 0..(n - 1) : b[k] \in Char
  BY LineChars
<1> HIDE DEF n
<1>4. i \in 0..n /\ i \in Index /\ i \in Nat
  BY <1>1 DEF n
<1>5. /\ DOMAIN b0 = Index
      /\ \A k \in Index : b0[k] = IF k \in (i + 1)..((i + 1) + (n - i + 1) - 1)
                                  THEN b[i + k - (i + 1)] ELSE b[k]
  BY Moved
<1>6. \A k \in (i + 1)..(n + 1) : k \in Index /\ k - 1 \in Index /\ b0[k] = b[k - 1]
  <2>1. SUFFICES ASSUME NEW k \in (i + 1)..(n + 1)
                 PROVE  k \in Index /\ k - 1 \in Index /\ b0[k] = b[k - 1]
    OBVIOUS
  <2>2. /\ k \in Index /\ k - 1 \in Index /\ i + k - (i + 1) = k - 1
        /\ k \in (i + 1)..((i + 1) + (n - i + 1) - 1)
    BY <1>1, <1>4
  <2>3. QED
    BY <1>5, <2>2
<1>7. \A k \in Index : k < i \/ k > n + 1 => b0[k] = b[k]
  BY <1>1, <1>4, <1>5
<1> HIDE DEF b0
<1>8. /\ DOMAIN b1 = Index /\ b1[i] = c
      /\ b1 = [k \in Index |-> b1[k]]
      /\ \A k \in Index : k # i => b1[k] = b0[k]
  BY <1>4, <1>5
<1> HIDE DEF b1
<1>9. ASSUME NEW k \in Index PROVE b1[k] \in Char \cup {NUL}
  <2>1. CASE k < i \/ k > n + 1
    BY <1>1, <1>2, <1>4, <1>7, <1>8, <2>1
  <2>2. CASE k = i
    BY <1>8, <2>2
  <2>3. CASE k \in (i + 1)..(n + 1)
    BY <1>2, <1>4, <1>6, <1>8, <2>3
  <2>4. k < i \/ k > n + 1 \/ k = i \/ k \in (i + 1)..(n + 1)
    BY <1>1, <1>4
  <2>5. QED
    BY <2>1, <2>2, <2>3, <2>4
<1>10. \A k \in 0..(i - 1) : b1[k] = b[k]
  BY <1>1, <1>4, <1>7, <1>8
<1>11. \A k \in i..n : b1[k + 1] = b[k]
  <2>1. SUFFICES ASSUME NEW k \in i..n PROVE b1[k + 1] = b[k]
    OBVIOUS
  <2>2. k + 1 \in (i + 1)..(n + 1) /\ k + 1 # i /\ (k + 1) - 1 = k
    BY <1>1, <1>4
  <2>3. QED
    BY <1>6, <1>8, <2>2
<1>12. b1[Size - 1] = NUL
  <2>1. CASE n + 1 = Size - 1
    BY <1>1, <1>2, <1>4, <1>11, <2>1
  <2>2. CASE n + 1 < Size - 1
    BY <1>1, <1>2, <1>4, <1>7, <1>8, <2>2
  <2>3. QED
    BY <1>1, <2>1, <2>2
<1>13. b1 \in Buffers
  BY <1>8, <1>9, <1>12 DEF Buffers
<1>14. Ends(b1, n + 1)
  <2>1. n + 1 \in Index /\ n \in i..n /\ b1[n + 1] = NUL
    BY <1>1, <1>2, <1>4, <1>11
  <2>2. ASSUME NEW k \in 0..n PROVE b1[k] \in Char
    <3>1. CASE k \in 0..(i - 1)
      BY <1>1, <1>3, <1>4, <1>10, <3>1
    <3>2. CASE k = i
      BY <1>8, <3>2
    <3>3. CASE k \in (i + 1)..n
      <4>1. k - 1 \in i..n /\ (k - 1) + 1 = k /\ k - 1 \in 0..(n - 1)
        BY <1>1, <1>4, <3>3
      <4>2. QED
        BY <1>3, <1>11, <4>1
    <3>4. QED
      BY <1>1, <1>4, <3>1, <3>2, <3>3
  <2>3. (n + 1) - 1 = n /\ NUL \notin Char
    BY <1>1, MarksAreNoChars
  <2>4. QED
    BY <2>1, <2>2, <2>3 DEF Ends
<1>15. strlen(b1) = n + 1
  BY <1>14, StrlenIs
<1>16. \A k \in i..(n - 1) : b1[k + 1] = b[k]
  BY <1>1, <1>4, <1>11
<1>17. QED
  BY <1>8, <1>10, <1>13, <1>15, <1>16 DEF n, b0, b1

\* The buffer after the characters from i to j - 1 are taken out.
LEMMA TakenOut ==
  ASSUME NEW b \in Buffers, NEW j \in 0..strlen(b), NEW i \in 0..j
  PROVE  LET n  == strlen(b)
             b1 == memmove(b, i, j, n - j + 1)
         IN  /\ b1 \in Buffers /\ strlen(b1) = n - (j - i)
             /\ \A k \in 0..(i - 1) : b1[k] = b[k]
             /\ \A k \in j..(n - 1) : b1[k - (j - i)] = b[k]
<1> DEFINE n  == strlen(b)
           b1 == memmove(b, i, j, n - j + 1)
<1>1. n \in 0..(Size - 1) /\ n \in Nat /\ Size \in Nat /\ Index = 0..(Size - 1)
  BY LineChars, SizeAssumption DEF Index
<1>2. b \in [Index -> Char \cup {NUL}] /\ b[Size - 1] = NUL /\ b[n] = NUL
  BY LineChars DEF Buffers
<1>3. \A k \in 0..(n - 1) : b[k] \in Char
  BY LineChars
<1> HIDE DEF n
<1>4. j \in 0..n /\ i \in 0..n /\ i <= j /\ i \in Nat /\ j \in Nat
  BY <1>1 DEF n
<1>5. /\ DOMAIN b1 = Index /\ b1 = [k \in Index |-> b1[k]]
      /\ \A k \in Index : b1[k] = IF k \in i..(i + (n - j + 1) - 1)
                                  THEN b[j + k - i] ELSE b[k]
  BY Moved
<1> HIDE DEF b1
<1>6. \A k \in j..n : k - (j - i) \in Index /\ b1[k - (j - i)] = b[k]
  <2>1. SUFFICES ASSUME NEW k \in j..n
                 PROVE  k - (j - i) \in Index /\ b1[k - (j - i)] = b[k]
    OBVIOUS
  <2>2. /\ k - (j - i) \in Index /\ k - (j - i) \in i..(i + (n - j + 1) - 1)
        /\ j + (k - (j - i)) - i = k
    BY <1>1, <1>4
  <2>3. QED
    BY <1>5, <2>2
<1>7. \A k \in Index : k < i \/ k > i + (n - j) => b1[k] = b[k]
  BY <1>1, <1>4, <1>5
<1>8. ASSUME NEW k \in Index PROVE b1[k] \in Char \cup {NUL}
  <2>1. CASE k < i \/ k > i + (n - j)
    BY <1>2, <1>7, <2>1
  <2>2. CASE k \in i..(i + (n - j))
    <3>1. k + (j - i) \in j..n /\ (k + (j - i)) - (j - i) = k /\ k + (j - i) \in Index
      BY <1>1, <1>4, <2>2
    <3>2. QED
      BY <1>2, <1>6, <3>1
  <2>3. k < i \/ k > i + (n - j) \/ k \in i..(i + (n - j))
    BY <1>1, <1>4
  <2>4. QED
    BY <2>1, <2>2, <2>3
<1>9. b1[Size - 1] = NUL
  <2>1. CASE i + (n - j) = Size - 1
    BY <1>1, <1>2, <1>4, <1>6, <2>1
  <2>2. CASE i + (n - j) < Size - 1
    BY <1>1, <1>2, <1>4, <1>7, <2>2
  <2>3. QED
    BY <1>1, <1>4, <2>1, <2>2
<1>10. b1 \in Buffers
  BY <1>5, <1>8, <1>9 DEF Buffers
<1>11. \A k \in 0..(i - 1) : b1[k] = b[k]
  BY <1>1, <1>4, <1>7
<1>12. Ends(b1, n - (j - i))
  <2>1. n - (j - i) \in Index /\ b1[n - (j - i)] = NUL
    BY <1>1, <1>2, <1>4, <1>6
  <2>2. ASSUME NEW k \in 0..(n - (j - i) - 1) PROVE b1[k] \in Char
    <3>1. CASE k < i
      BY <1>1, <1>3, <1>4, <1>11, <3>1
    <3>2. CASE k >= i
      <4>1. /\ k + (j - i) \in j..n /\ (k + (j - i)) - (j - i) = k
            /\ k + (j - i) \in 0..(n - 1)
        BY <1>1, <1>4, <3>2
      <4>2. QED
        BY <1>3, <1>6, <4>1
    <3>3. QED
      BY <1>1, <1>4, <3>1, <3>2
  <2>3. QED
    BY <2>1, <2>2, MarksAreNoChars DEF Ends
<1>13. strlen(b1) = n - (j - i)
  BY <1>12, StrlenIs
<1>14. \A k \in j..(n - 1) : b1[k - (j - i)] = b[k]
  BY <1>1, <1>4, <1>6
<1>15. QED
  BY <1>10, <1>11, <1>13, <1>14 DEF n, b1

\* strncpy without Len.
Copy(b, s, n) == [k \in Index |-> CASE k = Size - 1 -> b[k]
                                    [] k < n /\ k < Size - 1 -> s[k + 1]
                                    [] OTHER -> NUL]

LEMMA CopyOK ==
  ASSUME NEW b \in Buffers, NEW s, NEW n \in Nat, \A i \in 1..n : s[i] \in Char
  PROVE  Copy(b, s, n) \in Buffers
<1>1. Size - 1 \in Index /\ Index = 0..(Size - 1) /\ Size \in Nat /\ b[Size - 1] = NUL
  BY SizeAssumption DEF Index, Buffers
<1>2. ASSUME NEW k \in Index PROVE Copy(b, s, n)[k] \in Char \cup {NUL}
  <2>1. k = Size - 1 => Copy(b, s, n)[k] = NUL
    BY <1>1 DEF Copy
  <2>2. k # Size - 1 => k < Size - 1 /\ k \in Nat
    BY <1>1
  <2>3. k < n /\ k # Size - 1 => Copy(b, s, n)[k] = s[k + 1] /\ k + 1 \in 1..n
    BY <1>1, <2>2 DEF Copy
  <2>4. ~(k < n) /\ k # Size - 1 => Copy(b, s, n)[k] = NUL
    BY <1>1, <2>2 DEF Copy
  <2>5. QED
    BY <2>1, <2>3, <2>4
<1>3. Copy(b, s, n)[Size - 1] = NUL
  BY <1>1 DEF Copy
<1>4. QED
  BY <1>2, <1>3 DEF Buffers, Copy

LEMMA Copied ==
  ASSUME NEW b \in Buffers, NEW s \in Seq(Char)
  PROVE  strncpy(b, s) \in Buffers
<1>1. Len(s) \in Nat /\ \A i \in 1..Len(s) : s[i] \in Char
  BY LenProperties
<1>2. Copy(b, s, Len(s)) \in Buffers
  BY <1>1, CopyOK
<1>3. strncpy(b, s) = Copy(b, s, Len(s))
  BY DEF strncpy, Copy
<1>4. QED
  BY <1>2, <1>3

\* Where DeleteWord takes out from.
LEMMA WordStart ==
  ASSUME cursor \in Nat
  PROVE  /\ SpacesBefore \in 0..cursor
         /\ \A k \in SpacesBefore..(cursor - 1) : buffer[k] = " "
         /\ SpacesBefore = 0 \/ buffer[SpacesBefore - 1] # " "
         /\ WordBefore \in 0..SpacesBefore
         /\ \A k \in WordBefore..(SpacesBefore - 1) : buffer[k] # " "
         /\ WordBefore = 0 \/ buffer[WordBefore - 1] = " "
<1> DEFINE S == {k \in Nat : buffer[k] = " "}
           R == {k \in Nat : buffer[k] # " "}
           P(p) == /\ \A k \in p..(cursor - 1) : buffer[k] = " "
                   /\ p = 0 \/ buffer[p - 1] # " "
           Q(p) == /\ \A k \in p..(SpacesBefore - 1) : buffer[k] # " "
                   /\ p = 0 \/ buffer[p - 1] = " "
<1>0. cursor \in Nat
  OBVIOUS
<1>1. \E p \in 0..cursor : P(p)
  <2>1. PICK p \in 0..cursor : (\A k \in p..(cursor - 1) : k \in S) /\ (p = 0 \/ p - 1 \notin S)
    BY RunBelow
  <2>2. p \in Nat /\ (p = 0 \/ p - 1 \in Nat)
    BY <1>0
  <2>3. P(p)
    BY <2>1, <2>2
  <2>4. QED
    BY <2>1, <2>3
<1>2. SpacesBefore = CHOOSE p \in 0..cursor : P(p)
  BY DEF SpacesBefore
<1>3. SpacesBefore \in 0..cursor /\ P(SpacesBefore)
  <2> HIDE DEF P
  <2>1. QED
    BY <1>1, <1>2
<1>4. SpacesBefore \in Nat
  <2>1. SpacesBefore \in 0..cursor
    BY <1>3
  <2>2. QED
    BY ONLY <1>0, <2>1
<1>5. \E p \in 0..SpacesBefore : Q(p)
  <2>1. PICK p \in 0..SpacesBefore : /\ \A k \in p..(SpacesBefore - 1) : k \in R
                                     /\ p = 0 \/ p - 1 \notin R
    BY <1>4, RunBelow
  <2>2. p \in Nat /\ (p = 0 \/ p - 1 \in Nat)
    BY <1>4
  <2>3. Q(p)
    BY <1>4, <2>1, <2>2
  <2>4. QED
    BY <2>1, <2>3
<1>6. WordBefore = CHOOSE p \in 0..SpacesBefore : Q(p)
  BY DEF WordBefore
<1>7. WordBefore \in 0..SpacesBefore /\ Q(WordBefore)
  <2> HIDE DEF Q
  <2>1. QED
    BY <1>5, <1>6
<1>8. QED
  BY <1>3, <1>7

-----------------------------------------------------------------------------
(* Recursion.                                                              *)

\* f[n] is computed from base in n steps.
Computes(f, S, base, step, n) ==
  f \in [0..n -> S] /\ f[0] = base /\ \A m \in 1..n : f[m] = step[<<m, f[m - 1]>>]

\* A function defined by recursion over 0..n exists.
LEMMA RecursionExists ==
  ASSUME NEW S, NEW base \in S, NEW n \in Nat, NEW step \in [(1..n) \X S -> S]
  PROVE  \E f : Computes(f, S, base, step, n)
<1> DEFINE T == {m \in Nat : m <= n /\ ~ \E f : Computes(f, S, base, step, m)}
<1>1. SUFFICES ASSUME T # {} PROVE FALSE
  OBVIOUS
<1>2. PICK m \in T : \A k \in T : m <= k
  <2>1. T \in SUBSET Nat
    OBVIOUS
  <2>2. QED
    BY <1>1, <2>1, Least
<1>3. m # 0
  <2>1. Computes([k \in 0..0 |-> base], S, base, step, 0)
    BY DEF Computes
  <2>2. QED
    BY <2>1
<1>4. m - 1 \in Nat /\ m - 1 \notin T /\ m \in 1..n
  BY <1>2, <1>3
<1>5. PICK f : Computes(f, S, base, step, m - 1)
  BY <1>4
<1> DEFINE h == [k \in 0..m |-> IF k = m THEN step[<<m, f[m - 1]>>] ELSE f[k]]
<1>6. Computes(h, S, base, step, m)
  <2>1. f[m - 1] \in S
    BY <1>4, <1>5 DEF Computes
  <2>2. h \in [0..m -> S]
    BY <1>4, <1>5, <2>1 DEF Computes
  <2>3. h[0] = base
    BY <1>4, <1>5 DEF Computes
  <2>4. ASSUME NEW k \in 1..m PROVE h[k] = step[<<k, h[k - 1]>>]
    <3>1. k \in 1..(m - 1) \/ k = m
      BY <1>4
    <3>2. k - 1 \in 0..(m - 1) /\ k - 1 # m /\ m - 1 # m
      BY <1>4
    <3>3. CASE k = m
      <4>1. k - 1 \in 0..m /\ k \in 0..m /\ h[k] = step[<<m, f[m - 1]>>] /\ h[k - 1] = f[m - 1]
        BY <1>4, <3>2, <3>3
      <4>2. QED
        BY <3>3, <4>1
    <3>4. CASE k \in 1..(m - 1)
      BY <1>5, <3>2, <3>4 DEF Computes
    <3>5. QED
      BY <3>1, <3>3, <3>4
  <2> HIDE DEF h
  <2>5. QED
    BY <2>2, <2>3, <2>4 DEF Computes
<1>7. QED
  BY <1>2, <1>6

\* What holds of 0, and of a number with the one before it, holds up to n.
LEMMA Upwards ==
  ASSUME NEW n \in Nat, NEW T, 0 \in T, \A m \in 1..n : m - 1 \in T => m \in T
  PROVE  n \in T
<1> DEFINE D == {m \in 0..n : m \notin T}
<1>1. SUFFICES ASSUME D # {} PROVE FALSE
  OBVIOUS
<1>2. PICK m \in D : \A k \in D : m <= k
  <2>1. D \in SUBSET Nat
    OBVIOUS
  <2>2. QED
    BY <1>1, <2>1, Least
<1>3. m \in 0..n /\ m # 0 /\ m \notin T
  BY <1>2
<1>4. m \in 1..n /\ m - 1 \in 0..n /\ ~(m <= m - 1)
  BY <1>3
<1>5. QED
  BY <1>2, <1>3, <1>4

\* The function is the only one.
LEMMA RecursionIsUnique ==
  ASSUME NEW n \in Nat, NEW f, NEW g, f[0] = g[0],
         \A m \in 1..n : f[m - 1] = g[m - 1] => f[m] = g[m]
  PROVE  \A m \in 0..n : f[m] = g[m]
<1> DEFINE T == {m \in 0..n : f[m] # g[m]}
<1>1. T = {}
  <2>1. SUFFICES ASSUME T # {} PROVE FALSE
    OBVIOUS
  <2>2. PICK m \in T : \A k \in T : m <= k
    <3>1. T \in SUBSET Nat
      OBVIOUS
    <3>2. QED
      BY <2>1, <3>1, Least
  <2>3. m \in 0..n /\ m # 0 /\ f[m] # g[m]
    BY <2>2
  <2>4. m \in 1..n /\ m - 1 \in 0..n /\ ~(m <= m - 1)
    BY <2>3
  <2>5. f[m - 1] = g[m - 1]
    BY <2>2, <2>4
  <2>6. QED
    BY <2>3, <2>4, <2>5
<1>2. QED
  BY <1>1

-----------------------------------------------------------------------------
(* The history.                                                            *)

Commands == UNION {[1..n -> Char] : n \in 1..(Size - 1)}

LEMMA CommandIsText ==
  ASSUME NEW s \in Commands
  PROVE  s \in Seq(Char) /\ Len(s) \in 1..(Size - 1) /\ s # <<>>
<1>1. PICK n \in 1..(Size - 1) : s \in [1..n -> Char]
  BY DEF Commands
<1>2. n \in Nat /\ Size \in Nat
  BY SizeAssumption
<1>3. s \in Seq(Char)
  BY <1>1, <1>2
<1>4. Len(s) = n
  BY <1>1, <1>2
<1>5. s # <<>>
  BY <1>2, <1>4, EmptySeq
<1>6. QED
  BY <1>3, <1>4, <1>5

LEMMA TextIsCommand ==
  ASSUME NEW s \in Seq(Char), Len(s) \in 1..(Size - 1)
  PROVE  s \in Commands
<1>1. s \in [1..Len(s) -> Char]
  BY LenProperties
<1>2. QED
  BY <1>1 DEF Commands

Records == {h \in [history : Seq(Commands), current : Nat] :
              Len(h.history) <= Capacity /\ h.current <= Len(h.history)}

\* The history keeps within its capacity.
LEMMA AddedOK ==
  ASSUME NEW h \in Records, NEW s, s = <<>> \/ s \in Commands
  PROVE  Added(h, s) \in Records
<1> DEFINE kept == IF Len(h.history) >= Capacity THEN Tail(h.history) ELSE h.history
<1>1. /\ h.history \in Seq(Commands) /\ Len(h.history) \in Nat /\ Len(h.history) <= Capacity
      /\ Capacity \in Nat \ {0}
  BY LenProperties, CapacityAssumption DEF Records
<1>2. kept \in Seq(Commands) /\ Len(kept) \in Nat /\ Len(kept) < Capacity
  <2>1. CASE Len(h.history) >= Capacity
    <3>1. h.history # <<>>
      BY <1>1, <2>1, EmptySeq
    <3>2. Tail(h.history) \in Seq(Commands) /\ Len(Tail(h.history)) = Len(h.history) - 1
      BY <1>1, <3>1, HeadTailProperties
    <3>3. QED
      BY <1>1, <2>1, <3>2
  <2>2. CASE ~(Len(h.history) >= Capacity)
    BY <1>1, <2>2
  <2>3. QED
    BY <2>1, <2>2
<1>3. ASSUME s # <<>>
      PROVE  [history |-> Append(kept, s), current |-> Len(Append(kept, s))] \in Records
  <2>1. s \in Commands
    BY <1>3
  <2> HIDE DEF kept
  <2>2. Append(kept, s) \in Seq(Commands) /\ Len(Append(kept, s)) = Len(kept) + 1
    BY <1>2, <2>1, AppendProperties
  <2>3. QED
    BY <1>1, <1>2, <2>2 DEF Records
<1>4. \/ Added(h, s) = h
      \/ s # <<>> /\ Added(h, s) = [history |-> Append(kept, s), current |-> Len(Append(kept, s))]
  BY DEF Added
<1>5. QED
  BY <1>3, <1>4

\* How many of n commands are the latest ones.
Kept(n) == IF n > Capacity THEN Capacity ELSE n

LEMMA LatestIs ==
  ASSUME NEW S, NEW s \in Seq(S)
  PROVE  /\ Latest(s) \in Seq(S) /\ Len(Latest(s)) = Kept(Len(s))
         /\ \A i \in 1..Kept(Len(s)) : Latest(s)[i] = s[Len(s) - Kept(Len(s)) + i]
<1> DEFINE n == Len(s)
           from == (IF n > Capacity THEN n - Capacity ELSE 0) + 1
<1>1. n \in Nat /\ Capacity \in Nat \ {0} /\ \A i \in 1..n : s[i] \in S
  BY LenProperties, CapacityAssumption
<1>2. Latest(s) = SubSeq(s, from, n)
  BY DEF Latest
<1>3. /\ from \in 1..(n + 1) /\ from \in Int /\ n - from + 1 = Kept(n)
      /\ n \in Int /\ Kept(n) \in 0..n /\ (from <= n <=> Kept(n) # 0)
  BY <1>1 DEF Kept
<1>4. \A i \in from..n : s[i] \in S
  BY <1>1, <1>3
<1> HIDE DEF from
<1>5. /\ SubSeq(s, from, n) \in Seq(S)
      /\ Len(SubSeq(s, from, n)) = IF from <= n THEN n - from + 1 ELSE 0
      /\ \A i \in 1..(n - from + 1) : SubSeq(s, from, n)[i] = s[from + i - 1]
  BY <1>3, <1>4, SubSeqProperties
<1>6. ASSUME NEW i \in 1..Kept(n) PROVE Latest(s)[i] = s[n - Kept(n) + i]
  <2>1. from + i - 1 = n - Kept(n) + i /\ i \in 1..(n - from + 1)
    BY <1>1, <1>3
  <2>2. QED
    BY <1>2, <1>5, <2>1
<1>7. Len(Latest(s)) = Kept(n)
  BY <1>2, <1>3, <1>5
<1>8. QED
  BY <1>2, <1>5, <1>6, <1>7

\* A command that is added to the latest of some commands makes the latest of one more.
LEMMA AddedToLatest ==
  ASSUME NEW h, NEW d \in Seq(Commands), h.history = Latest(d), NEW c \in Commands
  PROVE  Added(h, c).history = Latest(Unrepeated(d, c))
<1> DEFINE n == Len(d)
           k == Kept(n)
           l == Latest(d)
           e == Append(d, c)
<1>1. n \in Nat /\ Capacity \in Nat \ {0} /\ k \in 0..n /\ k <= Capacity /\ (n # 0 => k # 0)
  BY LenProperties, CapacityAssumption DEF Kept
<1>2. l \in Seq(Commands) /\ Len(l) = k /\ \A i \in 1..k : l[i] = d[n - k + i]
  BY LatestIs
<1>3. e \in Seq(Commands) /\ Len(e) = n + 1 /\ e[n + 1] = c /\ \A i \in 1..n : e[i] = d[i]
  BY AppendProperties
<1>4. c # <<>>
  BY CommandIsText
<1>5. (d = <<>> <=> n = 0) /\ (l = <<>> <=> k = 0)
  <2>1. d = <<>> => n = 0
    BY EmptySeq
  <2>2. n = 0 => d = <<>>
    BY EmptySeq
  <2> HIDE DEF l
  <2>3. l = <<>> <=> k = 0
    BY <1>1, <1>2, EmptySeq
  <2>4. QED
    BY <2>1, <2>2, <2>3
<1>6. d # <<>> => l # <<>> /\ Last(l) = Last(d)
  <2>1. SUFFICES ASSUME d # <<>> PROVE l # <<>> /\ Last(l) = Last(d)
    OBVIOUS
  <2>2. k \in 1..k /\ n - k + k = n /\ l # <<>>
    BY <1>1, <1>5, <2>1
  <2>3. l[k] = d[n]
    BY <1>2, <2>2
  <2> HIDE DEF l, k
  <2>4. QED
    BY <1>2, <2>2, <2>3 DEF Last
<1>7. d = <<>> => l = <<>>
  BY <1>1, <1>5
<1>8. CASE d # <<>> /\ Last(d) = c
  <2>1. l # <<>> /\ Last(l) = c
    BY <1>6, <1>8
  <2>2. Added(h, c).history = l
    BY <2>1 DEF Added
  <2>3. Unrepeated(d, c) = d
    BY <1>8 DEF Unrepeated
  <2>4. QED
    BY <2>2, <2>3
<1>9. CASE ~(d # <<>> /\ Last(d) = c)
  <2> DEFINE kept == IF Len(l) >= Capacity THEN Tail(l) ELSE l
  <2>1. ~(l # <<>> /\ Last(l) = c)
    BY <1>6, <1>7, <1>9
  <2>2. Added(h, c).history = Append(kept, c)
    BY <1>4, <2>1 DEF Added
  <2>3. Unrepeated(d, c) = e
    BY <1>9 DEF Unrepeated
  <2>4. kept \in Seq(Commands) /\ Len(kept) = Kept(n + 1) - 1
        /\ \A i \in 1..(Kept(n + 1) - 1) : kept[i] = d[n + 1 - Kept(n + 1) + i]
    <3>1. CASE k = Capacity
      <4>1. l # <<>> /\ kept = Tail(l) /\ Kept(n + 1) = Capacity
        BY <1>1, <1>2, <1>5, <3>1 DEF Kept
      <4> HIDE DEF l, k
      <4>2. /\ Tail(l) \in Seq(Commands) /\ Len(Tail(l)) = k - 1
            /\ \A i \in 1..(k - 1) : Tail(l)[i] = l[i + 1]
        BY <1>2, <4>1, HeadTailProperties
      <4>3. ASSUME NEW i \in 1..(k - 1) PROVE Tail(l)[i] = d[n + 1 - k + i]
        <5>1. i + 1 \in 1..k /\ n - k + (i + 1) = n + 1 - k + i
          BY <1>1
        <5>2. QED
          BY <1>2, <4>2, <5>1
      <4>4. QED
        BY <3>1, <4>1, <4>2, <4>3
    <3>2. CASE k # Capacity
      <4>1. kept = l /\ k = n /\ Kept(n + 1) = n + 1
        BY <1>1, <1>2, <3>2 DEF Kept
      <4>2. ASSUME NEW i \in 1..n PROVE l[i] = d[n + 1 - (n + 1) + i]
        <5>1. n + 1 - (n + 1) + i = i /\ n - k + i = i
          BY <1>1, <4>1
        <5>2. QED
          BY <1>2, <4>1, <5>1
      <4>3. Kept(n + 1) - 1 = n
        BY <1>1, <4>1
      <4> HIDE DEF l, k
      <4>4. QED
        BY <1>2, <4>1, <4>2, <4>3
    <3>3. QED
      BY <3>1, <3>2
  <2> DEFINE a == Append(kept, c)
             m == Kept(n + 1)
  <2>5. m \in 1..(n + 1)
    BY <1>1 DEF Kept
  <2> HIDE DEF kept, m
  <2>6. /\ a \in Seq(Commands) /\ Len(a) = m /\ a[m] = c
        /\ \A i \in 1..(m - 1) : a[i] = d[n + 1 - m + i]
    <3>1. m - 1 \in Nat /\ (m - 1) + 1 = m /\ Len(kept) = m - 1
      BY <1>1, <2>4, <2>5 DEF m
    <3>2. /\ a \in Seq(Commands) /\ Len(a) = (m - 1) + 1 /\ a[(m - 1) + 1] = c
          /\ \A i \in 1..(m - 1) : a[i] = kept[i]
      BY <2>4, <3>1, AppendProperties
    <3>3. \A i \in 1..(m - 1) : kept[i] = d[n + 1 - m + i]
      BY <2>4 DEF m
    <3> HIDE DEF a
    <3>4. QED
      BY <3>1, <3>2, <3>3
  <2>7. /\ Latest(e) \in Seq(Commands) /\ Len(Latest(e)) = m
        /\ \A i \in 1..m : Latest(e)[i] = e[n + 1 - m + i]
    <3>1. e \in Seq(Commands) /\ Len(e) = n + 1
      BY <1>3
    <3> HIDE DEF e, n
    <3>2. /\ Latest(e) \in Seq(Commands) /\ Len(Latest(e)) = Kept(Len(e))
          /\ \A i \in 1..Kept(Len(e)) : Latest(e)[i] = e[Len(e) - Kept(Len(e)) + i]
      BY <3>1, LatestIs
    <3>3. Kept(Len(e)) = m
      BY <3>1 DEF m
    <3>4. \A i \in 1..m : Latest(e)[i] = e[n + 1 - m + i]
      <4>1. SUFFICES ASSUME NEW i \in 1..m PROVE Latest(e)[i] = e[n + 1 - m + i]
        OBVIOUS
      <4>2. Latest(e)[i] = e[Len(e) - m + i]
        BY <3>2, <3>3
      <4>3. Len(e) - m + i = n + 1 - m + i
        <5>1. n \in Nat /\ m \in Nat /\ Len(e) = n + 1
          BY <1>1, <2>5, <3>1
        <5>2. QED
          BY <5>1
      <4>4. QED
        BY <4>2, <4>3
    <3>5. QED
      BY <3>2, <3>3, <3>4
  <2> HIDE DEF a, e, n
  <2>8. ASSUME NEW i \in 1..m PROVE a[i] = Latest(e)[i]
    <3>1. CASE i = m
      <4>1. n + 1 - m + i = n + 1
        BY <1>1, <2>5, <3>1
      <4>2. QED
        BY <1>3, <2>6, <2>7, <3>1, <4>1
    <3>2. CASE i # m
      <4>1. i \in 1..(m - 1) /\ n + 1 - m + i \in 1..n
        BY <1>1, <2>5, <3>2
      <4>2. QED
        BY <1>3, <2>6, <2>7, <4>1
    <3>3. QED
      BY <3>1, <3>2
  <2>9. a = Latest(e)
    BY <2>6, <2>7, <2>8, SeqEqual
  <2>10. QED
    BY <2>2, <2>3, <2>9 DEF a
<1>10. QED
  BY <1>8, <1>9

\* The distinct ones of n commands, one command at a time.
LEMMA DistinctSteps ==
  ASSUME NEW n \in Nat, NEW s, \A i \in 1..n : s[i] \in Commands
  PROVE  \E f : /\ f \in [0..n -> Seq(Commands)] /\ f[0] = <<>>
                /\ \A m \in 1..n : f[m] = Unrepeated(f[m - 1], s[m])
                /\ DistinctOf(s, n) = f[n]
<1> DEFINE S == Seq(Commands)
           Is(h) == h = [m \in 0..n |-> IF m = 0 THEN <<>> ELSE Unrepeated(h[m - 1], s[m])]
           step == [p \in (1..n) \X S |-> Unrepeated(p[2], s[p[1]])]
<1>1. \A d \in S, c \in Commands : Unrepeated(d, c) \in S
  BY AppendProperties DEF Unrepeated
<1>2. <<>> \in S
  BY EmptySeq
<1> HIDE DEF S
<1>3. /\ step \in [(1..n) \X S -> S]
      /\ \A m \in 1..n, d \in S : step[<<m, d>>] = Unrepeated(d, s[m])
  <2>1. \A p \in (1..n) \X S : p[1] \in 1..n /\ p[2] \in S
    OBVIOUS
  <2>2. \A p \in (1..n) \X S : Unrepeated(p[2], s[p[1]]) \in S
    BY <1>1, <2>1
  <2>3. \A m \in 1..n, d \in S : <<m, d>> \in (1..n) \X S /\ <<m, d>>[1] = m /\ <<m, d>>[2] = d
    OBVIOUS
  <2>4. QED
    BY <2>2, <2>3
<1> HIDE DEF step
<1>4. PICK f : Computes(f, S, <<>>, step, n)
  BY <1>2, <1>3, RecursionExists
<1>5. /\ f \in [0..n -> S] /\ f[0] = <<>>
      /\ \A m \in 1..n : f[m] = Unrepeated(f[m - 1], s[m])
  <2>1. \A m \in 1..n : m - 1 \in 0..n
    OBVIOUS
  <2>2. QED
    BY <1>3, <1>4, <2>1 DEF Computes
<1>6. Is(f)
  <2>1. \A m \in 0..n : m = 0 \/ m \in 1..n
    OBVIOUS
  <2>2. \A m \in 0..n : f[m] = IF m = 0 THEN <<>> ELSE Unrepeated(f[m - 1], s[m])
    BY <1>5, <2>1
  <2>3. QED
    BY <1>5, <2>2
<1> DEFINE of == CHOOSE h : Is(h)
<1>7. Is(of)
  <2> HIDE DEF Is
  <2>1. QED
    BY <1>6
<1>8. DistinctOf(s, n) = of[n]
  BY DEF DistinctOf
<1> HIDE DEF of
<1>9. \A m \in 0..n : of[m] = IF m = 0 THEN <<>> ELSE Unrepeated(of[m - 1], s[m])
  <2> DEFINE body(k) == IF k = 0 THEN <<>> ELSE Unrepeated(of[k - 1], s[k])
  <2>1. of = [k \in 0..n |-> body(k)]
    BY <1>7
  <2> HIDE DEF body
  <2>2. \A m \in 0..n : of[m] = body(m)
    BY <2>1
  <2>3. QED
    BY <2>2 DEF body
<1>10. of[0] = f[0] /\ \A m \in 1..n : of[m - 1] = f[m - 1] => of[m] = f[m]
  <2>1. 0 \in 0..n /\ \A m \in 1..n : m \in 0..n /\ m # 0
    OBVIOUS
  <2>2. QED
    BY <1>5, <1>9, <2>1
<1>11. of[n] = f[n]
  BY <1>10, RecursionIsUnique
<1>12. QED
  BY <1>5, <1>8, <1>11 DEF S

LEMMA NothingRecord == Nothing \in Records
BY EmptySeq, CapacityAssumption DEF Nothing, Records

\* What is read of some lines, one line at a time, if each is added as a whole.
LEMMA ReadSteps ==
  ASSUME NEW n \in Nat, NEW s, \A i \in 1..n : s[i] \in Commands,
         \A h \in Records, c \in Commands : WithLine(h, c, Size - 1) = Added(h, c)
  PROVE  \E f : /\ f \in [0..n -> Records] /\ f[0] = Nothing
                /\ \A m \in 1..n : f[m] = Added(f[m - 1], s[m])
                /\ WithLines(Nothing, s, Size - 1, n) = f[n]
<1> DEFINE Is(h) == h = [m \in 0..n |-> IF m = 0 THEN Nothing
                                        ELSE WithLine(h[m - 1], s[m], Size - 1)]
           step == [p \in (1..n) \X Records |-> Added(p[2], s[p[1]])]
<1>1. \A h \in Records, c \in Commands : Added(h, c) \in Records
  BY AddedOK
<1>2. /\ step \in [(1..n) \X Records -> Records]
      /\ \A m \in 1..n, h \in Records : step[<<m, h>>] = Added(h, s[m])
  <2>1. \A p \in (1..n) \X Records : p[1] \in 1..n /\ p[2] \in Records
    OBVIOUS
  <2>2. \A p \in (1..n) \X Records : Added(p[2], s[p[1]]) \in Records
    BY <1>1, <2>1
  <2>3. \A m \in 1..n, h \in Records :
          <<m, h>> \in (1..n) \X Records /\ <<m, h>>[1] = m /\ <<m, h>>[2] = h
    OBVIOUS
  <2>4. QED
    BY <2>2, <2>3
<1> HIDE DEF step
<1>3. PICK f : Computes(f, Records, Nothing, step, n)
  BY <1>2, NothingRecord, RecursionExists
<1>4. /\ f \in [0..n -> Records] /\ f[0] = Nothing
      /\ \A m \in 1..n : f[m] = Added(f[m - 1], s[m])
  <2>1. \A m \in 1..n : m - 1 \in 0..n
    OBVIOUS
  <2>2. QED
    BY <1>2, <1>3, <2>1 DEF Computes
<1>5. \A m \in 1..n : f[m] = WithLine(f[m - 1], s[m], Size - 1)
  <2>1. \A m \in 1..n : m - 1 \in 0..n
    OBVIOUS
  <2>2. QED
    BY <1>4, <2>1
<1>6. Is(f)
  <2>1. \A m \in 0..n : m = 0 \/ m \in 1..n
    OBVIOUS
  <2>2. \A m \in 0..n : f[m] = IF m = 0 THEN Nothing ELSE WithLine(f[m - 1], s[m], Size - 1)
    BY <1>4, <1>5, <2>1
  <2>3. QED
    BY <1>4, <2>2
<1> DEFINE with == CHOOSE h : Is(h)
<1>7. Is(with)
  <2> HIDE DEF Is
  <2>1. QED
    BY <1>6
<1>8. WithLines(Nothing, s, Size - 1, n) = with[n]
  BY DEF WithLines
<1> HIDE DEF with
<1>9. \A m \in 0..n : with[m] = IF m = 0 THEN Nothing ELSE WithLine(with[m - 1], s[m], Size - 1)
  <2> DEFINE body(k) == IF k = 0 THEN Nothing ELSE WithLine(with[k - 1], s[k], Size - 1)
  <2>1. with = [k \in 0..n |-> body(k)]
    BY <1>7
  <2> HIDE DEF body
  <2>2. \A m \in 0..n : with[m] = body(m)
    BY <2>1
  <2>3. QED
    BY <2>2 DEF body
<1>10. with[0] = f[0] /\ \A m \in 1..n : with[m - 1] = f[m - 1] => with[m] = f[m]
  <2>1. 0 \in 0..n /\ \A m \in 1..n : m \in 0..n /\ m # 0
    OBVIOUS
  <2>2. QED
    BY <1>4, <1>5, <1>9, <2>1
<1>11. with[n] = f[n]
  BY <1>10, RecursionIsUnique
<1>12. QED
  BY <1>4, <1>8, <1>11

\* One piece, or two.
LEMMA OnePiece ==
  ASSUME NEW h, NEW p
  PROVE  WithPieces(h, p, 1) = Added(h, Cut(p[1]))
<1> DEFINE Is(f) == f = [m \in 0..1 |-> IF m = 0 THEN h ELSE Added(f[m - 1], Cut(p[m]))]
           f == [m \in 0..1 |-> IF m = 0 THEN h ELSE Added(h, Cut(p[1]))]
<1>1. Is(f)
  <2>1. ASSUME NEW m \in 0..1
        PROVE  f[m] = IF m = 0 THEN h ELSE Added(f[m - 1], Cut(p[m]))
    <3>1. CASE m = 0
      BY <3>1
    <3>2. CASE m = 1
      <4>1. f[m - 1] = h /\ f[m] = Added(h, Cut(p[1]))
        BY <3>2
      <4>2. QED
        BY <3>2, <4>1
    <3>3. QED
      BY <3>1, <3>2
  <2> HIDE DEF f
  <2>2. f = [m \in 0..1 |-> f[m]]
    BY DEF f
  <2>3. QED
    BY <2>1, <2>2
<1> DEFINE with == CHOOSE g : Is(g)
<1>2. Is(with)
  <2> HIDE DEF Is
  <2>1. QED
    BY <1>1
<1>3. WithPieces(h, p, 1) = with[1]
  BY DEF WithPieces
<1> HIDE DEF with
<1>4. \A m \in 0..1 : with[m] = IF m = 0 THEN h ELSE Added(with[m - 1], Cut(p[m]))
  <2> DEFINE body(k) == IF k = 0 THEN h ELSE Added(with[k - 1], Cut(p[k]))
  <2>1. with = [k \in 0..1 |-> body(k)]
    BY <1>2
  <2> HIDE DEF body
  <2>2. \A m \in 0..1 : with[m] = body(m)
    BY <2>1
  <2>3. QED
    BY <2>2 DEF body
<1>5. with[0] = h
  BY <1>4
<1>6. with[1] = Added(with[0], Cut(p[1]))
  BY <1>4
<1>7. QED
  BY <1>3, <1>5, <1>6

LEMMA TwoPieces ==
  ASSUME NEW h, NEW p
  PROVE  WithPieces(h, p, 2) = Added(Added(h, Cut(p[1])), Cut(p[2]))
<1> DEFINE Is(f) == f = [m \in 0..2 |-> IF m = 0 THEN h ELSE Added(f[m - 1], Cut(p[m]))]
           one == Added(h, Cut(p[1]))
           two == Added(one, Cut(p[2]))
           f == [m \in 0..2 |-> IF m = 0 THEN h ELSE IF m = 1 THEN one ELSE two]
<1>1. Is(f)
  <2>1. f[0] = h /\ f[1] = Added(f[0], Cut(p[1])) /\ f[2] = Added(f[1], Cut(p[2]))
    <3> HIDE DEF one, two
    <3>1. f[0] = h /\ f[1] = one /\ f[2] = two
      OBVIOUS
    <3> HIDE DEF f
    <3>2. QED
      BY <3>1 DEF one, two
  <2>2. f = [m \in 0..2 |-> f[m]]
    OBVIOUS
  <2> HIDE DEF f
  <2>3. ASSUME NEW m \in 0..2
        PROVE  f[m] = IF m = 0 THEN h ELSE Added(f[m - 1], Cut(p[m]))
    <3>1. m = 0 \/ (m = 1 /\ m - 1 = 0) \/ (m = 2 /\ m - 1 = 1)
      OBVIOUS
    <3>2. QED
      BY <2>1, <3>1
  <2>4. QED
    BY <2>2, <2>3
<1> DEFINE with == CHOOSE g : Is(g)
<1>2. Is(with)
  <2> HIDE DEF Is
  <2>1. QED
    BY <1>1
<1>3. WithPieces(h, p, 2) = with[2]
  BY DEF WithPieces
<1> HIDE DEF with
<1>4. \A m \in 0..2 : with[m] = IF m = 0 THEN h ELSE Added(with[m - 1], Cut(p[m]))
  <2> DEFINE body(k) == IF k = 0 THEN h ELSE Added(with[k - 1], Cut(p[k]))
  <2>1. with = [k \in 0..2 |-> body(k)]
    BY <1>2
  <2> HIDE DEF body
  <2>2. \A m \in 0..2 : with[m] = body(m)
    BY <2>1
  <2>3. QED
    BY <2>2 DEF body
<1>5. with[0] = h
  BY <1>4
<1>6. with[1] = Added(with[0], Cut(p[1]))
  BY <1>4
<1>7. with[2] = Added(with[1], Cut(p[2]))
  BY <1>4
<1>8. QED
  BY <1>3, <1>5, <1>6, <1>7

LEMMA Quotient ==
  ASSUME NEW m \in Nat, m > 0, NEW a \in Nat
  PROVE  /\ m <= a /\ a < 2 * m => a \div m = 1
         /\ a = 2 * m => a \div m = 2
<1> DEFINE q == a \div m
           r == a % m
<1>1. q \in Nat /\ r \in 0..(m - 1) /\ a = m * q + r
  OBVIOUS
<1> HIDE DEF q, r
<1>2. q = 0 => m * q = 0
  OBVIOUS
<1>3. q >= 2 => m * q >= 2 * m
  <2>1. SUFFICES ASSUME q >= 2 PROVE m * q >= 2 * m
    OBVIOUS
  <2>2. m * (q - 2) >= 0 /\ m * (q - 2) = m * q - m * 2
    BY <1>1, <2>1
  <2>3. QED
    BY <1>1, <2>2
<1>4. q >= 3 => m * q >= 3 * m
  <2>1. SUFFICES ASSUME q >= 3 PROVE m * q >= 3 * m
    OBVIOUS
  <2>2. m * (q - 3) >= 0 /\ m * (q - 3) = m * q - m * 3
    BY <1>1, <2>1
  <2>3. QED
    BY <1>1, <2>2
<1>5. q = 1 => m * q = m
  OBVIOUS
<1>6. q = 0 \/ q = 1 \/ q = 2 \/ q >= 3
  BY <1>1
<1>7. m <= a /\ a < 2 * m => q = 1
  BY <1>1, <1>2, <1>3, <1>6
<1>8. a = 2 * m => q = 2
  BY <1>1, <1>2, <1>4, <1>5, <1>6
<1>9. QED
  BY <1>7, <1>8 DEF q

\* fgets returns a line and its newline, or the newline of the longest line for itself;
\* either way it is read as it was written.
LEMMA LineRead ==
  ASSUME NEW h \in Records, NEW s \in Commands
  PROVE  WithLine(h, s, Size - 1) = Added(h, s)
<1> DEFINE m   == Size - 1
           n   == Len(s)
           all == Append(s, "newline")
           C   == Char \cup {"newline"}
           p   == Pieces(s, m)
           least(k) == IF k < Len(all) THEN k ELSE Len(all)
<1>1. s \in Seq(Char) /\ n \in 1..m /\ m \in Nat /\ m > 0 /\ s # <<>>
  BY CommandIsText, SizeAssumption
<1>2. s \in Seq(C)
  BY <1>1, SeqMonotonic
<1>3. /\ all \in Seq(C) /\ Len(all) = n + 1 /\ all[n + 1] = "newline"
      /\ \A i \in 1..n : all[i] = s[i]
  BY <1>2, AppendProperties
<1>4. \A i \in 1..n : s[i] \in Char /\ s[i] # "newline"
  BY <1>1, LenProperties, MarksAreNoChars
<1>5. \A i \in 1..(n + 1) : all[i] \in C
  BY <1>3, LenProperties
<1>6. p = [k \in 1..((Len(all) + m - 1) \div m) |->
             SubSeq(all, (k - 1) * m + 1, least(k * m))]
  BY DEF Pieces
<1> HIDE DEF p, all, n, m, C, least
<1>7. /\ SubSeq(all, 1, n) \in Seq(C) /\ Len(SubSeq(all, 1, n)) = n
      /\ \A i \in 1..n : SubSeq(all, 1, n)[i] = s[i]
  <2>1. n \in Int /\ 1 \in Int /\ 1 <= n /\ \A i \in 1..n : all[i] \in C
    BY <1>1, <1>5
  <2>2. /\ SubSeq(all, 1, n) \in Seq(C) /\ Len(SubSeq(all, 1, n)) = n - 1 + 1
        /\ \A i \in 1..(n - 1 + 1) : SubSeq(all, 1, n)[i] = all[1 + i - 1]
    BY <2>1, SubSeqProperties
  <2>3. n - 1 + 1 = n /\ \A i \in 1..n : 1 + i - 1 = i
    BY <1>1
  <2>4. QED
    BY <1>3, <2>2, <2>3
<1>8. SubSeq(all, 1, n) = s
  <2>1. Len(s) = n
    BY DEF n
  <2>2. QED
    BY <1>2, <1>7, <2>1, SeqEqual
<1>9. Cut(all) = s
  <2>1. Last(all) = "newline" /\ Front(all) = SubSeq(all, 1, n)
    <3>1. Len(all) - 1 = n
      BY <1>1, <1>3
    <3>2. QED
      BY <1>3, <3>1 DEF Last, Front
  <2>2. QED
    BY <1>8, <2>1 DEF Cut
<1>10. CASE n < m
  <2>1. (Len(all) + m - 1) \div m = 1
    <3>1. Len(all) + m - 1 \in Nat /\ m <= Len(all) + m - 1 /\ Len(all) + m - 1 < 2 * m
      BY <1>1, <1>3, <1>10
    <3>2. QED
      BY <1>1, <3>1, Quotient
  <2>2. Len(p) = 1 /\ p[1] = SubSeq(all, (1 - 1) * m + 1, least(1 * m))
    BY <1>6, <2>1
  <2>3. (1 - 1) * m + 1 = 1 /\ 1 * m = m
    BY <1>1
  <2>4. least(m) = Len(all)
    BY <1>1, <1>3, <1>10 DEF least
  <2>5. SubSeq(all, 1, Len(all)) = all
    BY <1>3, SubSeqFull
  <2>6. p[1] = all
    BY <2>2, <2>3, <2>4, <2>5
  <2>7. WithLine(h, s, m) = WithPieces(h, p, 1)
    BY <2>2 DEF WithLine, p
  <2>8. QED
    BY <1>9, <2>6, <2>7, OnePiece DEF m
<1>11. CASE n = m
  <2>1. (Len(all) + m - 1) \div m = 2
    <3>1. Len(all) + m - 1 \in Nat /\ Len(all) + m - 1 = 2 * m
      BY <1>1, <1>3, <1>11
    <3>2. QED
      BY <1>1, <3>1, Quotient
  <2>2. /\ Len(p) = 2 /\ p[1] = SubSeq(all, (1 - 1) * m + 1, least(1 * m))
        /\ p[2] = SubSeq(all, (2 - 1) * m + 1, least(2 * m))
    BY <1>6, <2>1
  <2>3. (1 - 1) * m + 1 = 1 /\ 1 * m = m /\ (2 - 1) * m + 1 = m + 1
    BY <1>1
  <2>4. least(m) = n /\ least(2 * m) = n + 1
    BY <1>1, <1>3, <1>11 DEF least
  <2>5. p[1] = s
    BY <1>8, <2>2, <2>3, <2>4
  <2>6. p[2] = SubSeq(all, n + 1, n + 1)
    BY <1>11, <2>2, <2>3, <2>4
  <2>7. Cut(s) = s
    <3>1. Last(s) = s[n]
      BY DEF Last, n
    <3>2. n \in 1..n
      BY <1>1
    <3>3. s[n] # "newline"
      BY <1>4, <3>2
    <3>4. QED
      BY <3>1, <3>3 DEF Cut
  <2>8. Cut(p[2]) = <<>>
    <3>1. /\ p[2] \in Seq(C) /\ Len(p[2]) = 1 /\ p[2][1] = "newline"
      <4>1. n + 1 \in Int /\ n + 1 <= n + 1 /\ \A i \in (n + 1)..(n + 1) : all[i] \in C
        BY <1>1, <1>5
      <4>2. /\ SubSeq(all, n + 1, n + 1) \in Seq(C)
            /\ Len(SubSeq(all, n + 1, n + 1)) = (n + 1) - (n + 1) + 1
            /\ \A i \in 1..((n + 1) - (n + 1) + 1) :
                 SubSeq(all, n + 1, n + 1)[i] = all[(n + 1) + i - 1]
        <5> DEFINE k == n + 1
        <5>1. k \in Int /\ k <= k /\ \A i \in k..k : all[i] \in C
          BY <4>1
        <5> HIDE DEF k
        <5>2. /\ SubSeq(all, k, k) \in Seq(C) /\ Len(SubSeq(all, k, k)) = k - k + 1
              /\ \A i \in 1..(k - k + 1) : SubSeq(all, k, k)[i] = all[k + i - 1]
          BY <5>1, SubSeqProperties
        <5>3. QED
          BY <5>2 DEF k
      <4>3. (n + 1) - (n + 1) + 1 = 1 /\ 1 \in 1..1 /\ (n + 1) + 1 - 1 = n + 1
        BY <1>1
      <4>4. SubSeq(all, n + 1, n + 1)[1] = all[n + 1]
        BY <4>2, <4>3
      <4>5. QED
        BY <1>3, <2>6, <4>2, <4>3, <4>4
    <3>2. Last(p[2]) = "newline" /\ Front(p[2]) = SubSeq(p[2], 1, 0)
      BY <3>1 DEF Last, Front
    <3>3. SubSeq(p[2], 1, 0) = <<>>
      BY SubSeqEmpty
    <3>4. QED
      BY <3>2, <3>3 DEF Cut
  <2>9. \A g : Added(g, <<>>) = g
    BY DEF Added
  <2>10. WithLine(h, s, m) = WithPieces(h, p, 2)
    BY <2>2 DEF WithLine, p
  <2>11. QED
    BY <2>5, <2>7, <2>8, <2>9, <2>10, TwoPieces DEF m
<1>12. QED
  BY <1>1, <1>10, <1>11

\* What is read from a file is the latest of its commands.
LEMMA ReadIsRecent ==
  ASSUME NEW s \in Seq(Commands)
  PROVE  Read(s) \in Records /\ Read(s).history = Latest(Distinct(s))
<1> DEFINE n == Len(s)
<1>1. n \in Nat /\ \A i \in 1..n : s[i] \in Commands
  BY LenProperties
<1>2. Read(s) = WithLines(Nothing, s, Size - 1, n) /\ Distinct(s) = DistinctOf(s, n)
  BY DEF Read, Distinct
<1> HIDE DEF n
<1>3. PICK f : /\ f \in [0..n -> Records] /\ f[0] = Nothing
               /\ \A m \in 1..n : f[m] = Added(f[m - 1], s[m])
               /\ WithLines(Nothing, s, Size - 1, n) = f[n]
  BY <1>1, ReadSteps, LineRead
<1>4. PICK g : /\ g \in [0..n -> Seq(Commands)] /\ g[0] = <<>>
               /\ \A m \in 1..n : g[m] = Unrepeated(g[m - 1], s[m])
               /\ DistinctOf(s, n) = g[n]
  BY <1>1, DistinctSteps
<1> DEFINE T == {m \in 0..n : f[m].history # Latest(g[m])}
<1>5. T = {}
  <2>1. SUFFICES ASSUME T # {} PROVE FALSE
    OBVIOUS
  <2>2. PICK m \in T : \A k \in T : m <= k
    <3>1. T \in SUBSET Nat
      OBVIOUS
    <3>2. QED
      BY <2>1, <3>1, Least
  <2>3. m # 0
    <3>1. Latest(<<>>) = <<>>
      <4>1. Len(<<>>) = 0 /\ Capacity \in Nat
        BY EmptySeq, CapacityAssumption
      <4>2. Latest(<<>>) = SubSeq(<<>>, 1, 0)
        BY <4>1 DEF Latest
      <4>3. QED
        BY <4>2, SubSeqEmpty
    <3>2. f[0].history = Latest(g[0])
      BY <1>3, <1>4, <3>1 DEF Nothing
    <3>3. QED
      BY <3>2
  <2>4. m \in 0..n /\ f[m].history # Latest(g[m])
    OBVIOUS
  <2>5. m \in 1..n /\ m - 1 \in 0..n /\ ~(m <= m - 1)
    BY <1>1, <2>3, <2>4
  <2>6. f[m - 1].history = Latest(g[m - 1])
    BY <2>2, <2>5
  <2>7. g[m - 1] \in Seq(Commands) /\ s[m] \in Commands
    BY <1>1, <1>4, <2>5
  <2>8. Added(f[m - 1], s[m]).history = Latest(Unrepeated(g[m - 1], s[m]))
    BY <2>6, <2>7, AddedToLatest
  <2>9. QED
    BY <1>3, <1>4, <2>4, <2>5, <2>8
<1>6. f[n].history = Latest(g[n]) /\ f[n] \in Records
  <2>1. n \in 0..n
    BY <1>1
  <2>2. QED
    BY <1>3, <1>5, <2>1
<1>7. QED
  BY <1>2, <1>3, <1>4, <1>6

LEMMA DistinctCommands ==
  ASSUME NEW s \in Seq(Commands)
  PROVE  Distinct(s) \in Seq(Commands)
<1>1. Len(s) \in Nat /\ \A i \in 1..Len(s) : s[i] \in Commands
  BY LenProperties
<1>2. \A n \in Nat : n = Len(s) => DistinctOf(s, n) \in Seq(Commands)
  <2>1. SUFFICES ASSUME NEW n \in Nat, n = Len(s) PROVE DistinctOf(s, n) \in Seq(Commands)
    OBVIOUS
  <2>2. \A i \in 1..n : s[i] \in Commands
    BY <1>1, <2>1
  <2>3. PICK f : f \in [0..n -> Seq(Commands)] /\ DistinctOf(s, n) = f[n]
    BY <2>2, DistinctSteps
  <2>4. n \in 0..n
    OBVIOUS
  <2>5. QED
    BY <2>3, <2>4
<1>3. QED
  BY <1>1, <1>2 DEF Distinct

\* One command more.
LEMMA DistinctAppend ==
  ASSUME NEW s \in Seq(Commands), NEW c \in Commands
  PROVE  Distinct(Append(s, c)) = Unrepeated(Distinct(s), c)
<1> DEFINE t == Append(s, c)
           n == Len(s)
<1>1. n \in Nat /\ \A i \in 1..n : s[i] \in Commands
  BY LenProperties
<1>2. /\ t \in Seq(Commands) /\ Len(t) = n + 1 /\ t[n + 1] = c
      /\ \A i \in 1..n : t[i] = s[i]
  BY AppendProperties
<1>3. \A i \in 1..(n + 1) : t[i] \in Commands
  BY <1>2, ElementOfSeq
<1>4. Distinct(s) = DistinctOf(s, n) /\ Distinct(t) = DistinctOf(t, n + 1)
  <2> HIDE DEF t
  <2>1. QED
    BY <1>2 DEF Distinct
<1>5. t[n + 1] = c /\ \A i \in 1..n : t[i] = s[i]
  BY <1>2
<1> HIDE DEF t, n
<1>6. PICK f : /\ f \in [0..n -> Seq(Commands)] /\ f[0] = <<>>
               /\ \A m \in 1..n : f[m] = Unrepeated(f[m - 1], s[m])
               /\ DistinctOf(s, n) = f[n]
  BY <1>1, DistinctSteps
<1>7. PICK g : /\ g \in [0..(n + 1) -> Seq(Commands)] /\ g[0] = <<>>
               /\ \A m \in 1..(n + 1) : g[m] = Unrepeated(g[m - 1], t[m])
               /\ DistinctOf(t, n + 1) = g[n + 1]
  <2>1. n + 1 \in Nat
    BY <1>1
  <2>2. QED
    BY <1>3, <2>1, DistinctSteps
<1>8. f[0] = g[0] /\ \A m \in 1..n : f[m - 1] = g[m - 1] => f[m] = g[m]
  <2>1. \A m \in 1..n : m \in 1..(n + 1)
    BY <1>1
  <2>2. QED
    BY <1>5, <1>6, <1>7, <2>1
<1>9. f[n] = g[n]
  <2> DEFINE T == {m \in 0..n : f[m] = g[m]}
  <2>1. 0 \in T
    BY <1>1, <1>8
  <2>2. ASSUME NEW m \in 1..n, m - 1 \in T PROVE m \in T
    <3>1. f[m] = g[m]
      BY <1>8, <2>2
    <3>2. QED
      BY <1>1, <3>1
  <2> HIDE DEF T
  <2>3. n \in T
    BY <1>1, <2>1, <2>2, Upwards
  <2>4. QED
    BY <2>3 DEF T
<1>10. g[n + 1] = Unrepeated(g[n], c)
  <2>1. n + 1 \in 1..(n + 1) /\ (n + 1) - 1 = n
    BY <1>1
  <2>2. QED
    BY <1>5, <1>7, <2>1
<1>11. QED
  BY <1>4, <1>6, <1>7, <1>9, <1>10 DEF t

LEMMA NothingIsRecent == Latest(Distinct(<<>>)) = <<>> /\ <<>> \in Seq(Commands)
<1>1. Distinct(<<>>) = DistinctOf(<<>>, 0)
  BY EmptySeq DEF Distinct
<1>2. DistinctOf(<<>>, 0) = <<>>
  <2>1. PICK f : f[0] = <<>> /\ DistinctOf(<<>>, 0) = f[0]
    <3>1. 0 \in Nat /\ \A i \in 1..0 : <<>>[i] \in Commands
      OBVIOUS
    <3>2. QED
      BY <3>1, DistinctSteps
  <2>2. QED
    BY <2>1
<1>3. Latest(<<>>) = <<>>
  <2>1. Len(<<>>) = 0 /\ Capacity \in Nat
    BY EmptySeq, CapacityAssumption
  <2>2. Latest(<<>>) = SubSeq(<<>>, 1, 0)
    BY <2>1 DEF Latest
  <2>3. QED
    BY <2>2, SubSeqEmpty
<1>4. QED
  BY <1>1, <1>2, <1>3, EmptySeq

-----------------------------------------------------------------------------
(* The invariant.                                                          *)

LineOK ==
  /\ running \in BOOLEAN /\ editing \in BOOLEAN /\ (editing => running)
  /\ buffer \in Buffers /\ cursor \in 0..strlen(buffer)

\* The file holds commands that were lines: none is empty, none too long to be read back.
HistoryOK ==
  /\ [history |-> history, current |-> current] \in Records
  /\ log \in Seq(Commands) /\ file \in Seq(Commands)
  /\ HistoryIsRecent

CInv == LineOK /\ HistoryOK

\* What the editing of the line leaves alone.
LEMMA EditedKeeps ==
  ASSUME LineOK, NEW b, NEW c, Edited(b, c), b \in Buffers, c \in 0..strlen(b)
  PROVE  LineOK'
BY DEF LineOK, Edited

LEMMA EnteredIsCommand ==
  ASSUME NEW s \in Entered
  PROVE  s \in Commands
BY EnteredAssumption DEF Commands

LEMMA NoLongLine ==
  ASSUME LineOK
  PROVE  strlen(buffer) \in Nat /\ cursor \in Nat /\ cursor <= strlen(buffer)
BY LineChars DEF LineOK

LEMMA InsertKeeps ==
  ASSUME LineOK, NEW c \in Char, Insert(c)
  PROVE  LineOK'
<1> DEFINE n == strlen(buffer)
           b == [memmove(buffer, cursor + 1, cursor, n - cursor + 1) EXCEPT ![cursor] = c]
<1>1. Edited(b, cursor + 1) /\ n < Size - 1
  BY DEF Insert
<1>2. b \in Buffers /\ strlen(b) = n + 1
  BY <1>1, Inserted DEF LineOK
<1>3. n \in Nat /\ cursor \in 0..n
  BY NoLongLine
<1> HIDE DEF b, n
<1>4. cursor + 1 \in 0..strlen(b)
  BY <1>2, <1>3
<1>5. QED
  BY <1>1, <1>2, <1>4, EditedKeeps

\* Backspace, and the deletion of a word.
LEMMA TakeOutKeeps ==
  ASSUME LineOK, NEW i \in 0..cursor,
         Edited(memmove(buffer, i, cursor, strlen(buffer) - cursor + 1), i)
  PROVE  LineOK'
<1> DEFINE n == strlen(buffer)
           b == memmove(buffer, i, cursor, n - cursor + 1)
<1>1. b \in Buffers /\ strlen(b) = n - (cursor - i)
  BY TakenOut DEF LineOK
<1>2. n \in Nat /\ cursor \in 0..n
  BY NoLongLine
<1>3. Edited(b, i)
  OBVIOUS
<1> HIDE DEF b, n
<1>4. i \in 0..strlen(b)
  BY <1>1, <1>2
<1>5. QED
  BY <1>1, <1>3, <1>4, EditedKeeps

LEMMA BackspaceKeeps ==
  ASSUME LineOK, Backspace
  PROVE  LineOK'
<1>1. cursor - 1 \in 0..cursor
  BY NoLongLine DEF Backspace
<1>2. QED
  BY <1>1, TakeOutKeeps DEF Backspace

LEMMA DeleteWordKeeps ==
  ASSUME LineOK, DeleteWord
  PROVE  LineOK'
<1>1. cursor \in Nat
  BY NoLongLine
<1>2. SpacesBefore \in 0..cursor /\ WordBefore \in 0..SpacesBefore
  BY <1>1, WordStart
<1>3. WordBefore \in 0..cursor
  BY <1>1, <1>2
<1>4. QED
  BY <1>3, TakeOutKeeps DEF DeleteWord

\* The whole line is another one, with the cursor at its end.
LEMMA ReplaceKeeps ==
  ASSUME LineOK, NEW b \in Buffers, buffer' = b, cursor' = strlen(b),
         UNCHANGED <<running, editing>>
  PROVE  LineOK'
<1>1. strlen(b) \in 0..strlen(b)
  BY LineChars
<1>2. QED
  BY <1>1 DEF LineOK

\* The lines that Complete, Previous and Following put into the buffer.
LEMMA ReplacedBy ==
  ASSUME CInv, Complete \/ Previous \/ Following
  PROVE  \E b \in Buffers : /\ buffer' = b /\ cursor' = strlen(b)
                            /\ UNCHANGED <<running, editing>> /\ editing
<1>1. buffer \in Buffers
  BY DEF CInv, LineOK
<1>2. CASE Complete
  <2>1. PICK name \in Names : Recalled(name) /\ editing
    BY <1>2 DEF Complete
  <2>2. strncpy(buffer, name) \in Buffers
    BY <1>1, NamesAssumption, Copied
  <2>3. QED
    BY <2>1, <2>2 DEF Recalled, Edited
<1>3. history \in Seq(Commands) /\ current \in Nat /\ current <= Len(history) /\ Len(history) \in Nat
  BY LenProperties DEF CInv, HistoryOK, Records
<1>4. ASSUME NEW k \in 1..Len(history)
      PROVE  strncpy(buffer, history[k]) \in Buffers
  <2>1. history[k] \in Commands
    BY <1>3, ElementOfSeq
  <2>2. history[k] \in Seq(Char)
    BY <2>1, CommandIsText
  <2>3. QED
    BY <1>1, <2>2, Copied
<1>5. CASE Previous
  <2>1. current \in 1..Len(history)
    BY <1>3, <1>5 DEF Previous
  <2>2. strncpy(buffer, history[current]) \in Buffers
    BY <1>4, <2>1
  <2>3. QED
    BY <1>5, <2>2 DEF Previous, Shown
<1>6. CASE Following
  <2>1. current + 1 < Len(history) => current + 2 \in 1..Len(history)
    BY <1>3
  <2> DEFINE b == IF current + 1 < Len(history) THEN strncpy(buffer, history[current + 2])
                  ELSE Empty
  <2>2. b \in Buffers
    BY <1>4, <2>1, EmptyLine
  <2>3. Shown(current + 1, b) /\ editing
    BY <1>6 DEF Following
  <2> HIDE DEF b
  <2>4. QED
    BY <2>2, <2>3 DEF Shown
<1>7. QED
  BY <1>2, <1>5, <1>6

LEMMA EmptiedKeeps ==
  ASSUME LineOK, Emptied, running' \in BOOLEAN
  PROVE  LineOK'
<1>1. 0 \in 0..strlen(Empty)
  BY EmptyLine
<1>2. editing' = FALSE /\ buffer' = Empty /\ cursor' = 0
  BY DEF Emptied
<1>3. QED
  BY <1>1, <1>2, EmptyLine DEF LineOK

LEMMA LineKeeps == CInv /\ [Next]_commandVars => LineOK'
<1> SUFFICES ASSUME CInv, [Next]_commandVars PROVE LineOK'
  OBVIOUS
<1> USE DEF CInv
<1>1. running \in BOOLEAN /\ editing \in BOOLEAN /\ (editing => running)
  BY DEF LineOK
<1>2. CASE Open
  <2>1. 0 \in 0..strlen(Empty)
    BY EmptyLine
  <2>2. QED
    BY <1>1, <1>2, <2>1, EmptyLine DEF Open, LineOK
<1>3. CASE Cancel \/ EnterNothing
  BY <1>1, <1>3, EmptiedKeeps DEF Cancel, EnterNothing
<1>4. CASE \E c \in Char : Insert(c)
  BY <1>4, InsertKeeps
<1>5. CASE Backspace
  BY <1>5, BackspaceKeeps
<1>6. CASE MoveCursor
  <2>1. PICK to : to \in 0..strlen(buffer) /\ Edited(buffer, to)
    BY <1>6 DEF MoveCursor, Move
  <2>2. buffer \in Buffers
    BY DEF LineOK
  <2>3. QED
    BY <2>1, <2>2, EditedKeeps
<1>7. CASE Clear
  <2>1. Empty \in Buffers /\ 0 \in 0..strlen(Empty)
    BY EmptyLine
  <2>2. QED
    BY <1>7, <2>1, EditedKeeps DEF Clear
<1>8. CASE DeleteWord
  BY <1>8, DeleteWordKeeps
<1>9. CASE Complete \/ Previous \/ Following
  <2>1. PICK b \in Buffers : /\ buffer' = b /\ cursor' = strlen(b)
                             /\ UNCHANGED <<running, editing>>
    BY <1>9, ReplacedBy
  <2>2. QED
    BY <2>1, ReplaceKeeps
<1>10. CASE Enter
  <2>1. UNCHANGED running /\ (Emptied \/ UNCHANGED lineVars)
    BY <1>10 DEF Enter
  <2>2. CASE Emptied
    BY <1>1, <2>1, <2>2, EmptiedKeeps
  <2>3. CASE UNCHANGED lineVars
    BY <2>1, <2>3 DEF LineOK, lineVars
  <2>4. QED
    BY <2>1, <2>2, <2>3
<1>11. CASE Quit \/ Crash
  BY <1>11, EmptiedKeeps DEF Quit, Crash, Off
<1>12. CASE Start
  BY <1>1, <1>12 DEF Start, LineOK, lineVars
<1>13. CASE OtherQuits
  BY <1>13 DEF OtherQuits, LineOK, lineVars
<1>14. CASE UNCHANGED commandVars
  BY <1>14 DEF commandVars, lineVars, LineOK
<1>15. QED
  BY <1>2, <1>3, <1>4, <1>5, <1>6, <1>7, <1>8, <1>9, <1>10, <1>11, <1>12, <1>13, <1>14 DEF Next

\* The history and its file stay as they are.
LEMMA HistoryStays ==
  ASSUME HistoryOK, UNCHANGED <<history, log, file>>, current' \in 0..Len(history)
  PROVE  HistoryOK'
<1>1. Len(history) \in Nat
  BY LenProperties DEF HistoryOK, Records
<1>2. [history |-> history, current |-> current'] \in Records
  BY <1>1 DEF HistoryOK, Records
<1>3. QED
  BY <1>2 DEF HistoryOK, HistoryIsRecent

LEMMA HistoryFacts ==
  ASSUME HistoryOK
  PROVE  /\ history \in Seq(Commands) /\ Len(history) \in Nat /\ Len(history) <= Capacity
         /\ current \in 0..Len(history) /\ log \in Seq(Commands) /\ file \in Seq(Commands)
<1>1. history \in Seq(Commands) /\ Len(history) <= Capacity
      /\ current \in Nat /\ current <= Len(history)
  BY DEF HistoryOK, Records
<1>2. QED
  BY <1>1, LenProperties DEF HistoryOK

LEMMA EnterKeeps ==
  ASSUME HistoryOK, Enter
  PROVE  HistoryOK'
<1> DEFINE h == [history |-> history, current |-> current]
           added == Added(h, Line)
<1>1. Line \in Commands
  BY EnteredIsCommand DEF Enter
<1>2. history' = added.history /\ current' = added.current /\ log' = Append(log, Line)
      /\ file' = file
  BY DEF Enter
<1>3. h \in Records /\ log \in Seq(Commands) /\ file \in Seq(Commands)
      /\ h.history = Latest(Distinct(log))
  BY DEF HistoryOK, HistoryIsRecent
<1> HIDE DEF h
<1>4. added \in Records
  BY <1>1, <1>3, AddedOK
<1>5. Append(log, Line) \in Seq(Commands)
  BY <1>1, <1>3, AppendProperties
<1>6. added.history = Latest(Unrepeated(Distinct(log), Line))
  BY <1>1, <1>3, DistinctCommands, AddedToLatest
<1>7. Distinct(Append(log, Line)) = Unrepeated(Distinct(log), Line)
  BY <1>1, <1>3, DistinctAppend
<1> HIDE DEF added
<1>8. [history |-> history', current |-> current'] = added
  BY <1>2, <1>4 DEF Records
<1>9. HistoryIsRecent'
  BY <1>2, <1>6, <1>7 DEF HistoryIsRecent
<1>10. QED
  BY <1>2, <1>3, <1>4, <1>5, <1>8, <1>9 DEF HistoryOK

LEMMA OffKeeps ==
  ASSUME HistoryOK, Off, file' \in Seq(Commands)
  PROVE  HistoryOK'
<1>1. history' = <<>> /\ current' = 0 /\ log' = <<>>
  BY DEF Off
<1>2. [history |-> <<>>, current |-> 0] \in Records
  BY NothingRecord DEF Nothing
<1>3. HistoryIsRecent'
  BY <1>1, NothingIsRecent DEF HistoryIsRecent
<1>4. QED
  BY <1>1, <1>2, <1>3, NothingIsRecent DEF HistoryOK

LEMMA HistoryKeeps == CInv /\ [Next]_commandVars => HistoryOK'
<1> SUFFICES ASSUME CInv, [Next]_commandVars PROVE HistoryOK'
  OBVIOUS
<1> USE DEF CInv
<1>1. /\ history \in Seq(Commands) /\ Len(history) \in Nat /\ Len(history) <= Capacity
      /\ current \in 0..Len(history) /\ log \in Seq(Commands) /\ file \in Seq(Commands)
  BY HistoryFacts
<1>2. CASE Open
  <2>1. Len(history) \in 0..Len(history)
    BY <1>1
  <2>2. QED
    BY <1>2, <2>1, HistoryStays DEF Open
<1>3. CASE Cancel \/ EnterNothing
  BY <1>1, <1>3, HistoryStays DEF Cancel, EnterNothing, historyVars
<1>4. CASE \/ \E c \in Char : Insert(c)
           \/ Backspace \/ MoveCursor \/ Clear \/ DeleteWord \/ Complete
  <2>1. UNCHANGED <<historyVars, file>>
    BY <1>4 DEF Insert, Backspace, MoveCursor, Move, Clear, DeleteWord, Complete, Recalled, Edited
  <2>2. QED
    BY <1>1, <2>1, HistoryStays DEF historyVars
<1>5. CASE Previous
  <2>1. current - 1 \in 0..Len(history)
    BY <1>1, <1>5 DEF Previous
  <2>2. QED
    BY <1>5, <2>1, HistoryStays DEF Previous, Shown
<1>6. CASE Following
  <2>1. current + 1 \in 0..Len(history)
    BY <1>1, <1>6 DEF Following
  <2>2. UNCHANGED <<history, log, file>> /\ current' = current + 1
    BY <1>6 DEF Following, Shown
  <2>3. QED
    BY <2>1, <2>2, HistoryStays
<1>7. CASE Enter
  BY <1>7, EnterKeeps
<1>8. CASE Quit
  BY <1>1, <1>8, OffKeeps DEF Quit
<1>9. CASE Crash
  <2>1. ASSUME NEW n \in 0..Len(history) PROVE SubSeq(history, 1, n) \in Seq(Commands)
    <3>1. n \in Int /\ \A i \in 1..n : history[i] \in Commands
      BY <1>1, ElementOfSeq
    <3>2. QED
      BY <3>1, SubSeqProperties
  <2>2. file' \in Seq(Commands)
    BY <1>1, <1>9, <2>1 DEF Crash
  <2>3. QED
    BY <1>9, <2>2, OffKeeps DEF Crash
<1>10. CASE Start
  <2>1. Read(file) \in Records /\ Read(file).history = Latest(Distinct(file))
    BY <1>1, ReadIsRecent
  <2>2. history' = Read(file).history /\ current' = Read(file).current /\ log' = file
        /\ file' = file
    BY <1>10 DEF Start
  <2>3. [history |-> history', current |-> current'] \in Records
    BY <2>1, <2>2 DEF Records
  <2>4. QED
    BY <1>1, <2>1, <2>2, <2>3 DEF HistoryOK, HistoryIsRecent
<1>11. CASE OtherQuits
  <2>1. file' \in UNION {[1..n -> Entered] : n \in 0..Capacity}
    BY <1>11 DEF OtherQuits, Histories
  <2>2. file' \in Seq(Entered)
    BY <2>1, CapacityAssumption
  <2>3. Entered \subseteq Commands
    BY EnteredIsCommand
  <2>4. file' \in Seq(Commands)
    BY <2>2, <2>3, SeqMonotonic
  <2>5. UNCHANGED <<history, current, log>>
    BY <1>11 DEF OtherQuits, historyVars
  <2>6. QED
    BY <2>4, <2>5 DEF HistoryOK, HistoryIsRecent
<1>12. CASE UNCHANGED commandVars
  BY <1>12 DEF commandVars, historyVars, HistoryOK, HistoryIsRecent
<1>13. QED
  BY <1>2, <1>3, <1>4, <1>5, <1>6, <1>7, <1>8, <1>9, <1>10, <1>11, <1>12 DEF Next

LEMMA CommandInitOK == Init => CInv
<1> SUFFICES ASSUME Init PROVE CInv
  OBVIOUS
<1>1. 0 \in 0..strlen(Empty)
  BY EmptyLine
<1>2. LineOK
  BY <1>1, EmptyLine DEF Init, LineOK
<1>3. [history |-> <<>>, current |-> 0] \in Records
  BY NothingRecord DEF Nothing
<1>4. HistoryOK
  BY <1>3, NothingIsRecent DEF Init, HistoryOK, HistoryIsRecent
<1>5. QED
  BY <1>2, <1>4 DEF CInv

(***************************************************************************)
(* What the properties need of every reachable state.                      *)
(***************************************************************************)
THEOREM CommandInvariant == Spec => []CInv
<1>1. CInv /\ [Next]_commandVars => CInv'
  BY LineKeeps, HistoryKeeps DEF CInv
<1>2. QED
  BY <1>1, CommandInitOK, PTL DEF Spec

(***************************************************************************)
(* The buffer always ends in a NUL and the cursor is inside the line, for  *)
(* every size of the buffer and after every key; the history keeps within  *)
(* its capacity, and what is shown of it within the history.               *)
(***************************************************************************)
THEOREM CommandTypes == Spec => []CommandTypeOK
<1>1. CInv => CommandTypeOK
  <2> SUFFICES ASSUME CInv PROVE CommandTypeOK
    OBVIOUS
  <2>1. Len(history) <= Capacity /\ current \in 0..Len(history)
    BY HistoryFacts DEF CInv
  <2>2. LineOK
    BY DEF CInv
  <2>3. buffer \in [Index -> Char \cup {NUL}] /\ buffer[Size - 1] = NUL
    BY <2>2 DEF LineOK, Buffers
  <2>4. QED
    BY <2>1, <2>2, <2>3 DEF CommandTypeOK, LineOK
<1>2. QED
  BY <1>1, CommandInvariant, PTL

(***************************************************************************)
(* The history is that of the latest commands, of the file and entered     *)
(* since, repetitions counting once, after any number of multiplexers that *)
(* end or are killed, and with a line as long as the buffer among them.    *)
(***************************************************************************)
THEOREM CommandsRemembered == Spec => []HistoryIsRecent
<1>1. CInv => HistoryIsRecent
  BY DEF CInv, HistoryOK
<1>2. QED
  BY <1>1, CommandInvariant, PTL

-----------------------------------------------------------------------------
(* A line editor.                                                          *)

\* The text of b from place c to the end of the line.
From(b, c) == [i \in 1..(strlen(b) - c) |-> b[c + i - 1]]

LEMMA PartIsText ==
  ASSUME NEW b, NEW c \in Nat, NEW n \in Nat, \A k \in c..(c + n - 1) : b[k] \in Char
  PROVE  LET t == [i \in 1..n |-> b[c + i - 1]]
         IN  t \in Seq(Char) /\ Len(t) = n /\ \A i \in 1..n : t[i] = b[c + i - 1]
<1> DEFINE t == [i \in 1..n |-> b[c + i - 1]]
<1>1. \A i \in 1..n : c + i - 1 \in c..(c + n - 1)
  OBVIOUS
<1>2. t \in [1..n -> Char] /\ \A i \in 1..n : t[i] = b[c + i - 1]
  BY <1>1
<1> HIDE DEF t
<1>3. t \in Seq(Char) /\ Len(t) = n
  BY <1>2
<1>4. QED
  BY <1>2, <1>3 DEF t

\* The texts before and after the cursor, and their characters.
LEMMA Texts ==
  ASSUME NEW b \in Buffers, NEW c \in 0..strlen(b)
  PROVE  /\ Upto(b, c) \in Seq(Char) /\ Len(Upto(b, c)) = c
         /\ \A i \in 1..c : Upto(b, c)[i] = b[i - 1]
         /\ From(b, c) \in Seq(Char) /\ Len(From(b, c)) = strlen(b) - c
         /\ \A i \in 1..(strlen(b) - c) : From(b, c)[i] = b[c + i - 1]
<1> DEFINE n == strlen(b)
<1>1. n \in Nat /\ \A k \in 0..(n - 1) : b[k] \in Char
  BY LineChars
<1> HIDE DEF n
<1>2. c \in Nat /\ n - c \in Nat /\ c <= n
  BY <1>1 DEF n
<1>3. /\ \A k \in 0..(0 + c - 1) : b[k] \in Char
      /\ \A k \in c..(c + (n - c) - 1) : b[k] \in Char
  BY <1>1, <1>2
<1> DEFINE u == [i \in 1..c |-> b[0 + i - 1]]
           f == [i \in 1..(n - c) |-> b[c + i - 1]]
<1>4. u \in Seq(Char) /\ Len(u) = c /\ \A i \in 1..c : u[i] = b[0 + i - 1]
  <2>1. \A i \in 1..c : 0 + i - 1 \in 0..(0 + c - 1)
    BY ONLY <1>2
  <2>2. u \in [1..c -> Char] /\ \A i \in 1..c : u[i] = b[0 + i - 1]
    BY <1>3, <2>1
  <2> HIDE DEF u
  <2>3. u \in Seq(Char) /\ Len(u) = c
    BY ONLY <1>2, <2>2
  <2>4. QED
    BY <2>2, <2>3
<1>5. /\ f \in Seq(Char) /\ Len(f) = n - c
      /\ \A i \in 1..(n - c) : f[i] = b[c + i - 1]
  BY ONLY <1>2, <1>3, PartIsText
<1>6. Upto(b, c) = u
  <2>1. \A i \in 1..c : 0 + i - 1 = i - 1
    OBVIOUS
  <2>2. QED
    BY <2>1 DEF Upto
<1>7. From(b, c) = f
  BY DEF From, n
<1>8. \A i \in 1..c : 0 + i - 1 = i - 1
  OBVIOUS
<1> HIDE DEF u, f
<1>9. \A i \in 1..c : u[i] = b[i - 1]
  BY ONLY <1>4, <1>8
<1>10. QED
  BY ONLY <1>4, <1>5, <1>6, <1>7, <1>9 DEF n

\* What stays the same when the buffer changes.
LEMMA SameBefore ==
  ASSUME NEW b, NEW b1, NEW c \in Nat, \A k \in 0..(c - 1) : b1[k] = b[k]
  PROVE  Upto(b1, c) = Upto(b, c)
<1>1. \A i \in 1..c : i - 1 \in 0..(c - 1)
  OBVIOUS
<1>2. QED
  BY <1>1 DEF Upto

LEMMA SameAfter ==
  ASSUME NEW b, NEW b1, NEW c \in Nat, NEW c1 \in Nat, strlen(b) \in Nat,
         strlen(b1) - c1 = strlen(b) - c,
         \A k \in c..(strlen(b) - 1) : b1[k - c + c1] = b[k]
  PROVE  From(b1, c1) = From(b, c)
<1>1. \A i \in 1..(strlen(b) - c) :
        c + i - 1 \in c..(strlen(b) - 1) /\ c + i - 1 - c + c1 = c1 + i - 1
  OBVIOUS
<1>2. \A i \in 1..(strlen(b) - c) : b1[c1 + i - 1] = b[c + i - 1]
  BY <1>1
<1>3. QED
  BY <1>2 DEF From

\* What is typed goes in at the cursor.
LEMMA InsertIsInsert ==
  ASSUME LineOK, NEW ch \in Char, Insert(ch)
  PROVE  Editor!Insert(ch)
<1> DEFINE n == strlen(buffer)
           c == cursor
           b1 == [memmove(buffer, c + 1, c, n - c + 1) EXCEPT ![c] = ch]
<1>1. buffer \in Buffers /\ c \in 0..n /\ n < Size - 1
  BY DEF LineOK, Insert
<1>2. n \in Nat /\ c \in Nat /\ c <= n
  BY NoLongLine
<1>3. /\ b1 \in Buffers /\ strlen(b1) = n + 1
      /\ \A k \in 0..(c - 1) : b1[k] = buffer[k]
      /\ b1[c] = ch
      /\ \A k \in c..(n - 1) : b1[k + 1] = buffer[k]
  BY <1>1, Inserted
<1>4. editing /\ editing' = editing /\ buffer' = b1 /\ cursor' = c + 1
  BY DEF Insert, Edited
<1> HIDE DEF b1, n, c
<1>5. /\ Upto(buffer, c) \in Seq(Char) /\ Len(Upto(buffer, c)) = c
      /\ \A i \in 1..c : Upto(buffer, c)[i] = buffer[i - 1]
      /\ Len(From(buffer, c)) = n - c
  BY <1>1, Texts DEF n
<1>6. c + 1 \in 0..strlen(b1) /\ c + 1 \in Nat
  BY <1>2, <1>3
<1>7. /\ Upto(b1, c + 1) \in Seq(Char) /\ Len(Upto(b1, c + 1)) = c + 1
      /\ \A i \in 1..(c + 1) : Upto(b1, c + 1)[i] = b1[i - 1]
  BY <1>3, <1>6, Texts
<1>8. Upto(b1, c + 1) = Append(Upto(buffer, c), ch)
  <2> DEFINE t == Upto(buffer, c)
             a == Append(t, ch)
             u == Upto(b1, c + 1)
  <2>1. /\ a \in Seq(Char) /\ Len(a) = c + 1 /\ a[c + 1] = ch
        /\ \A i \in 1..c : a[i] = buffer[i - 1]
    BY <1>5, AppendProperties
  <2>2. \A i \in 1..c : b1[i - 1] = buffer[i - 1]
    <3>1. \A i \in 1..c : i - 1 \in 0..(c - 1)
      BY <1>2
    <3>2. QED
      BY <1>3, <3>1
  <2>3. (c + 1) - 1 = c /\ \A i \in 1..(c + 1) : i \in 1..c \/ i = c + 1
    BY <1>2
  <2>4. \A i \in 1..(c + 1) : u[i] = a[i]
    BY <1>3, <1>7, <2>1, <2>2, <2>3
  <2> HIDE DEF a, u
  <2>5. u = a
    BY <1>7, <2>1, <2>4, SeqEqual DEF u
  <2>6. QED
    BY <2>5 DEF a, u
<1>9. From(b1, c + 1) = From(buffer, c)
  <2>1. strlen(b1) - (c + 1) = strlen(buffer) - c /\ strlen(buffer) \in Nat
    BY <1>2, <1>3 DEF n
  <2>2. \A k \in c..(strlen(buffer) - 1) : b1[k - c + (c + 1)] = buffer[k]
    <3>1. \A k \in c..(n - 1) : k - c + (c + 1) = k + 1
      BY <1>2
    <3>2. QED
      BY <1>3, <3>1 DEF n
  <2>3. QED
    BY <1>2, <1>6, <2>1, <2>2, SameAfter
<1>10. Len(Upto(buffer, c)) + Len(From(buffer, c)) < Size - 1
  <2>1. Size \in Nat
    BY SizeAssumption
  <2>2. QED
    BY <1>1, <1>2, <1>5, <2>1
<1>11. QED
  BY <1>4, <1>8, <1>9, <1>10 DEF Editor!Insert, From, c

\* What Backspace and the deletion of a word take out comes from before the cursor.
LEMMA TakeOutIsCut ==
  ASSUME LineOK, NEW i \in 0..cursor,
         Edited(memmove(buffer, i, cursor, strlen(buffer) - cursor + 1), i)
  PROVE  /\ Upto(buffer, cursor)' = SubSeq(Upto(buffer, cursor), 1, i)
         /\ From(buffer, cursor)' = From(buffer, cursor)
         /\ editing' = editing
<1> DEFINE n == strlen(buffer)
           c == cursor
           b1 == memmove(buffer, i, c, n - c + 1)
<1>1. buffer \in Buffers /\ c \in 0..n
  BY DEF LineOK
<1>2. n \in Nat /\ c \in Nat /\ c <= n
  BY NoLongLine
<1>3. /\ b1 \in Buffers /\ strlen(b1) = n - (c - i)
      /\ \A k \in 0..(i - 1) : b1[k] = buffer[k]
      /\ \A k \in c..(n - 1) : b1[k - (c - i)] = buffer[k]
  BY <1>1, TakenOut
<1>4. editing' = editing /\ buffer' = b1 /\ cursor' = i
  BY DEF Edited
<1>5. i \in Nat /\ i <= c
  BY <1>2
<1> HIDE DEF b1, n, c
<1>6. /\ Upto(buffer, c) \in Seq(Char) /\ Len(Upto(buffer, c)) = c
      /\ \A j \in 1..c : Upto(buffer, c)[j] = buffer[j - 1]
  BY <1>1, Texts DEF n
<1>7. Upto(b1, i) = Upto(buffer, i)
  BY <1>3, <1>5, SameBefore
<1>8. Upto(buffer, i) = SubSeq(Upto(buffer, c), 1, i)
  <2> DEFINE t == Upto(buffer, c)
             u == Upto(buffer, i)
             v == SubSeq(t, 1, i)
  <2>1. i \in 0..strlen(buffer)
    BY <1>2, <1>5 DEF n
  <2>2. /\ u \in Seq(Char) /\ Len(u) = i
        /\ \A j \in 1..i : u[j] = buffer[j - 1]
    BY <1>1, <2>1, Texts
  <2>3. i \in Int /\ 1 \in Int /\ \A j \in 1..i : j \in 1..c /\ t[j] \in Char
    <3>1. \A j \in 1..i : j \in 1..c
      BY <1>2, <1>5
    <3>2. QED
      BY <1>5, <1>6, <3>1, ElementOfSeq
  <2> HIDE DEF t, u
  <2>4. /\ v \in Seq(Char) /\ Len(v) = IF 1 <= i THEN i - 1 + 1 ELSE 0
        /\ \A j \in 1..(i - 1 + 1) : v[j] = t[1 + j - 1]
    BY <2>3, SubSeqProperties
  <2>5. /\ i - 1 + 1 = i /\ (~(1 <= i) => i = 0)
        /\ \A j \in 1..i : 1 + j - 1 = j
    BY <1>5
  <2> HIDE DEF v
  <2>6. Len(v) = i /\ \A j \in 1..i : v[j] = t[j]
    BY <2>4, <2>5
  <2>7. \A j \in 1..i : t[j] = buffer[j - 1]
    BY <1>6, <2>3 DEF t
  <2>8. u = v
    BY <2>2, <2>4, <2>6, <2>7, SeqEqual
  <2>9. QED
    BY <2>8 DEF t, u, v
<1>9. From(b1, i) = From(buffer, c)
  <2>1. strlen(b1) - i = strlen(buffer) - c /\ strlen(buffer) \in Nat
    BY <1>2, <1>3, <1>5 DEF n
  <2>2. \A k \in c..(strlen(buffer) - 1) : b1[k - c + i] = buffer[k]
    <3>1. \A k \in c..(n - 1) : k - c + i = k - (c - i)
      BY <1>2, <1>5
    <3>2. QED
      BY <1>3, <3>1 DEF n
  <2>3. QED
    BY <1>2, <1>5, <2>1, <2>2, SameAfter
<1>10. QED
  BY <1>4, <1>7, <1>8, <1>9 DEF c

\* The text before the cursor, empty or not.
LEMMA BeforeCursor ==
  ASSUME LineOK
  PROVE  /\ Upto(buffer, cursor) \in Seq(Char) /\ Len(Upto(buffer, cursor)) = cursor
         /\ \A i \in 1..cursor : Upto(buffer, cursor)[i] = buffer[i - 1]
         /\ (cursor > 0 => Upto(buffer, cursor) # <<>>)
         /\ From(buffer, cursor) \in Seq(Char)
         /\ Len(From(buffer, cursor)) = strlen(buffer) - cursor
         /\ \A i \in 1..(strlen(buffer) - cursor) : From(buffer, cursor)[i] = buffer[cursor + i - 1]
         /\ (cursor < strlen(buffer) => From(buffer, cursor) # <<>>)
<1>1. buffer \in Buffers /\ cursor \in 0..strlen(buffer)
  BY DEF LineOK
<1>2. cursor \in Nat /\ strlen(buffer) \in Nat /\ Len(<<>>) = 0
  BY NoLongLine, EmptySeq
<1>3. /\ Upto(buffer, cursor) \in Seq(Char) /\ Len(Upto(buffer, cursor)) = cursor
      /\ \A i \in 1..cursor : Upto(buffer, cursor)[i] = buffer[i - 1]
      /\ From(buffer, cursor) \in Seq(Char)
      /\ Len(From(buffer, cursor)) = strlen(buffer) - cursor
      /\ \A i \in 1..(strlen(buffer) - cursor) : From(buffer, cursor)[i] = buffer[cursor + i - 1]
  BY <1>1, Texts
<1>4. cursor > 0 => Upto(buffer, cursor) # <<>>
  BY <1>2, <1>3
<1>5. cursor < strlen(buffer) => From(buffer, cursor) # <<>>
  BY <1>2, <1>3
<1>6. QED
  BY <1>3, <1>4, <1>5

LEMMA BackspaceIsBackspace ==
  ASSUME LineOK, Backspace
  PROVE  Editor!Backspace
<1>1. cursor - 1 \in 0..cursor /\ cursor > 0
  BY NoLongLine DEF Backspace
<1>2. Edited(memmove(buffer, cursor - 1, cursor, strlen(buffer) - cursor + 1), cursor - 1)
  BY DEF Backspace
<1>3. /\ Upto(buffer, cursor)' = SubSeq(Upto(buffer, cursor), 1, cursor - 1)
      /\ From(buffer, cursor)' = From(buffer, cursor) /\ editing' = editing
  BY <1>1, <1>2, TakeOutIsCut
<1>4. Upto(buffer, cursor) # <<>> /\ Len(Upto(buffer, cursor)) = cursor
  BY <1>1, BeforeCursor
<1>5. editing
  BY DEF Backspace
<1>6. QED
  BY <1>3, <1>4, <1>5 DEF Editor!Backspace, From

\* The two loops of the deletion find the last beginning of a word before the cursor.
LEMMA DeleteWordIsDeleteWord ==
  ASSUME LineOK, DeleteWord
  PROVE  Editor!DeleteWord
<1> DEFINE c == cursor
           p == SpacesBefore
           w == WordBefore
           t == Upto(buffer, c)
           S == Editor!WordStarts(t)
<1>1. c \in Nat
  BY NoLongLine
<1>2. /\ p \in 0..c
      /\ \A k \in p..(c - 1) : buffer[k] = " "
      /\ p = 0 \/ buffer[p - 1] # " "
      /\ w \in 0..p
      /\ \A k \in w..(p - 1) : buffer[k] # " "
      /\ w = 0 \/ buffer[w - 1] = " "
  BY <1>1, WordStart
<1>3. Edited(memmove(buffer, w, c, strlen(buffer) - c + 1), w) /\ editing
  BY DEF DeleteWord
<1> HIDE DEF p, w
<1>4. w \in 0..c /\ p \in Nat /\ w \in Nat /\ w <= p /\ p <= c
  <2>1. p \in 0..c /\ w \in 0..p
    BY <1>2
  <2>2. QED
    BY ONLY <1>1, <2>1
<1>5. /\ Upto(buffer, cursor)' = SubSeq(t, 1, w)
      /\ From(buffer, cursor)' = From(buffer, cursor) /\ editing' = editing
  BY <1>3, <1>4, TakeOutIsCut
<1>6. t \in Seq(Char) /\ Len(t) = c /\ \A i \in 1..c : t[i] = buffer[i - 1]
  BY BeforeCursor
<1>7. DOMAIN t = 1..c
  BY <1>6, LenProperties
<1> HIDE DEF t, c
<1>8. S = {i \in 1..c : buffer[i - 1] # " " /\ (i = 1 \/ t[i - 1] = " ")}
  BY <1>6, <1>7 DEF Editor!WordStarts
<1>9. \A i \in 1..c : i \in S <=> buffer[i - 1] # " " /\ (i = 1 \/ buffer[i - 2] = " ")
  <2>1. \A i \in 1..c : i = 1 \/ (i - 1 \in 1..c /\ (i - 1) - 1 = i - 2)
    BY <1>1
  <2>2. \A i \in 1..c : i = 1 \/ t[i - 1] = buffer[i - 2]
    BY <1>6, <2>1
  <2>3. QED
    BY <1>8, <2>2
<1>10. S \subseteq 1..c
  BY <1>8
<1> HIDE DEF S
<1>11. CASE p = 0
  <2>1. S = {}
    <3>1. \A i \in 1..c : i - 1 \in p..(c - 1)
      BY <1>1, <1>11
    <3>2. QED
      BY <1>2, <1>9, <1>10, <3>1
  <2>2. w = 0
    BY <1>4, <1>11
  <2>3. SubSeq(t, 1, w) = <<>>
    BY <2>2, SubSeqEmpty
  <2>4. QED
    BY <1>3, <1>5, <2>1, <2>3 DEF Editor!DeleteWord, From, S, t, c
<1>12. CASE p # 0
  <2>1. w < p
    <3>1. w = p => FALSE
      BY <1>2, <1>12
    <3>2. QED
      BY <1>4, <3>1
  <2>2. /\ w + 1 \in 1..c /\ (w + 1) - 1 = w /\ (w + 1) - 2 = w - 1 /\ w \in w..(p - 1)
        /\ (w = 0 <=> w + 1 = 1)
    BY <1>1, <1>4, <2>1
  <2>3. w + 1 \in S
    BY <1>2, <1>9, <2>2
  <2>4. ASSUME NEW j \in S PROVE j <= w + 1
    <3>1. j \in 1..c /\ buffer[j - 1] # " " /\ (j = 1 \/ buffer[j - 2] = " ")
      BY <1>9, <1>10
    <3>2. ~(j - 1 \in p..(c - 1))
      BY <1>2, <3>1
    <3>3. j <= p
      <4>1. j \in 1..c
        BY <3>1
      <4>2. QED
        BY ONLY <1>1, <1>4, <3>2, <4>1
    <3>4. j # 1 => ~(j - 2 \in w..(p - 1))
      BY <1>2, <3>1
    <3>5. j \in 1..c
      BY <3>1
    <3>6. QED
      BY ONLY <1>1, <1>4, <3>3, <3>4, <3>5
  <2>5. \E i \in S : (\A j \in S : j <= i) /\ SubSeq(t, 1, w) = SubSeq(t, 1, i - 1)
    BY <2>2, <2>3, <2>4
  <2>6. QED
    BY <1>3, <1>5, <2>5 DEF Editor!DeleteWord, From, S, t, c
<1>13. QED
  BY <1>11, <1>12

\* Another line, with the cursor at its end.
LEMMA ReplaceIsReplace ==
  ASSUME NEW b \in Buffers, buffer' = b, cursor' = strlen(b), editing, editing' = editing
  PROVE  Editor!Replace
<1> DEFINE n == strlen(b)
<1>1. n \in 0..(Size - 1) /\ n \in Nat /\ \A k \in 0..(n - 1) : b[k] \in Char
  BY LineChars
<1>2. buffer' = b /\ cursor' = n
  OBVIOUS
<1> HIDE DEF n
<1>3. Upto(b, n) \in [1..n -> Char]
  <2>1. \A i \in 1..n : i - 1 \in 0..(n - 1)
    BY <1>1
  <2>2. QED
    BY <1>1, <2>1 DEF Upto
<1>4. Upto(b, n) \in Editor!Lines
  BY <1>1, <1>3 DEF Editor!Lines
<1>5. [i \in 1..(n - n) |-> b[n + i - 1]] = <<>>
  <2>1. 1..(n - n) = 1..0
    BY <1>1
  <2>2. QED
    BY <2>1
<1>6. QED
  BY <1>2, <1>4, <1>5 DEF Editor!Replace, n

\* A line that is emptied is closed.
LEMMA EmptiedIsClose ==
  ASSUME Emptied
  PROVE  Editor!Close
<1>1. editing' = FALSE /\ buffer' = Empty /\ cursor' = 0 /\ strlen(Empty) = 0
  BY EmptyLine DEF Emptied
<1>2. Upto(Empty, 0) = <<>>
  BY DEF Upto
<1>3. [i \in 1..(0 - 0) |-> Empty[0 + i - 1]] = <<>>
  <2>1. 1..(0 - 0) = 1..0
    OBVIOUS
  <2>2. QED
    BY <2>1
<1>4. QED
  BY <1>1, <1>2, <1>3 DEF Editor!Close

\* The cursor goes one place left or right, or to either end.
LEMMA MovesInText ==
  ASSUME NEW b \in Buffers, NEW c \in 0..strlen(b)
  PROVE  /\ c > 0 => /\ Upto(b, c - 1) = SubSeq(Upto(b, c), 1, c - 1)
                     /\ From(b, c - 1) = <<Upto(b, c)[c]>> \o From(b, c)
         /\ c < strlen(b) => /\ Upto(b, c + 1) = Append(Upto(b, c), Head(From(b, c)))
                             /\ From(b, c + 1) = Tail(From(b, c))
         /\ Upto(b, 0) = <<>> /\ From(b, 0) = Upto(b, c) \o From(b, c)
         /\ Upto(b, strlen(b)) = Upto(b, c) \o From(b, c) /\ From(b, strlen(b)) = <<>>
<1> DEFINE n == strlen(b)
           u == Upto(b, c)
           f == From(b, c)
<1>1. n \in Nat /\ \A k \in 0..(n - 1) : b[k] \in Char
  BY LineChars
<1>2. c \in 0..n
  OBVIOUS
<1> DEFINE IsUpto(t, k) == /\ t \in Seq(Char) /\ Len(t) = k
                           /\ \A i \in 1..k : t[i] = b[i - 1]
           IsFrom(t, k) == /\ t \in Seq(Char) /\ Len(t) = n - k
                           /\ \A i \in 1..(n - k) : t[i] = b[k + i - 1]
<1>3. ASSUME NEW k \in 0..n PROVE IsUpto(Upto(b, k), k) /\ IsFrom(From(b, k), k)
  BY Texts
<1>4. ASSUME NEW k \in 0..n, NEW t, IsUpto(t, k) PROVE Upto(b, k) = t
  <2> DEFINE v == Upto(b, k)
  <2>1. v \in Seq(Char) /\ Len(v) = k /\ \A i \in 1..k : v[i] = b[i - 1]
    BY <1>3
  <2> HIDE DEF v
  <2>2. v = t
    BY <1>4, <2>1, SeqEqual
  <2>3. QED
    BY <2>2 DEF v
<1>5. ASSUME NEW k \in 0..n, NEW t, IsFrom(t, k) PROVE From(b, k) = t
  <2> DEFINE v == From(b, k)
  <2>1. v \in Seq(Char) /\ Len(v) = n - k /\ \A i \in 1..(n - k) : v[i] = b[k + i - 1]
    BY <1>3
  <2> HIDE DEF v, n
  <2>2. v = t
    BY <1>5, <2>1, SeqEqual
  <2>3. QED
    BY <2>2 DEF v
<1>6. IsUpto(u, c) /\ IsFrom(f, c)
  BY <1>2, <1>3
<1>7. c \in Nat /\ c <= n
  BY <1>1, <1>2
<1> HIDE DEF n, u, f
<1>8. ASSUME c > 0
      PROVE  Upto(b, c - 1) = SubSeq(u, 1, c - 1) /\ From(b, c - 1) = <<u[c]>> \o f
  <2>1. c - 1 \in 0..n
    BY <1>1, <1>7, <1>8 DEF n
  <2> DEFINE t == SubSeq(u, 1, c - 1)
             x == <<u[c]>>
             y == x \o f
  <2>2. t \in Seq(Char) /\ Len(t) = c - 1 /\ \A i \in 1..(c - 1) : t[i] = b[i - 1]
    <3>1. /\ c - 1 \in Int /\ 1 \in Int /\ (~(1 <= c - 1) => c - 1 = 0)
          /\ \A i \in 1..(c - 1) : i \in 1..c
      BY <1>7, <1>8
    <3>2. \A i \in 1..(c - 1) : u[i] \in Char /\ u[i] = b[i - 1]
      BY <1>6, <3>1, ElementOfSeq
    <3>3. /\ t \in Seq(Char) /\ Len(t) = IF 1 <= c - 1 THEN (c - 1) - 1 + 1 ELSE 0
          /\ \A i \in 1..((c - 1) - 1 + 1) : t[i] = u[1 + i - 1]
      BY <3>1, <3>2, SubSeqProperties
    <3>4. (c - 1) - 1 + 1 = c - 1 /\ \A i \in 1..(c - 1) : 1 + i - 1 = i
      BY <1>7
    <3> HIDE DEF t
    <3>5. QED
      BY <3>1, <3>2, <3>3, <3>4
  <2>3. /\ y \in Seq(Char) /\ Len(y) = n - (c - 1)
        /\ \A i \in 1..(n - (c - 1)) : y[i] = b[(c - 1) + i - 1]
    <3>1. c \in 1..c
      BY <1>7, <1>8
    <3>2. u[c] \in Char /\ u[c] = b[c - 1]
      BY <1>6, <3>1, ElementOfSeq
    <3>3. x \in Seq(Char) /\ Len(x) = 1 /\ x[1] = b[c - 1]
      BY <3>2
    <3> HIDE DEF x
    <3>4. /\ y \in Seq(Char) /\ Len(y) = 1 + (n - c)
          /\ \A i \in 1..(1 + (n - c)) : y[i] = IF i <= 1 THEN x[i] ELSE f[i - 1]
      <4>1. x \in Seq(Char) /\ f \in Seq(Char) /\ Len(x) = 1 /\ Len(f) = n - c
        BY <1>6, <3>3
      <4>2. /\ y \in Seq(Char) /\ Len(y) = Len(x) + Len(f)
            /\ \A i \in 1..(Len(x) + Len(f)) :
                 y[i] = IF i <= Len(x) THEN x[i] ELSE f[i - Len(x)]
        BY ONLY <4>1, ConcatProperties
      <4> HIDE DEF y
      <4>3. QED
        BY ONLY <4>1, <4>2
    <3>5. 1 + (n - c) = n - (c - 1)
      BY <1>1, <1>7 DEF n
    <3> HIDE DEF y
    <3>6. ASSUME NEW i \in 1..(n - (c - 1)) PROVE y[i] = b[(c - 1) + i - 1]
      <4>1. CASE i = 1
        <5>1. (c - 1) + i - 1 = c - 1
          BY <1>7, <4>1
        <5>2. QED
          BY <3>3, <3>4, <3>5, <4>1, <5>1
      <4>2. CASE i # 1
        <5>1. i - 1 \in 1..(n - c) /\ c + (i - 1) - 1 = (c - 1) + i - 1 /\ ~(i <= 1)
          BY <1>1, <1>7, <4>2 DEF n
        <5>2. QED
          BY <1>6, <3>4, <3>5, <5>1
      <4>3. QED
        BY <4>1, <4>2
    <3>7. QED
      BY <3>4, <3>5, <3>6
  <2> HIDE DEF t, y
  <2>4. IsUpto(t, c - 1) /\ IsFrom(y, c - 1)
    BY <2>2, <2>3
  <2> HIDE DEF IsUpto, IsFrom
  <2>5. Upto(b, c - 1) = t /\ From(b, c - 1) = y
    BY <1>4, <1>5, <2>1, <2>4
  <2>6. QED
    BY <2>5 DEF t, y
<1>9. ASSUME c < n
      PROVE  Upto(b, c + 1) = Append(u, Head(f)) /\ From(b, c + 1) = Tail(f)
  <2>1. c + 1 \in 0..n
    BY <1>1, <1>7, <1>9 DEF n
  <2> DEFINE t == Append(u, Head(f))
             y == Tail(f)
  <2>2. /\ f \in Seq(Char) /\ f # <<>> /\ Len(f) = n - c /\ n - c \in Nat
        /\ 1 \in 1..(n - c) /\ n - c = (n - (c + 1)) + 1
    <3>1. n - c \in Nat /\ n - c # 0 /\ 1 \in 1..(n - c) /\ n - c = (n - (c + 1)) + 1
      BY <1>1, <1>7, <1>9 DEF n
    <3>2. f \in Seq(Char) /\ Len(f) = n - c
      BY <1>6
    <3>3. f # <<>>
      BY <3>1, <3>2, EmptySeq
    <3>4. QED
      BY <3>1, <3>2, <3>3
  <2>3. Head(f) = f[1] /\ f[1] \in Char /\ f[1] = b[c]
    <3>1. c + 1 - 1 = c
      BY <1>7
    <3>2. f[1] = b[c + 1 - 1] /\ f[1] \in Char
      BY <1>6, <2>2, ElementOfSeq
    <3>3. Head(f) = f[1]
      BY <2>2
    <3>4. QED
      BY <3>1, <3>2, <3>3
  <2>4. t \in Seq(Char) /\ Len(t) = c + 1 /\ \A i \in 1..(c + 1) : t[i] = b[i - 1]
    <3>1. /\ t \in Seq(Char) /\ Len(t) = c + 1 /\ t[c + 1] = b[c]
          /\ \A i \in 1..c : t[i] = u[i]
      BY <1>6, <2>3, AppendProperties
    <3>2. (c + 1) - 1 = c /\ \A i \in 1..(c + 1) : i \in 1..c \/ i = c + 1
      BY <1>7
    <3> HIDE DEF t
    <3>3. QED
      BY <1>6, <3>1, <3>2
  <2>5. /\ y \in Seq(Char) /\ Len(y) = n - (c + 1)
        /\ \A i \in 1..(n - (c + 1)) : y[i] = b[(c + 1) + i - 1]
    <3>1. /\ y \in Seq(Char) /\ Len(y) = (n - c) - 1
          /\ \A i \in 1..Len(y) : y[i] = f[i + 1]
      BY <2>2, HeadTailProperties
    <3>2. (n - c) - 1 = n - (c + 1)
      BY <1>1, <1>7 DEF n
    <3>3. \A i \in 1..(n - (c + 1)) : i + 1 \in 1..(n - c) /\ c + (i + 1) - 1 = (c + 1) + i - 1
      BY <1>1, <1>7 DEF n
    <3> HIDE DEF y
    <3>4. QED
      BY <1>6, <3>1, <3>2, <3>3
  <2> HIDE DEF t, y
  <2>6. IsUpto(t, c + 1) /\ IsFrom(y, c + 1)
    BY <2>4, <2>5
  <2> HIDE DEF IsUpto, IsFrom
  <2>7. Upto(b, c + 1) = t /\ From(b, c + 1) = y
    BY <1>4, <1>5, <2>1, <2>6
  <2>8. QED
    BY <2>7 DEF t, y
<1> DEFINE a == u \o f
<1>10. a \in Seq(Char) /\ Len(a) = n /\ \A i \in 1..n : a[i] = b[i - 1]
  <2>1. /\ a \in Seq(Char) /\ Len(a) = c + (n - c)
        /\ \A i \in 1..(c + (n - c)) : a[i] = IF i <= c THEN u[i] ELSE f[i - c]
    <3>1. u \in Seq(Char) /\ f \in Seq(Char) /\ Len(u) = c /\ Len(f) = n - c
      BY <1>6
    <3>2. /\ a \in Seq(Char) /\ Len(a) = Len(u) + Len(f)
          /\ \A i \in 1..(Len(u) + Len(f)) :
               a[i] = IF i <= Len(u) THEN u[i] ELSE f[i - Len(u)]
      BY ONLY <3>1, ConcatProperties
    <3> HIDE DEF a
    <3>3. QED
      BY ONLY <3>1, <3>2
  <2>2. c + (n - c) = n
    BY <1>1, <1>7 DEF n
  <2>3. ASSUME NEW i \in 1..n PROVE a[i] = b[i - 1]
    <3>1. CASE i <= c
      <4>1. i \in 1..c
        BY <1>7, <3>1
      <4>2. QED
        BY <1>6, <2>1, <2>2, <3>1, <4>1
    <3>2. CASE ~(i <= c)
      <4>1. i - c \in 1..(n - c) /\ c + (i - c) - 1 = i - 1
        BY <1>1, <1>7, <3>2 DEF n
      <4>2. QED
        BY <1>6, <2>1, <2>2, <3>2, <4>1
    <3>3. QED
      BY <3>1, <3>2
  <2> HIDE DEF a
  <2>4. QED
    BY <2>1, <2>2, <2>3
<1> HIDE DEF a
<1>11. 0 \in 0..n /\ n \in 0..n /\ n - 0 = n /\ n - n = 0 /\ n \in Nat
  BY <1>1 DEF n
<1>12. IsUpto(a, n) /\ IsFrom(a, 0)
  <2>1. \A i \in 1..n : 0 + i - 1 = i - 1
    OBVIOUS
  <2>2. QED
    BY <1>10, <1>11, <2>1
<1>13. IsUpto(<<>>, 0) /\ IsFrom(<<>>, n)
  <2>1. 1..0 = {} /\ <<>> \in Seq(Char) /\ Len(<<>>) = 0
    BY EmptySeq
  <2>2. QED
    BY <1>11, <2>1
<1> HIDE DEF IsUpto, IsFrom
<1>14. Upto(b, n) = a /\ From(b, 0) = a /\ Upto(b, 0) = <<>> /\ From(b, n) = <<>>
  BY <1>4, <1>5, <1>11, <1>12, <1>13
<1>15. QED
  BY <1>8, <1>9, <1>14 DEF a, u, f, n

LEMMA MoveIsMove ==
  ASSUME LineOK, MoveCursor
  PROVE  Editor!Left \/ Editor!Right \/ Editor!Home \/ Editor!End
<1> DEFINE u == Upto(buffer, cursor)
           f == From(buffer, cursor)
<1>1. buffer \in Buffers /\ cursor \in 0..strlen(buffer)
  BY DEF LineOK
<1>2. cursor \in Nat /\ strlen(buffer) \in Nat
  BY NoLongLine
<1>3. PICK to \in {cursor - 1, cursor + 1, 0, strlen(buffer)} : Move(to)
  BY DEF MoveCursor
<1>4. /\ editing /\ editing' = editing /\ to \in 0..strlen(buffer)
      /\ buffer' = buffer /\ cursor' = to
  BY <1>3 DEF Move, Edited
<1>5. Upto(buffer, cursor)' = Upto(buffer, to) /\ From(buffer, cursor)' = From(buffer, to)
  BY <1>4
<1>6. /\ u \in Seq(Char) /\ Len(u) = cursor /\ (cursor > 0 => u # <<>>)
      /\ (cursor < strlen(buffer) => f # <<>>)
  BY BeforeCursor
<1>7. CASE to = cursor - 1
  <2>1. cursor > 0
    BY <1>2, <1>4, <1>7
  <2>2. Upto(buffer, to) = SubSeq(u, 1, cursor - 1) /\ From(buffer, to) = <<u[cursor]>> \o f
    BY <1>1, <1>7, <2>1, MovesInText
  <2> HIDE DEF u, f
  <2>3. /\ editing /\ u # <<>> /\ editing' = editing
        /\ Upto(buffer, cursor)' = SubSeq(u, 1, Len(u) - 1)
        /\ From(buffer, cursor)' = <<u[Len(u)]>> \o f
    BY <1>4, <1>5, <1>6, <2>1, <2>2
  <2>4. Editor!Left
    BY <2>3 DEF Editor!Left, From, u, f
  <2>5. QED
    BY <2>4
<1>8. CASE to = cursor + 1
  <2>1. cursor < strlen(buffer)
    BY <1>2, <1>4, <1>8
  <2>2. Upto(buffer, to) = Append(u, Head(f)) /\ From(buffer, to) = Tail(f)
    BY <1>1, <1>8, <2>1, MovesInText
  <2> HIDE DEF u, f
  <2>3. /\ editing /\ f # <<>> /\ editing' = editing
        /\ Upto(buffer, cursor)' = Append(u, Head(f))
        /\ From(buffer, cursor)' = Tail(f)
    BY <1>4, <1>5, <1>6, <2>1, <2>2
  <2>4. Editor!Right
    BY <2>3 DEF Editor!Right, From, u, f
  <2>5. QED
    BY <2>4
<1>9. CASE to = 0
  <2>1. Upto(buffer, to) = <<>> /\ From(buffer, to) = u \o f
    BY <1>1, <1>9, MovesInText
  <2> HIDE DEF u, f
  <2>2. /\ editing /\ editing' = editing
        /\ Upto(buffer, cursor)' = <<>> /\ From(buffer, cursor)' = u \o f
    BY <1>4, <1>5, <2>1
  <2>3. Editor!Home
    BY <2>2 DEF Editor!Home, From, u, f
  <2>4. QED
    BY <2>3
<1>10. CASE to = strlen(buffer)
  <2>1. Upto(buffer, to) = u \o f /\ From(buffer, to) = <<>>
    BY <1>1, <1>10, MovesInText
  <2> HIDE DEF u, f
  <2>2. /\ editing /\ editing' = editing
        /\ Upto(buffer, cursor)' = u \o f /\ From(buffer, cursor)' = <<>>
    BY <1>4, <1>5, <2>1
  <2>3. Editor!End
    BY <2>2 DEF Editor!End, From, u, f
  <2>4. QED
    BY <2>3
<1>11. QED
  BY <1>3, <1>7, <1>8, <1>9, <1>10

LEMMA LineIsEditor ==
  CInv /\ [Next]_commandVars => [Editor!Open \/ Editor!Close \/ Editor!Edit]_Editor!editorVars
<1> SUFFICES ASSUME CInv, [Next]_commandVars
             PROVE  Editor!Open \/ Editor!Close \/ Editor!Edit \/ UNCHANGED Editor!editorVars
  OBVIOUS
<1>1. LineOK
  BY DEF CInv
<1>2. CASE Open
  <2>1. editing' = TRUE /\ buffer' = Empty /\ cursor' = 0 /\ strlen(Empty) = 0
    BY <1>2, EmptyLine DEF Open
  <2>2. Upto(Empty, 0) = <<>>
    BY DEF Upto
  <2>3. [i \in 1..(0 - 0) |-> Empty[0 + i - 1]] = <<>>
    <3>1. 1..(0 - 0) = 1..0
      OBVIOUS
    <3>2. QED
      BY <3>1
  <2>4. Editor!Open
    BY <2>1, <2>2, <2>3 DEF Editor!Open
  <2>5. QED
    BY <2>4
<1>3. CASE Cancel \/ EnterNothing \/ Quit \/ Crash
  BY <1>3, EmptiedIsClose DEF Cancel, EnterNothing, Quit, Crash, Off
<1>4. CASE \E c \in Char : Insert(c)
  BY <1>1, <1>4, InsertIsInsert DEF Editor!Edit
<1>5. CASE Backspace
  BY <1>1, <1>5, BackspaceIsBackspace DEF Editor!Edit
<1>6. CASE MoveCursor
  BY <1>1, <1>6, MoveIsMove DEF Editor!Edit
<1>7. CASE Clear
  <2>1. /\ Empty \in Buffers /\ buffer' = Empty /\ cursor' = strlen(Empty)
        /\ editing /\ editing' = editing
    BY <1>7, EmptyLine DEF Clear, Edited
  <2>2. Editor!Replace
    BY <2>1, ReplaceIsReplace
  <2>3. QED
    BY <2>2 DEF Editor!Edit
<1>8. CASE DeleteWord
  BY <1>1, <1>8, DeleteWordIsDeleteWord DEF Editor!Edit
<1>9. CASE Complete \/ Previous \/ Following
  <2>1. PICK b \in Buffers : /\ buffer' = b /\ cursor' = strlen(b)
                             /\ UNCHANGED <<running, editing>> /\ editing
    BY <1>9, ReplacedBy
  <2>2. Editor!Replace
    BY <2>1, ReplaceIsReplace
  <2>3. QED
    BY <2>2 DEF Editor!Edit
<1>10. UNCHANGED lineVars => UNCHANGED Editor!editorVars
  BY DEF lineVars, Editor!editorVars
<1>11. CASE Enter
  BY <1>10, <1>11, EmptiedIsClose DEF Enter
<1>12. CASE Start \/ OtherQuits \/ UNCHANGED commandVars
  BY <1>10, <1>12 DEF Start, OtherQuits, commandVars
<1>13. QED
  BY <1>2, <1>3, <1>4, <1>5, <1>6, <1>7, <1>8, <1>9, <1>11, <1>12 DEF Next

LEMMA LineStartsClosed == Init => Editor!Closed
<1> SUFFICES ASSUME Init PROVE Editor!Closed
  OBVIOUS
<1>1. editing = FALSE /\ buffer = Empty /\ cursor = 0 /\ strlen(Empty) = 0
  BY EmptyLine DEF Init
<1>2. Upto(Empty, 0) = <<>>
  BY DEF Upto
<1>3. [i \in 1..(0 - 0) |-> Empty[0 + i - 1]] = <<>>
  <2>1. 1..(0 - 0) = 1..0
    OBVIOUS
  <2>2. QED
    BY <2>1
<1>4. QED
  BY <1>1, <1>2, <1>3 DEF Editor!Closed

(***************************************************************************)
(* The buffer with its cursor is a line editor: memmove and strncpy do to  *)
(* the texts before and after the cursor what LineEditor says each key     *)
(* does, for every size of the buffer and whatever lies behind the NUL.    *)
(***************************************************************************)
THEOREM LineEdited == Spec => EditsLine
<1>1. Spec => Editor!Closed
  BY LineStartsClosed DEF Spec
<1>2. Spec => [][Editor!Open \/ Editor!Close \/ Editor!Edit]_Editor!editorVars
  BY LineIsEditor, CommandInvariant, PTL DEF Spec
<1>3. QED
  BY <1>1, <1>2, PTL DEF EditsLine, Editor!Spec
=============================================================================
