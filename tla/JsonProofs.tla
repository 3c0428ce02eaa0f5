----------------------------- MODULE JsonProofs -----------------------------
(***************************************************************************)
(* What json.c writes it reads back, for documents of any number of levels *)
(* and entries: it reads a text that was written to its end, as the        *)
(* document that it was written from, and refuses one that was cut short.  *)
(* Of any other text it reads what the grammar of JSON says, and no more.  *)
(* The recursive functions of the model are shown to exist first; they are *)
(* then followed from the end of a text to its beginning, and from the     *)
(* leaves of a document to its root.                                       *)
(***************************************************************************)
EXTENDS JsonGrammar, SequenceTheorems, WellFoundedInduction, TLAPS

-----------------------------------------------------------------------------
(* Induction over places.                                                  *)

Below == {p \in Nat \X Nat : p[1] < p[2]}

\* Some element of a set of natural numbers is the least.
LEMMA Least ==
  ASSUME NEW T \in SUBSET Nat, T # {}
  PROVE  \E x \in T : \A y \in T : x <= y
<1>1. IsWellFoundedOn(Below, Nat)
  BY NatLessThanWellFounded DEF Below, OpToRel
<1>2. PICK x \in T : \A y \in T : ~(<<y, x>> \in Below)
  BY <1>1, WFMin
<1>3. ASSUME NEW y \in T PROVE x <= y
  <2>1. x \in Nat /\ y \in Nat /\ ~(<<y, x>> \in Below)
    BY <1>2
  <2>2. QED
    BY <2>1 DEF Below
<1>4. QED
  BY <1>2, <1>3

\* Going up from 1 to n, and down to 1 by one or two from the places behind n.
LEMMA Upwards ==
  ASSUME NEW n \in Nat, NEW T, 1 \in T, \A i \in 2..n : i - 1 \in T => i \in T
  PROVE  \A i \in 1..n : i \in T
<1> DEFINE D == {i \in 1..n : i \notin T}
<1>1. SUFFICES ASSUME D # {} PROVE FALSE
  OBVIOUS
<1>2. PICK i \in D : \A k \in D : i <= k
  <2>1. D \in SUBSET Nat
    OBVIOUS
  <2>2. QED
    BY <1>1, <2>1, Least
<1>3. i \in 1..n /\ i \notin T
  BY <1>2
<1>4. i \in 2..n /\ i - 1 \in 1..n /\ ~(i <= i - 1)
  BY <1>3
<1>5. QED
  BY <1>2, <1>3, <1>4

\* The same the other way, each place from the two behind it.
LEMMA Downwards ==
  ASSUME NEW n \in Nat, NEW T, n + 1 \in T, n + 2 \in T,
         \A i \in 1..n : i + 1 \in T /\ i + 2 \in T => i \in T
  PROVE  \A i \in 1..(n + 2) : i \in T
<1> DEFINE D == {k \in 1..(n + 2) : n + 3 - k \notin T}
<1>1. D = {}
  <2>1. SUFFICES ASSUME D # {} PROVE FALSE
    OBVIOUS
  <2>2. PICK k \in D : \A j \in D : k <= j
    <3>1. D \in SUBSET Nat
      OBVIOUS
    <3>2. QED
      BY <2>1, <3>1, Least
  <2>3. k \in 1..(n + 2) /\ n + 3 - k \notin T
    BY <2>2
  <2>4. k # 1 /\ k # 2
    BY <2>3
  <2>5. /\ k - 1 \in 1..(n + 2) /\ k - 2 \in 1..(n + 2) /\ n + 3 - k \in 1..n
        /\ ~(k <= k - 1) /\ ~(k <= k - 2)
        /\ n + 3 - (k - 1) = n + 3 - k + 1 /\ n + 3 - (k - 2) = n + 3 - k + 2
    BY <2>3, <2>4
  <2>6. n + 3 - k + 1 \in T /\ n + 3 - k + 2 \in T
    BY <2>2, <2>5
  <2>7. QED
    BY <2>3, <2>5, <2>6
<1>2. ASSUME NEW i \in 1..(n + 2) PROVE i \in T
  <2>1. n + 3 - i \in 1..(n + 2) /\ n + 3 - (n + 3 - i) = i
    OBVIOUS
  <2> DEFINE k == n + 3 - i
  <2>2. k \in 1..(n + 2) /\ n + 3 - k = i
    BY <2>1
  <2> HIDE DEF k
  <2>3. n + 3 - k \in T
    BY <1>1, <2>2
  <2>4. QED
    BY <2>2, <2>3
<1>3. QED
  BY <1>2

\* f computes its values from the two that follow, for the places from i to n.
Follows(f, S, base, step, n, i) ==
  /\ f \in [i..(n + 2) -> S]
  /\ \A k \in i..(n + 2) : f[k] = IF k > n THEN base[k] ELSE step[<<k, f[k + 1], f[k + 2]>>]

LEMMA FollowsExists ==
  ASSUME NEW S, NEW n \in Nat, NEW base \in [(n + 1)..(n + 2) -> S],
         NEW step \in [(1..n) \X S \X S -> S]
  PROVE  \E f : Follows(f, S, base, step, n, 1)
<1> DEFINE T == {i \in 1..(n + 2) : \E f : Follows(f, S, base, step, n, i)}
<1>1. ASSUME NEW i \in (n + 1)..(n + 2) PROVE i \in T
  <2>1. [k \in i..(n + 2) |-> base[k]] \in [i..(n + 2) -> S]
    OBVIOUS
  <2>2. Follows([k \in i..(n + 2) |-> base[k]], S, base, step, n, i)
    BY <2>1 DEF Follows
  <2>3. QED
    BY <2>2
<1>2. n + 1 \in T /\ n + 2 \in T
  BY <1>1
<1>3. ASSUME NEW i \in 1..n, i + 1 \in T PROVE i \in T
  <2>1. PICK f : Follows(f, S, base, step, n, i + 1)
    BY <1>3
  <2>2. i + 1 \in (i + 1)..(n + 2) /\ i + 2 \in (i + 1)..(n + 2)
    OBVIOUS
  <2>3. f[i + 1] \in S /\ f[i + 2] \in S
    BY <2>1, <2>2 DEF Follows
  <2> DEFINE e == step[<<i, f[i + 1], f[i + 2]>>]
             h == [k \in i..(n + 2) |-> IF k = i THEN e ELSE f[k]]
  <2>4. e \in S
    BY <2>3
  <2>5. h \in [i..(n + 2) -> S]
    <3>1. \A k \in i..(n + 2) : k # i => f[k] \in S
      BY <2>1 DEF Follows
    <3> HIDE DEF e
    <3>2. QED
      BY <2>4, <3>1
  <2>6. ASSUME NEW k \in i..(n + 2)
        PROVE  h[k] = IF k > n THEN base[k] ELSE step[<<k, h[k + 1], h[k + 2]>>]
    <3>1. CASE k = i
      <4>1. /\ h[i + 1] = f[i + 1] /\ h[i + 2] = f[i + 2] /\ h[i] = e /\ ~(i > n)
        BY <2>2
      <4> HIDE DEF h
      <4>2. QED
        BY <3>1, <4>1
    <3>2. CASE k # i
      <4>1. k \in (i + 1)..(n + 2)
        BY <3>2
      <4>2. f[k] = IF k > n THEN base[k] ELSE step[<<k, f[k + 1], f[k + 2]>>]
        BY <2>1, <4>1 DEF Follows
      <4>3. h[k] = f[k] /\ (~(k > n) => h[k + 1] = f[k + 1] /\ h[k + 2] = f[k + 2])
        BY <4>1
      <4> HIDE DEF h
      <4>4. QED
        BY <4>2, <4>3
    <3>3. QED
      BY <3>1, <3>2
  <2> HIDE DEF h
  <2>7. Follows(h, S, base, step, n, i)
    BY <2>5, <2>6 DEF Follows
  <2>8. QED
    BY <2>7
<1> HIDE DEF T
<1>4. \A i \in 1..(n + 2) : i \in T
  BY ONLY <1>2, <1>3, Downwards, n \in Nat
<1>5. 1 \in T
  BY <1>4
<1>6. QED
  BY <1>5 DEF T

-----------------------------------------------------------------------------
(* Strings: writing and reading one.                                       *)

\* The characters that strings in JSON treat specially.
Marks == {Quote, "\\", "\n", "n"}

\* Sequences and how they are joined.
LEMMA TextIs ==
  ASSUME NEW S, NEW s \in Seq(S)
  PROVE  /\ Len(s) \in Nat /\ DOMAIN s = 1..Len(s) /\ s \in [1..Len(s) -> S]
         /\ \A i \in 1..Len(s) : s[i] \in S
OBVIOUS

LEMMA JoinedTexts ==
  ASSUME NEW S, NEW s \in Seq(S), NEW t \in Seq(S)
  PROVE  /\ s \o t \in Seq(S) /\ Len(s \o t) = Len(s) + Len(t)
         /\ \A i \in 1..(Len(s) + Len(t)) :
              (s \o t)[i] = IF i <= Len(s) THEN s[i] ELSE t[i - Len(s)]
BY ConcatProperties

LEMMA Singleton ==
  ASSUME NEW S, NEW c \in S
  PROVE  <<c>> \in Seq(S) /\ Len(<<c>>) = 1 /\ <<c>>[1] = c
OBVIOUS

\* The escapes of a text undone are a text, and one without backslashes stays what it is.
UnescapedBy(f, s, S) ==
  /\ f \in [1..(Len(s) + 1) -> Seq(S)]
  /\ f[Len(s) + 1] = <<>>
  /\ \A i \in 1..Len(s) :
       f[i] = IF s[i] = "\\" /\ i < Len(s) THEN <<Meant(s[i + 1])>> \o f[i + 2]
              ELSE <<s[i]>> \o f[i + 1]

\* The function that Unescaped takes its value from exists, and is this one.
LEMMA UnescapedIs ==
  ASSUME NEW S, Marks \subseteq S, NEW s \in Seq(S)
  PROVE  \E f : UnescapedBy(f, s, S) /\ Unescaped(s) = f[1]
<1> DEFINE n == Len(s)
           R(i, f) == CASE i > Len(s) -> <<>>
                        [] s[i] = "\\" /\ i < Len(s) -> <<Meant(s[i + 1])>> \o f[i + 2]
                        [] OTHER -> <<s[i]>> \o f[i + 1]
           base == [k \in (n + 1)..(n + 2) |-> <<>>]
           step == [p \in (1..n) \X Seq(S) \X Seq(S) |->
                      IF s[p[1]] = "\\" /\ p[1] < n THEN <<Meant(s[p[1] + 1])>> \o p[3]
                      ELSE <<s[p[1]]>> \o p[2]]
<1>1. n \in Nat /\ \A i \in 1..n : s[i] \in S
  BY TextIs
<1>2. <<>> \in Seq(S)
  OBVIOUS
<1>3. \A c \in S : Meant(c) \in S
  BY DEF Meant, Marks
<1>4. ASSUME NEW i \in 1..n, NEW x \in Seq(S), NEW y \in Seq(S)
      PROVE  /\ <<s[i]>> \o x \in Seq(S)
             /\ i < n => <<Meant(s[i + 1])>> \o y \in Seq(S)
  <2>1. <<s[i]>> \o x \in Seq(S)
    BY <1>1, Singleton, JoinedTexts
  <2>2. ASSUME i < n PROVE <<Meant(s[i + 1])>> \o y \in Seq(S)
    <3>1. Meant(s[i + 1]) \in S
      BY <1>1, <1>3, <2>2
    <3>2. QED
      BY <3>1, Singleton, JoinedTexts
  <2>3. QED
    BY <2>1, <2>2
<1> HIDE DEF n
<1>5. step \in [(1..n) \X Seq(S) \X Seq(S) -> Seq(S)]
  <2>1. ASSUME NEW p \in (1..n) \X Seq(S) \X Seq(S)
        PROVE  (IF s[p[1]] = "\\" /\ p[1] < n THEN <<Meant(s[p[1] + 1])>> \o p[3]
                ELSE <<s[p[1]]>> \o p[2]) \in Seq(S)
    <3>1. p[1] \in 1..n /\ p[2] \in Seq(S) /\ p[3] \in Seq(S)
      OBVIOUS
    <3>2. QED
      BY <1>4, <3>1
  <2>2. QED
    BY <2>1
<1>6. base \in [(n + 1)..(n + 2) -> Seq(S)]
  BY <1>2
<1>7. /\ \A k \in (n + 1)..(n + 2) : base[k] = <<>>
      /\ \A i \in 1..n : \A x \in Seq(S) : \A y \in Seq(S) :
           step[<<i, x, y>>] = IF s[i] = "\\" /\ i < n THEN <<Meant(s[i + 1])>> \o y
                               ELSE <<s[i]>> \o x
  OBVIOUS
<1> HIDE DEF base, step
<1>8. PICK g : Follows(g, Seq(S), base, step, n, 1)
  BY ONLY <1>1, <1>5, <1>6, FollowsExists
<1> DEFINE f == [i \in 1..(n + 1) |-> g[i]]
<1>9. /\ g \in [1..(n + 2) -> Seq(S)]
      /\ \A k \in 1..(n + 2) : g[k] = IF k > n THEN base[k] ELSE step[<<k, g[k + 1], g[k + 2]>>]
  BY <1>8 DEF Follows
<1>10. ASSUME NEW i \in 1..n
       PROVE  f[i] = IF s[i] = "\\" /\ i < n THEN <<Meant(s[i + 1])>> \o f[i + 2]
                     ELSE <<s[i]>> \o f[i + 1]
  <2>1. /\ i \in 1..(n + 2) /\ ~(i > n) /\ i + 1 \in 1..(n + 1) /\ i + 1 \in 1..(n + 2)
        /\ i + 2 \in 1..(n + 2) /\ (i < n => i + 2 \in 1..(n + 1)) /\ i \in 1..(n + 1)
    BY <1>1
  <2>2. g[i] = step[<<i, g[i + 1], g[i + 2]>>] /\ g[i + 1] \in Seq(S) /\ g[i + 2] \in Seq(S)
    BY <1>9, <2>1
  <2>3. g[i] = IF s[i] = "\\" /\ i < n THEN <<Meant(s[i + 1])>> \o g[i + 2]
               ELSE <<s[i]>> \o g[i + 1]
    BY <1>7, <2>2
  <2>4. f[i] = g[i] /\ f[i + 1] = g[i + 1] /\ (i < n => f[i + 2] = g[i + 2])
    BY <2>1
  <2> HIDE DEF f
  <2>5. QED
    BY <2>3, <2>4
<1>11. f \in [1..(n + 1) -> Seq(S)] /\ f[n + 1] = <<>>
  <2>1. n + 1 \in 1..(n + 1) /\ n + 1 \in (n + 1)..(n + 2) /\ n + 1 \in 1..(n + 2) /\ n + 1 > n
    BY <1>1
  <2>2. \A i \in 1..(n + 1) : i \in 1..(n + 2)
    BY <1>1
  <2>3. QED
    BY <1>7, <1>9, <2>1, <2>2
<1>12. f = [i \in 1..(n + 1) |-> R(i, f)]
  <2>1. ASSUME NEW i \in 1..(n + 1) PROVE f[i] = R(i, f)
    <3>1. CASE i = n + 1
      <4>1. i > n
        BY <1>1, <3>1
      <4>2. QED
        BY <1>11, <3>1, <4>1 DEF n
    <3>2. CASE i \in 1..n
      <4>1. ~(i > n)
        BY <1>1, <3>2
      <4> HIDE DEF f
      <4>2. R(i, f) = IF s[i] = "\\" /\ i < n THEN <<Meant(s[i + 1])>> \o f[i + 2]
                      ELSE <<s[i]>> \o f[i + 1]
        BY <4>1 DEF n
      <4> HIDE DEF R
      <4>3. QED
        BY <1>10, <3>2, <4>2
    <3>3. QED
      BY <1>1, <3>1, <3>2
  <2>2. f = [i \in 1..(n + 1) |-> f[i]]
    OBVIOUS
  <2> HIDE DEF f, R
  <2>3. QED
    BY <2>1, <2>2
<1> HIDE DEF f
<1>13. \E e : e = [i \in 1..(n + 1) |-> R(i, e)]
  BY <1>12
<1> DEFINE e == CHOOSE e : e = [i \in 1..(n + 1) |-> R(i, e)]
<1>14. e = [i \in 1..(n + 1) |-> R(i, e)]
  <2> HIDE DEF R
  <2>1. QED
    BY <1>13
<1>15. Unescaped(s) = e[1]
  BY DEF Unescaped, n
<1> HIDE DEF e
<1>16. /\ \A i \in 1..(n + 1) : e[i] = R(i, e)
  <2> HIDE DEF R
  <2>1. QED
    BY <1>14
<1>17. \A i \in 1..(n + 2) : i \in 1..(n + 1) => e[i] = f[i]
  <2> DEFINE T == {i \in 1..(n + 2) : i \in 1..(n + 1) => e[i] = f[i]}
  <2>1. n + 2 \in T
    BY <1>1
  <2>2. n + 1 \in T
    <3>1. n + 1 \in 1..(n + 1) /\ n + 1 > n /\ n + 1 \in 1..(n + 2)
      BY <1>1
    <3>2. e[n + 1] = R(n + 1, e)
      <4> HIDE DEF R
      <4>1. QED
        BY <1>16, <3>1
    <3>3. R(n + 1, e) = <<>>
      BY <3>1 DEF n
    <3>4. QED
      BY <1>11, <3>1, <3>2, <3>3
  <2>3. ASSUME NEW i \in 1..n, i + 1 \in T, i + 2 \in T PROVE i \in T
    <3>1. i \in 1..(n + 1) /\ i \in 1..(n + 2) /\ ~(i > n) /\ i + 1 \in 1..(n + 1)
          /\ (i < n => i + 2 \in 1..(n + 1))
      BY <1>1
    <3>2. e[i + 1] = f[i + 1] /\ (i < n => e[i + 2] = f[i + 2])
      BY <2>3, <3>1
    <3>3. e[i] = R(i, e)
      <4> HIDE DEF R
      <4>1. QED
        BY <1>16, <3>1
    <3>4. R(i, e) = IF s[i] = "\\" /\ i < n THEN <<Meant(s[i + 1])>> \o e[i + 2]
                    ELSE <<s[i]>> \o e[i + 1]
      BY <3>1 DEF n
    <3> HIDE DEF R
    <3>5. e[i] = f[i]
      BY <1>10, <3>2, <3>3, <3>4
    <3>6. QED
      BY <3>1, <3>5
  <2> HIDE DEF T
  <2>4. \A i \in 1..(n + 2) : i \in T
    BY ONLY <1>1, <2>1, <2>2, <2>3, Downwards
  <2>5. QED
    BY <2>4 DEF T
<1>18. e[1] = f[1]
  <2>1. 1 \in 1..(n + 1) /\ 1 \in 1..(n + 2)
    BY <1>1
  <2>2. QED
    BY <1>17, <2>1
<1>19. UnescapedBy(f, s, S)
  BY <1>10, <1>11 DEF UnescapedBy, n
<1>20. QED
  BY <1>15, <1>18, <1>19

\* What is left when the escapes are undone is a text again.
LEMMA UnescapedText ==
  ASSUME NEW S, Marks \subseteq S, NEW s \in Seq(S)
  PROVE  Unescaped(s) \in Seq(S)
<1>1. PICK f : UnescapedBy(f, s, S) /\ Unescaped(s) = f[1]
  BY UnescapedIs
<1>2. 1 \in 1..(Len(s) + 1)
  BY TextIs
<1>3. QED
  BY <1>1, <1>2 DEF UnescapedBy

\* A text without a backslash has no escapes.
LEMMA NothingToUnescape ==
  ASSUME NEW S, Marks \subseteq S, NEW s \in Seq(S), \A i \in 1..Len(s) : s[i] # "\\"
  PROVE  Unescaped(s) = s
<1>1. PICK f : UnescapedBy(f, s, S) /\ Unescaped(s) = f[1]
  BY UnescapedIs
<1> DEFINE n == Len(s)
           Rest(i) == Len(f[i]) = n + 1 - i /\ \A j \in 1..(n + 1 - i) : f[i][j] = s[i + j - 1]
           T == {i \in 1..(n + 2) : i <= n + 1 => Rest(i)}
<1>2. /\ n \in Nat /\ \A i \in 1..n : s[i] \in S
      /\ f \in [1..(n + 1) -> Seq(S)] /\ f[n + 1] = <<>>
      /\ \A i \in 1..n : f[i] = <<s[i]>> \o f[i + 1]
  <2>1. n \in Nat /\ \A i \in 1..n : s[i] \in S
    BY TextIs
  <2>2. QED
    BY <1>1, <2>1 DEF UnescapedBy
<1>3. s \in [1..n -> S]
  BY TextIs
<1> HIDE DEF n
<1>4. n + 2 \in T
  BY <1>2
<1>5. n + 1 \in T
  <2>1. Len(f[n + 1]) = 0
    BY <1>2
  <2>2. n + 1 - (n + 1) = 0 /\ 1..0 = {} /\ n + 1 \in 1..(n + 2)
    BY <1>2
  <2>3. QED
    BY <2>1, <2>2
<1>6. ASSUME NEW i \in 1..n, i + 1 \in T PROVE i \in T
  <2>1. i + 1 \in 1..(n + 1) /\ i + 1 <= n + 1 /\ n + 1 - (i + 1) = n - i /\ n - i \in Nat
    BY <1>2
  <2>2. Rest(i + 1)
    BY <1>6, <2>1
  <2>3. /\ f[i + 1] \in Seq(S) /\ Len(f[i + 1]) = n - i
        /\ \A j \in 1..(n - i) : f[i + 1][j] = s[i + 1 + j - 1]
    BY <1>2, <2>1, <2>2
  <2>4. <<s[i]>> \in Seq(S) /\ Len(<<s[i]>>) = 1 /\ <<s[i]>>[1] = s[i]
    BY <1>2, Singleton
  <2>5. /\ f[i] = <<s[i]>> \o f[i + 1] /\ Len(f[i]) = 1 + (n - i)
        /\ \A j \in 1..(1 + (n - i)) : f[i][j] = IF j <= 1 THEN s[i] ELSE f[i + 1][j - 1]
    <3>1. /\ Len(<<s[i]>> \o f[i + 1]) = 1 + (n - i)
          /\ \A j \in 1..(1 + (n - i)) :
               (<<s[i]>> \o f[i + 1])[j] = IF j <= 1 THEN <<s[i]>>[j] ELSE f[i + 1][j - 1]
      BY <2>3, <2>4, JoinedTexts
    <3>2. \A j \in 1..(1 + (n - i)) : j <= 1 => j = 1
      BY <2>1
    <3>3. QED
      BY <1>2, <2>4, <3>1, <3>2
  <2>6. ASSUME NEW j \in 1..(n + 1 - i) PROVE f[i][j] = s[i + j - 1]
    <3>1. j \in 1..(1 + (n - i))
      BY <1>2
    <3>2. CASE j = 1
      <4>1. i + j - 1 = i
        BY <3>2
      <4>2. QED
        BY <2>5, <3>1, <3>2, <4>1
    <3>3. CASE j # 1
      <4>1. j - 1 \in 1..(n - i) /\ ~(j <= 1) /\ i + 1 + (j - 1) - 1 = i + j - 1
        BY <3>1, <3>3, <1>2
      <4>2. QED
        BY <2>3, <2>5, <3>1, <4>1
    <3>4. QED
      BY <3>2, <3>3
  <2>7. Rest(i)
    <3>1. n + 1 - i = 1 + (n - i)
      BY <1>2
    <3>2. QED
      BY <2>5, <2>6, <3>1
  <2> HIDE DEF Rest
  <2>8. i \in 1..(n + 2)
    BY <1>2
  <2>9. QED
    BY <2>7, <2>8
<1> HIDE DEF T
<1>7. \A i \in 1..(n + 2) : i \in T
  BY ONLY <1>2, <1>4, <1>5, <1>6, Downwards
<1>8. Rest(1)
  <2>1. 1 \in 1..(n + 2) /\ 1 <= n + 1
    BY <1>2
  <2> HIDE DEF Rest
  <2>2. QED
    BY <1>7, <2>1 DEF T
<1>9. f[1] \in Seq(S)
  BY <1>2
<1>10. Len(f[1]) = n /\ \A j \in 1..n : f[1][j] = s[j]
  <2>1. n + 1 - 1 = n /\ \A j \in 1..n : 1 + j - 1 = j
    BY <1>2
  <2>2. QED
    BY <1>8, <2>1
<1>11. f[1] = s
  BY <1>9, <1>10, SeqEqual DEF n
<1>12. QED
  BY <1>1, <1>11

-----------------------------------------------------------------------------
(* The scan for the end of a string.                                       *)

\* The scan from every place of the text.
Found == [quote : Nat, length : Nat]
ScannedBy(f, t) ==
  /\ f \in [1..(Len(t) + 2) -> Found]
  /\ \A i \in {Len(t) + 1, Len(t) + 2} : f[i].length = 0
  /\ \A i \in 1..Len(t) :
       f[i].length = CASE t[i] = Quote -> 0
                       [] t[i] = "\\" -> f[i + 2].length + 1
                       [] OTHER -> f[i + 1].length + 1
  /\ \A i \in {Len(t) + 1, Len(t) + 2} : f[i].quote = i
  /\ \A i \in 1..Len(t) :
       f[i].quote = CASE t[i] = Quote -> i
                      [] t[i] = "\\" -> f[i + 2].quote
                      [] OTHER -> f[i + 1].quote

\* The function that Scan takes its value from exists, and is this one.
LEMMA ScanIs ==
  ASSUME NEW S, NEW t \in Seq(S)
  PROVE  \E f : ScannedBy(f, t) /\ \A p \in 1..(Len(t) + 2) : Scan(t, p) = f[p]
<1> DEFINE n == Len(t)
           R(i, f) == IF i > Len(t) \/ t[i] = Quote THEN [quote |-> i, length |-> 0]
                      ELSE LET rest == f[i + (IF t[i] = "\\" THEN 2 ELSE 1)]
                           IN  [rest EXCEPT !.length = @ + 1]
           More(r) == [r EXCEPT !.length = @ + 1]
           ValueAt(i, x, y) == IF t[i] = Quote THEN [quote |-> i, length |-> 0]
                          ELSE IF t[i] = "\\" THEN More(y) ELSE More(x)
           base == [k \in (n + 1)..(n + 2) |-> [quote |-> k, length |-> 0]]
           step == [q \in (1..n) \X Found \X Found |-> ValueAt(q[1], q[2], q[3])]
<1>1. n \in Nat
  BY TextIs
<1>2. ASSUME NEW r \in Found
      PROVE  More(r) \in Found /\ More(r).length = r.length + 1 /\ More(r).quote = r.quote
  BY DEF Found
<1> HIDE DEF n, More
<1>3. ASSUME NEW i \in Nat PROVE [quote |-> i, length |-> 0] \in Found
  BY DEF Found
<1>4. step \in [(1..n) \X Found \X Found -> Found]
  <2>1. ASSUME NEW q \in (1..n) \X Found \X Found PROVE ValueAt(q[1], q[2], q[3]) \in Found
    <3>1. q[1] \in Nat /\ q[2] \in Found /\ q[3] \in Found
      OBVIOUS
    <3>2. QED
      BY <1>2, <1>3, <3>1
  <2> HIDE DEF ValueAt
  <2>2. QED
    BY <2>1
<1>5. base \in [(n + 1)..(n + 2) -> Found]
  <2>1. \A k \in (n + 1)..(n + 2) : k \in Nat
    BY <1>1
  <2>2. QED
    BY <1>3, <2>1
<1>6. /\ \A k \in (n + 1)..(n + 2) : base[k] = [quote |-> k, length |-> 0]
      /\ \A i \in 1..n : \A x \in Found : \A y \in Found : step[<<i, x, y>>] = ValueAt(i, x, y)
  <2> HIDE DEF ValueAt
  <2>1. QED
    OBVIOUS
<1> HIDE DEF base, step
<1>7. PICK f : Follows(f, Found, base, step, n, 1)
  BY ONLY <1>1, <1>4, <1>5, FollowsExists
<1>8. /\ f \in [1..(n + 2) -> Found]
      /\ \A k \in 1..(n + 2) : f[k] = IF k > n THEN base[k] ELSE step[<<k, f[k + 1], f[k + 2]>>]
  BY <1>7 DEF Follows
<1>9. ASSUME NEW i \in 1..(n + 2)
      PROVE  f[i] = IF i > n THEN [quote |-> i, length |-> 0] ELSE ValueAt(i, f[i + 1], f[i + 2])
  <2> HIDE DEF ValueAt
  <2>1. CASE i > n
    <3>1. i \in (n + 1)..(n + 2)
      BY <1>1, <2>1
    <3>2. QED
      BY <1>6, <1>8, <2>1, <3>1
  <2>2. CASE ~(i > n)
    <3>1. i \in 1..n /\ i + 1 \in 1..(n + 2) /\ i + 2 \in 1..(n + 2)
      BY <1>1, <2>2
    <3>2. f[i] = step[<<i, f[i + 1], f[i + 2]>>] /\ f[i + 1] \in Found /\ f[i + 2] \in Found
      BY <1>8, <2>2, <3>1
    <3>3. step[<<i, f[i + 1], f[i + 2]>>] = ValueAt(i, f[i + 1], f[i + 2])
      BY ONLY <1>6, <3>1, <3>2
    <3>4. QED
      BY ONLY <2>2, <3>2, <3>3
  <2>3. QED
    BY <2>1, <2>2
<1>10. ASSUME NEW e, NEW i \in 1..(n + 2)
       PROVE  R(i, e) = IF i > n THEN [quote |-> i, length |-> 0] ELSE ValueAt(i, e[i + 1], e[i + 2])
  <2>1. Quote # "\\"
    BY DEF Quote
  <2>2. CASE i > n
    BY <2>2 DEF n
  <2>3. CASE ~(i > n) /\ t[i] = Quote
    BY <2>1, <2>3 DEF n
  <2>4. CASE ~(i > n) /\ t[i] # Quote /\ t[i] = "\\"
    BY <2>1, <2>4 DEF n, More
  <2>5. CASE ~(i > n) /\ t[i] # Quote /\ t[i] # "\\"
    BY <2>5 DEF n, More
  <2>6. QED
    BY <2>2, <2>3, <2>4, <2>5
<1>11. f = [i \in 1..(n + 2) |-> R(i, f)]
  <2>1. f = [i \in 1..(n + 2) |-> f[i]]
    BY <1>8
  <2> HIDE DEF R, ValueAt
  <2>2. \A i \in 1..(n + 2) : f[i] = R(i, f)
    BY <1>9, <1>10
  <2>3. QED
    BY <2>1, <2>2
<1>12. \E e : e = [i \in 1..(n + 2) |-> R(i, e)]
  BY <1>11
<1> DEFINE e == CHOOSE e : e = [i \in 1..(n + 2) |-> R(i, e)]
<1>13. e = [i \in 1..(n + 2) |-> R(i, e)]
  <2> HIDE DEF R
  <2>1. QED
    BY <1>12
<1>14. ASSUME NEW p PROVE Scan(t, p) = e[p]
  BY DEF Scan, n
<1> HIDE DEF e
<1>15. ASSUME NEW i \in 1..(n + 2)
       PROVE  e[i] = IF i > n THEN [quote |-> i, length |-> 0] ELSE ValueAt(i, e[i + 1], e[i + 2])
  <2> HIDE DEF R, ValueAt
  <2>1. e[i] = R(i, e)
    BY <1>13
  <2>2. QED
    BY <1>10, <2>1
<1>16. \A i \in 1..(n + 2) : e[i] = f[i]
  <2> DEFINE T == {i \in 1..(n + 2) : e[i] = f[i]}
  <2> HIDE DEF ValueAt
  <2>1. ASSUME NEW i \in (n + 1)..(n + 2) PROVE i \in T
    <3>1. i \in 1..(n + 2) /\ i > n
      BY <1>1
    <3>2. QED
      BY <1>9, <1>15, <3>1
  <2>2. n + 1 \in T /\ n + 2 \in T
    <3>1. n + 1 \in (n + 1)..(n + 2) /\ n + 2 \in (n + 1)..(n + 2)
      BY <1>1
    <3> HIDE DEF T
    <3>2. QED
      BY <2>1, <3>1
  <2>3. ASSUME NEW i \in 1..n, i + 1 \in T, i + 2 \in T PROVE i \in T
    <3>1. i \in 1..(n + 2) /\ ~(i > n)
      BY <1>1
    <3>2. QED
      BY <1>9, <1>15, <2>3, <3>1
  <2> HIDE DEF T
  <2>4. \A i \in 1..(n + 2) : i \in T
    BY ONLY <1>1, <2>2, <2>3, Downwards
  <2>5. QED
    BY <2>4 DEF T
<1>17. ScannedBy(f, t)
  <2>1. ASSUME NEW i \in {n + 1, n + 2} PROVE f[i].length = 0 /\ f[i].quote = i
    <3>1. i \in 1..(n + 2) /\ i > n
      BY <1>1
    <3>2. f[i] = [quote |-> i, length |-> 0]
      BY <1>9, <3>1
    <3>3. QED
      BY <3>2
  <2>2. ASSUME NEW i \in 1..n
        PROVE  /\ f[i].length = CASE t[i] = Quote -> 0
                                  [] t[i] = "\\" -> f[i + 2].length + 1
                                  [] OTHER -> f[i + 1].length + 1
               /\ f[i].quote = CASE t[i] = Quote -> i
                                 [] t[i] = "\\" -> f[i + 2].quote
                                 [] OTHER -> f[i + 1].quote
    <3>1. i \in 1..(n + 2) /\ ~(i > n) /\ i + 1 \in 1..(n + 2) /\ i + 2 \in 1..(n + 2)
      BY <1>1
    <3>2. f[i] = ValueAt(i, f[i + 1], f[i + 2])
      BY <1>9, <3>1
    <3>3. /\ More(f[i + 1]).length = f[i + 1].length + 1
          /\ More(f[i + 2]).length = f[i + 2].length + 1
          /\ More(f[i + 1]).quote = f[i + 1].quote
          /\ More(f[i + 2]).quote = f[i + 2].quote
      BY <1>2, <1>8, <3>1
    <3>4. [quote |-> i, length |-> 0].length = 0 /\ [quote |-> i, length |-> 0].quote = i
      OBVIOUS
    <3>5. Quote # "\\"
      BY DEF Quote
    <3>6. QED
      BY <3>2, <3>3, <3>4, <3>5
  <2>3. QED
    BY <1>8, <2>1, <2>2 DEF ScannedBy, n
<1>18. QED
  BY <1>14, <1>16, <1>17 DEF n

\* No string is longer than the text from its beginning.
LEMMA ScanStaysInside ==
  ASSUME NEW S, NEW t \in Seq(S), NEW p \in 1..(Len(t) + 1)
  PROVE  Scan(t, p).length \in 0..(Len(t) + 1 - p)
<1> DEFINE n == Len(t)
<1>1. PICK f : ScannedBy(f, t) /\ \A i \in 1..(n + 2) : Scan(t, i) = f[i]
  BY ScanIs
<1>2. n \in Nat
  BY TextIs
<1>3. /\ f \in [1..(n + 2) -> Found] /\ f[n + 1].length = 0 /\ f[n + 2].length = 0
      /\ \A i \in 1..n : f[i].length = CASE t[i] = Quote -> 0
                                         [] t[i] = "\\" -> f[i + 2].length + 1
                                         [] OTHER -> f[i + 1].length + 1
  BY <1>1 DEF ScannedBy
<1> HIDE DEF n
<1> DEFINE Fits(i) == /\ f[i].length \in Nat
                      /\ \/ i + f[i].length <= n + 1
                         \/ i = n + 2 /\ f[i].length = 0
           T == {i \in 1..(n + 2) : Fits(i)}
<1>4. n + 1 \in T /\ n + 2 \in T
  <2>1. Fits(n + 1) /\ Fits(n + 2)
    <3>1. n + 1 + 0 <= n + 1 /\ 0 \in Nat
      BY <1>2
    <3>2. Fits(n + 1)
      BY ONLY <1>3, <3>1
    <3>3. Fits(n + 2)
      BY ONLY <1>3, <3>1
    <3>4. QED
      BY <3>2, <3>3
  <2> HIDE DEF Fits
  <2>2. QED
    BY <1>2, <2>1
<1>5. ASSUME NEW i \in 1..n, i + 1 \in T, i + 2 \in T PROVE i \in T
  <2>1. i \in 1..(n + 2) /\ i <= n
    BY <1>2
  <2>2. CASE t[i] = Quote
    <3>1. f[i].length = 0
      <4>1. Quote # "\\"
        BY DEF Quote
      <4>2. QED
        BY <1>3, <2>2, <4>1
    <3>2. Fits(i)
      BY <1>2, <2>1, <3>1
    <3> HIDE DEF Fits
    <3>3. QED
      BY <2>1, <3>2
  <2>3. CASE t[i] # Quote /\ t[i] = "\\"
    <3>1. f[i].length = f[i + 2].length + 1
      BY <1>3, <2>3
    <3>2. /\ f[i + 2].length \in Nat
          /\ (i + 2 + f[i + 2].length <= n + 1 \/ (i + 2 = n + 2 /\ f[i + 2].length = 0))
      BY <1>5
    <3>3. f[i].length \in Nat /\ i + f[i].length <= n + 1
      BY <1>2, <2>1, <3>1, <3>2, SMTT(20)
    <3>4. Fits(i)
      BY <3>3
    <3> HIDE DEF Fits
    <3>5. QED
      BY <2>1, <3>4
  <2>4. CASE t[i] # Quote /\ t[i] # "\\"
    <3>1. f[i].length = f[i + 1].length + 1
      BY <1>3, <2>4
    <3>2. /\ f[i + 1].length \in Nat
          /\ (i + 1 + f[i + 1].length <= n + 1 \/ (i + 1 = n + 2 /\ f[i + 1].length = 0))
      BY <1>5
    <3>3. f[i].length \in Nat /\ i + f[i].length <= n + 1
      BY <1>2, <2>1, <3>1, <3>2, SMTT(20)
    <3>4. Fits(i)
      BY <3>3
    <3> HIDE DEF Fits
    <3>5. QED
      BY <2>1, <3>4
  <2>5. QED
    BY <2>2, <2>3, <2>4
<1> HIDE DEF T
<1>6. \A i \in 1..(n + 2) : i \in T
  BY ONLY <1>2, <1>4, <1>5, Downwards
<1>7. p \in 1..(n + 2) /\ p # n + 2 /\ p \in Nat
  BY <1>2 DEF n
<1>8. f[p].length \in Nat /\ p + f[p].length <= n + 1
  BY <1>6, <1>7 DEF T
<1>9. f[p].length \in 0..(n + 1 - p)
  BY <1>2, <1>7, <1>8
<1>10. QED
  BY <1>1, <1>7, <1>9 DEF n

\* What parse_string returns is a text.
LEMMA ContentText ==
  ASSUME NEW S, Marks \subseteq S, NEW t \in Seq(S), NEW p \in 1..(Len(t) + 1)
  PROVE  Content(t, p) \in Seq(S)
<1> DEFINE l == Scan(t, p).length
<1>1. Len(t) \in Nat /\ \A i \in 1..Len(t) : t[i] \in S
  BY TextIs
<1>2. l \in 0..(Len(t) + 1 - p)
  BY ScanStaysInside
<1> HIDE DEF l
<1>3. /\ p \in Nat /\ p + l - 1 \in Int /\ p + l - 1 <= Len(t)
      /\ \A i \in p..(p + l - 1) : i \in 1..Len(t)
  BY <1>1, <1>2
<1>4. SubSeq(t, p, p + l - 1) \in Seq(S)
  BY <1>1, <1>3, SubSeqProperties
<1>5. QED
  BY <1>4, UnescapedText DEF Content, l

\* FlattenSeq joins the texts from the first to the last.
LEMMA Flattened ==
  ASSUME NEW S, NEW seqs \in Seq(Seq(S)), Len(seqs) # 0
  PROVE  \E g : /\ g \in [1..Len(seqs) -> Seq(S)] /\ g[1] = seqs[1]
                /\ \A i \in 2..Len(seqs) : g[i] = g[i - 1] \o seqs[i]
                /\ FlattenSeq(seqs) = g[Len(seqs)]
<1> DEFINE n == Len(seqs)
           R(i, g) == IF i = 1 THEN seqs[i] ELSE g[i - 1] \o seqs[i]
           ValueAt(k, x) == IF k = n THEN seqs[1] ELSE x \o seqs[n + 1 - k]
           base == [k \in (n + 1)..(n + 2) |-> <<>>]
           step == [q \in (1..n) \X Seq(S) \X Seq(S) |-> ValueAt(q[1], q[2])]
<1>1. n \in Nat /\ n # 0 /\ \A i \in 1..n : seqs[i] \in Seq(S)
  BY TextIs
<1> HIDE DEF n
<1>2. base \in [(n + 1)..(n + 2) -> Seq(S)]
  OBVIOUS
<1>3. ASSUME NEW k \in 1..n, NEW x \in Seq(S) PROVE ValueAt(k, x) \in Seq(S)
  <2>1. 1 \in 1..n /\ n + 1 - k \in 1..n
    BY <1>1
  <2>2. seqs[1] \in Seq(S) /\ seqs[n + 1 - k] \in Seq(S)
    BY <1>1, <2>1
  <2>3. x \o seqs[n + 1 - k] \in Seq(S)
    BY <2>2, JoinedTexts
  <2>4. QED
    BY <2>2, <2>3
<1>4. /\ step \in [(1..n) \X Seq(S) \X Seq(S) -> Seq(S)]
      /\ \A k \in 1..n : \A x \in Seq(S) : \A y \in Seq(S) : step[<<k, x, y>>] = ValueAt(k, x)
  <2>1. ASSUME NEW q \in (1..n) \X Seq(S) \X Seq(S) PROVE ValueAt(q[1], q[2]) \in Seq(S)
    <3>1. q[1] \in 1..n /\ q[2] \in Seq(S)
      OBVIOUS
    <3> HIDE DEF ValueAt
    <3>2. QED
      BY <1>3, <3>1
  <2> HIDE DEF ValueAt
  <2>2. QED
    BY <2>1
<1> HIDE DEF base, step
<1>5. PICK f : Follows(f, Seq(S), base, step, n, 1)
  BY ONLY <1>1, <1>2, <1>4, FollowsExists
<1>6. ASSUME NEW k \in 1..n
      PROVE  f[k] \in Seq(S) /\ f[k] = ValueAt(k, f[k + 1])
  <2>1. k \in 1..(n + 2) /\ ~(k > n) /\ k + 1 \in 1..(n + 2) /\ k + 2 \in 1..(n + 2)
    BY <1>1
  <2>2. /\ f[k] \in Seq(S) /\ f[k + 1] \in Seq(S) /\ f[k + 2] \in Seq(S)
        /\ f[k] = step[<<k, f[k + 1], f[k + 2]>>]
    BY <1>5, <2>1 DEF Follows
  <2> HIDE DEF ValueAt
  <2>3. QED
    BY ONLY <1>4, <2>2
<1> DEFINE h == [i \in 1..n |-> f[n + 1 - i]]
<1>7. ASSUME NEW i \in 1..n PROVE h[i] = R(i, h)
  <2>1. n + 1 - i \in 1..n
    BY <1>1
  <2>2. h[i] = ValueAt(n + 1 - i, f[n + 1 - i + 1])
    <3> HIDE DEF ValueAt
    <3>1. QED
      BY <1>6, <2>1
  <2>3. CASE i = 1
    <3>1. n + 1 - i = n
      BY <1>1, <2>3
    <3>2. QED
      BY <2>2, <2>3, <3>1
  <2>4. CASE i # 1
    <3>1. /\ n + 1 - i # n /\ n + 1 - (n + 1 - i) = i
          /\ n + 1 - i + 1 = n + 1 - (i - 1) /\ i - 1 \in 1..n
      BY <1>1, <2>4
    <3>2. h[i - 1] = f[n + 1 - i + 1]
      BY <3>1
    <3> HIDE DEF h
    <3>3. QED
      BY <2>2, <2>4, <3>1, <3>2
  <2>5. QED
    BY <2>3, <2>4
<1>8. h = [i \in 1..n |-> R(i, h)]
  <2>1. h = [i \in 1..n |-> h[i]]
    OBVIOUS
  <2> HIDE DEF h, R
  <2>2. QED
    BY <1>7, <2>1
<1> HIDE DEF h
<1>9. \E e : e = [i \in 1..n |-> R(i, e)]
  BY <1>8
<1> DEFINE e == CHOOSE e : e = [i \in 1..n |-> R(i, e)]
<1>10. e = [i \in 1..n |-> R(i, e)]
  <2> HIDE DEF R
  <2>1. QED
    BY <1>9
<1>11. FlattenSeq(seqs) = e[n]
  BY <1>1 DEF FlattenSeq, n
<1> HIDE DEF e
<1>12. \A i \in 1..n : e[i] = R(i, e)
  <2> HIDE DEF R
  <2>1. QED
    BY <1>10
<1>13. e[1] = seqs[1] /\ \A i \in 2..n : e[i] = e[i - 1] \o seqs[i]
  <2>1. 1 \in 1..n /\ \A i \in 2..n : i \in 1..n /\ i # 1
    BY <1>1
  <2>2. QED
    BY <1>12, <2>1
<1>14. \A i \in 1..n : e[i] \in Seq(S)
  <2> DEFINE T == {i \in 1..n : e[i] \in Seq(S)}
  <2>1. 1 \in T
    BY <1>1, <1>13
  <2>2. ASSUME NEW i \in 2..n, i - 1 \in T PROVE i \in T
    <3>1. e[i - 1] \in Seq(S) /\ seqs[i] \in Seq(S) /\ i \in 1..n
      BY <1>1, <2>2
    <3>2. e[i - 1] \o seqs[i] \in Seq(S)
      BY ONLY <3>1, JoinedTexts
    <3>3. QED
      BY <1>13, <3>1, <3>2
  <2> HIDE DEF T
  <2>3. \A i \in 1..n : i \in T
    BY ONLY <1>1, <2>1, <2>2, Upwards
  <2>4. QED
    BY <2>3 DEF T
<1>15. e \in [1..n -> Seq(S)]
  <2>1. e = [i \in 1..n |-> e[i]]
    <3> HIDE DEF R
    <3>1. QED
      BY <1>10
  <2>2. QED
    BY <1>14, <2>1
<1>16. QED
  BY <1>11, <1>13, <1>15 DEF n

\* Concatenation by a name that is not expanded.
Cat(s, t) == s \o t
LEMMA CatIs ==
  ASSUME NEW S, NEW s \in Seq(S), NEW t \in Seq(S)
  PROVE  /\ Cat(s, t) \in Seq(S) /\ Len(Cat(s, t)) = Len(s) + Len(t)
         /\ \A i \in 1..(Len(s) + Len(t)) :
              Cat(s, t)[i] = IF i <= Len(s) THEN s[i] ELSE t[i - Len(s)]
BY JoinedTexts DEF Cat

LEMMA CatAt ==
  ASSUME NEW S, NEW s \in Seq(S), NEW t \in Seq(S),
         NEW m \in Nat, NEW n \in Nat, Len(s) = m, Len(t) = n
  PROVE  /\ Cat(s, t) \in Seq(S) /\ Len(Cat(s, t)) = m + n
         /\ \A i \in 1..m : Cat(s, t)[i] = s[i]
         /\ \A i \in 1..n : Cat(s, t)[m + i] = t[i]
<1>1. /\ Cat(s, t) \in Seq(S) /\ Len(Cat(s, t)) = m + n
      /\ \A i \in 1..(m + n) : Cat(s, t)[i] = IF i <= m THEN s[i] ELSE t[i - m]
  BY CatIs
<1>4. ASSUME NEW i \in 1..m PROVE Cat(s, t)[i] = s[i]
  BY <1>1
<1>5. ASSUME NEW i \in 1..n PROVE Cat(s, t)[m + i] = t[i]
  <2>1. m + i \in 1..(m + n) /\ ~(m + i <= m) /\ m + i - m = i
    OBVIOUS
  <2>2. QED
    BY <1>1, <2>1
<1>6. QED
  BY ONLY <1>1, <1>4, <1>5

\* A text is written as a text, a plain one as it is.
LEMMA EscapedIs ==
  ASSUME NEW S, Marks \subseteq S, NEW s \in Seq(S)
  PROVE  Escaped(s) \in Seq(S) /\ (Plain(s) => Escaped(s) = s)
<1> DEFINE n == Len(s)
           One(i) == IF s[i] \in ToEscape THEN <<"\\", Letter(s[i])>> ELSE <<s[i]>>
           seqs == [i \in DOMAIN s |-> One(i)]
<1>1. n \in Nat /\ DOMAIN s = 1..n /\ \A i \in 1..n : s[i] \in S
  BY TextIs
<1>2. Escaped(s) = FlattenSeq(seqs)
  BY DEF Escaped
<1>3. ASSUME NEW i \in 1..n PROVE One(i) \in Seq(S)
  <2>1. s[i] \in S /\ "\\" \in S /\ Letter(s[i]) \in S
    BY <1>1 DEF Letter, Marks
  <2>2. QED
    BY <2>1
<1> HIDE DEF n
<1>4. seqs \in [1..n -> Seq(S)]
  <2> HIDE DEF One
  <2>1. QED
    BY <1>1, <1>3
<1>5. \A i \in 1..n : seqs[i] = One(i)
  BY <1>1
<1> HIDE DEF seqs
<1>6. seqs \in Seq(Seq(S)) /\ Len(seqs) = n
  BY <1>1, <1>4
<1>7. CASE n = 0
  <2>1. seqs = <<>> /\ s = <<>>
    BY <1>6, <1>7, EmptySeq DEF n
  <2>2. Len(seqs) = 0
    BY <1>6, <1>7
  <2>3. FlattenSeq(seqs) = seqs
    BY <2>2 DEF FlattenSeq
  <2>4. QED
    BY <1>2, <2>1, <2>3
<1>8. CASE n # 0
  <2>1. PICK g : /\ g \in [1..n -> Seq(S)] /\ g[1] = seqs[1]
                 /\ \A i \in 2..n : g[i] = g[i - 1] \o seqs[i]
                 /\ FlattenSeq(seqs) = g[n]
    <3>1. Len(seqs) # 0
      BY <1>6, <1>8
    <3>2. QED
      BY <1>6, <3>1, Flattened
  <2>2. n \in 1..n /\ 1 \in 1..n
    BY <1>1, <1>8
  <2>3. Escaped(s) \in Seq(S)
    BY <1>2, <2>1, <2>2
  <2>4. ASSUME Plain(s) PROVE Escaped(s) = s
    <3>1. ASSUME NEW i \in 1..n
          PROVE  /\ seqs[i] \in Seq(S) /\ Len(seqs[i]) = 1 /\ seqs[i][1] = s[i]
      <4>1. s[i] \notin ToEscape /\ s[i] \in S
        BY <1>1, <2>4 DEF Plain
      <4>2. seqs[i] = <<s[i]>>
        BY <1>5, <4>1
      <4>3. QED
        BY <4>1, <4>2, Singleton
    <3> DEFINE Same(i) == Len(g[i]) = i /\ \A j \in 1..i : g[i][j] = s[j]
               T == {i \in 1..n : Same(i)}
    <3>2. 1 \in T
      <4>1. Same(1)
        BY <2>1, <2>2, <3>1
      <4> HIDE DEF Same
      <4>2. QED
        BY <2>2, <4>1
    <3>3. ASSUME NEW i \in 2..n, i - 1 \in T PROVE i \in T
      <4>1. i \in 1..n /\ i - 1 \in 1..n /\ i - 1 + 1 = i
        BY <1>1
      <4>2. Same(i - 1)
        BY <3>3
      <4>3. g[i - 1] \in Seq(S) /\ Len(g[i - 1]) = i - 1
        BY <2>1, <4>1, <4>2
      <4> DEFINE k == i - 1
                 l == 1
                 x == g[k]
                 y == seqs[i]
      <4>4. /\ Len(g[i]) = i
            /\ \A j \in 1..(i - 1) : g[i][j] = g[i - 1][j]
            /\ g[i][i] = s[i]
        <5>1. g[i] = Cat(x, y)
          BY <2>1 DEF Cat
        <5>2. x \in Seq(S) /\ Len(x) = k /\ k \in Nat
          BY <4>1, <4>3
        <5>3. y \in Seq(S) /\ Len(y) = l /\ l \in Nat /\ y[1] = s[i]
          BY <3>1, <4>1
        <5>4. i = k + l /\ 1 \in 1..l /\ i = k + 1
          BY <4>1
        <5> HIDE DEF k, l, x, y
        <5>5. /\ Len(Cat(x, y)) = k + l
              /\ \A j \in 1..k : Cat(x, y)[j] = x[j]
              /\ \A j \in 1..l : Cat(x, y)[k + j] = y[j]
          BY ONLY <5>2, <5>3, CatAt
        <5>6. /\ Len(g[i]) = i
              /\ \A j \in 1..k : g[i][j] = x[j]
              /\ g[i][i] = s[i]
          BY ONLY <5>1, <5>3, <5>4, <5>5
        <5>7. QED
          BY <5>6 DEF k, x
      <4>5. ASSUME NEW j \in 1..i PROVE g[i][j] = s[j]
        <5>1. CASE j = i
          BY <4>4, <5>1
        <5>2. CASE j # i
          <6>1. j \in 1..(i - 1)
            BY <4>1, <5>2
          <6>2. QED
            BY <4>2, <4>4, <6>1
        <5>3. QED
          BY <5>1, <5>2
      <4>6. Same(i)
        BY <4>4, <4>5
      <4> HIDE DEF Same
      <4>7. QED
        BY <4>1, <4>6
    <3> HIDE DEF T
    <3>4. \A i \in 1..n : i \in T
      BY ONLY <1>1, <3>2, <3>3, Upwards
    <3>5. Same(n)
      <4> HIDE DEF Same
      <4>1. QED
        BY <2>2, <3>4 DEF T
    <3>6. g[n] \in Seq(S)
      BY <2>1, <2>2
    <3>7. g[n] = s
      BY <3>5, <3>6, SeqEqual DEF n
    <3>8. QED
      BY <1>2, <2>1, <3>7
  <2>5. QED
    BY <2>3, <2>4
<1>9. QED
  BY <1>7, <1>8

\* A text in quotes: its length, its end, and what is in between.
LEMMA QuotedIs ==
  ASSUME NEW S, Marks \subseteq S, NEW s \in Seq(S)
  PROVE  /\ Quoted(s) \in Seq(S) /\ Len(Quoted(s)) = Len(Escaped(s)) + 2
         /\ Quoted(s)[1] = Quote /\ Quoted(s)[Len(Escaped(s)) + 2] = Quote
         /\ \A i \in 1..Len(Escaped(s)) : Quoted(s)[i + 1] = Escaped(s)[i]
<1> DEFINE q == <<Quote>>
           e == Escaped(s)
           n == Len(Escaped(s))
           m == 1
           k == m + n
<1>1. q \in Seq(S) /\ Len(q) = m /\ m \in Nat /\ q[1] = Quote
  BY Singleton DEF Marks
<1>2. e \in Seq(S) /\ Len(e) = n /\ n \in Nat /\ k \in Nat
  BY EscapedIs, TextIs
<1>3. Quoted(s) = Cat(Cat(q, e), q)
  BY DEF Quoted, Cat
<1>4. n + 2 = k + 1 /\ k + m = n + 2 /\ k = m + n /\ 1 \in 1..m
      /\ \A i \in 1..n : m + i = i + 1 /\ m + i \in 1..k
  BY <1>2
<1> HIDE DEF q, e, n, m, k
<1>5. /\ Cat(q, e) \in Seq(S) /\ Len(Cat(q, e)) = k
      /\ \A i \in 1..m : Cat(q, e)[i] = q[i]
      /\ \A i \in 1..n : Cat(q, e)[m + i] = e[i]
  <2>1. /\ Cat(q, e) \in Seq(S) /\ Len(Cat(q, e)) = m + n
        /\ \A i \in 1..m : Cat(q, e)[i] = q[i]
        /\ \A i \in 1..n : Cat(q, e)[m + i] = e[i]
    BY ONLY <1>1, <1>2, CatAt, SMTT(30)
  <2>2. QED
    BY ONLY <1>4, <2>1
<1>6. /\ Cat(Cat(q, e), q) \in Seq(S) /\ Len(Cat(Cat(q, e), q)) = k + m
      /\ \A i \in 1..k : Cat(Cat(q, e), q)[i] = Cat(q, e)[i]
      /\ \A i \in 1..m : Cat(Cat(q, e), q)[k + i] = q[i]
  BY ONLY <1>1, <1>2, <1>5, CatAt, SMTT(20)
<1>7. ASSUME NEW i \in 1..n PROVE Cat(Cat(q, e), q)[i + 1] = e[i]
  BY ONLY <1>4, <1>5, <1>6
<1>8. Cat(Cat(q, e), q)[n + 2] = Quote
  BY ONLY <1>1, <1>4, <1>6
<1>9. Cat(Cat(q, e), q)[1] = Quote
  <2>1. 1 \in 1..k
    BY <1>2, <1>4 DEF m
  <2>2. QED
    BY ONLY <1>1, <1>4, <1>5, <1>6, <2>1
<1>10. QED
  BY <1>3, <1>4, <1>6, <1>7, <1>8, <1>9 DEF n, e

\* Every name that is written and read again is a text.
LEMMA RereadText ==
  ASSUME NEW S, Marks \subseteq S, NEW s \in Seq(S)
  PROVE  Reread(s) \in Seq(S)
<1>1. Quoted(s) \in Seq(S) /\ Len(Quoted(s)) = Len(Escaped(s)) + 2 /\ Len(Escaped(s)) \in Nat
  BY QuotedIs, EscapedIs, TextIs
<1>2. 2 \in 1..(Len(Quoted(s)) + 1)
  BY <1>1
<1>3. Content(Quoted(s), 2) \in Seq(S)
  BY <1>1, <1>2, ContentText
<1>4. QED
  BY <1>3 DEF Reread

-----------------------------------------------------------------------------
(* Blanks and digits.                                                      *)

\* Each place from the one behind it.
PastBy(f, t, symbols) ==
  /\ f \in [1..(Len(t) + 1) -> Nat] /\ f[Len(t) + 1] = Len(t) + 1
  /\ \A i \in 1..Len(t) : f[i] = IF t[i] \in symbols THEN f[i + 1] ELSE i

\* The function that Past takes its value from exists, and is this one.
LEMMA PastStep ==
  ASSUME NEW S, NEW t \in Seq(S), NEW symbols
  PROVE  \E f : /\ PastBy(f, t, symbols)
                /\ \A p \in 1..(Len(t) + 1) : Past(t, p, symbols) = f[p]
<1> DEFINE n == Len(t)
           R(i, f) == IF i <= Len(t) /\ t[i] \in symbols THEN f[i + 1] ELSE i
           base == [k \in (n + 1)..(n + 2) |-> n + 1]
           step == [q \in (1..n) \X Nat \X Nat |-> IF t[q[1]] \in symbols THEN q[2] ELSE q[1]]
<1>1. n \in Nat
  BY TextIs
<1> HIDE DEF n
<1>2. base \in [(n + 1)..(n + 2) -> Nat] /\ base[n + 1] = n + 1
  BY <1>1
<1>3. /\ step \in [(1..n) \X Nat \X Nat -> Nat]
      /\ \A i \in 1..n : \A x \in Nat : \A y \in Nat :
           step[<<i, x, y>>] = IF t[i] \in symbols THEN x ELSE i
  <2>1. ASSUME NEW q \in (1..n) \X Nat \X Nat
        PROVE  (IF t[q[1]] \in symbols THEN q[2] ELSE q[1]) \in Nat
    <3>1. q[1] \in 1..n /\ q[2] \in Nat
      OBVIOUS
    <3>2. QED
      BY <1>1, <3>1
  <2>2. QED
    BY <2>1
<1> HIDE DEF base, step
<1>4. PICK g : Follows(g, Nat, base, step, n, 1)
  BY ONLY <1>1, <1>2, <1>3, FollowsExists
<1>5. /\ g \in [1..(n + 2) -> Nat]
      /\ \A k \in 1..(n + 2) : g[k] = IF k > n THEN base[k] ELSE step[<<k, g[k + 1], g[k + 2]>>]
  BY <1>4 DEF Follows
<1> DEFINE f == [i \in 1..(n + 1) |-> g[i]]
<1>6. f \in [1..(n + 1) -> Nat] /\ f[n + 1] = n + 1
  <2>1. n + 1 \in 1..(n + 1) /\ n + 1 \in 1..(n + 2) /\ n + 1 > n
    BY <1>1
  <2>2. \A i \in 1..(n + 1) : i \in 1..(n + 2)
    BY <1>1
  <2>3. QED
    BY <1>2, <1>5, <2>1, <2>2
<1>7. ASSUME NEW i \in 1..n PROVE f[i] = IF t[i] \in symbols THEN f[i + 1] ELSE i
  <2>1. /\ i \in 1..(n + 2) /\ i + 1 \in 1..(n + 2) /\ i + 2 \in 1..(n + 2) /\ ~(i > n)
        /\ i \in 1..(n + 1) /\ i + 1 \in 1..(n + 1)
    BY <1>1
  <2>2. g[i] = step[<<i, g[i + 1], g[i + 2]>>] /\ g[i + 1] \in Nat /\ g[i + 2] \in Nat
    BY <1>5, <2>1
  <2>3. g[i] = IF t[i] \in symbols THEN g[i + 1] ELSE i
    BY ONLY <1>3, <2>2, i \in 1..n
  <2>4. QED
    BY <2>1, <2>3
<1>8. f = [i \in 1..(n + 1) |-> R(i, f)]
  <2>1. ASSUME NEW i \in 1..(n + 1) PROVE f[i] = R(i, f)
    <3>1. CASE i = n + 1
      <4>1. ~(i <= n)
        BY <1>1, <3>1
      <4>2. QED
        BY <1>6, <3>1, <4>1 DEF n
    <3>2. CASE i # n + 1
      <4>1. i \in 1..n /\ i <= n
        BY <1>1, <3>2
      <4> HIDE DEF f
      <4>2. QED
        BY <1>7, <4>1 DEF n
    <3>3. QED
      BY <3>1, <3>2
  <2>2. f = [i \in 1..(n + 1) |-> f[i]]
    OBVIOUS
  <2> HIDE DEF f, R
  <2>3. QED
    BY <2>1, <2>2
<1> HIDE DEF f
<1>9. \E e : e = [i \in 1..(n + 1) |-> R(i, e)]
  BY <1>8
<1> DEFINE e == CHOOSE e : e = [i \in 1..(n + 1) |-> R(i, e)]
<1>10. e = [i \in 1..(n + 1) |-> R(i, e)]
  <2> HIDE DEF R
  <2>1. QED
    BY <1>9
<1>11. ASSUME NEW p PROVE Past(t, p, symbols) = e[p]
  BY DEF Past, n
<1> HIDE DEF e
<1>12. \A i \in 1..(n + 1) : e[i] = R(i, e)
  <2> HIDE DEF R
  <2>1. QED
    BY <1>10
<1>13. e[n + 1] = n + 1
  <2>1. n + 1 \in 1..(n + 1) /\ ~(n + 1 <= n)
    BY <1>1
  <2>2. QED
    BY <1>12, <2>1 DEF n
<1>14. ASSUME NEW i \in 1..n PROVE e[i] = IF t[i] \in symbols THEN e[i + 1] ELSE i
  <2>1. i \in 1..(n + 1) /\ i <= n
    BY <1>1
  <2>2. QED
    BY <1>12, <2>1 DEF n
<1>15. \A i \in 1..(n + 1) : e[i] = f[i]
  <2> DEFINE T == {i \in 1..(n + 2) : i \in 1..(n + 1) => e[i] = f[i]}
  <2>1. n + 1 \in T /\ n + 2 \in T
    BY <1>1, <1>6, <1>13
  <2>2. ASSUME NEW i \in 1..n, i + 1 \in T, i + 2 \in T PROVE i \in T
    <3>1. i + 1 \in 1..(n + 1) /\ i \in 1..(n + 2)
      BY <1>1
    <3>2. e[i + 1] = f[i + 1]
      BY <2>2, <3>1
    <3>3. QED
      BY <1>7, <1>14, <3>1, <3>2
  <2> HIDE DEF T
  <2>3. \A i \in 1..(n + 2) : i \in T
    BY ONLY <1>1, <2>1, <2>2, Downwards
  <2>4. \A i \in 1..(n + 1) : i \in 1..(n + 2)
    BY <1>1
  <2>5. QED
    BY <2>3, <2>4 DEF T
<1>16. e \in [1..(n + 1) -> Nat]
  <2>1. \A i \in 1..(n + 1) : e[i] \in Nat
    BY <1>6, <1>15
  <2>2. e = [i \in 1..(n + 1) |-> e[i]]
    <3> HIDE DEF R
    <3>1. QED
      BY <1>10
  <2>3. QED
    BY <2>1, <2>2
<1>17. QED
  BY <1>11, <1>13, <1>14, <1>16 DEF n, PastBy

\* Past is the first place from p on with another symbol, behind the text if there is none.
LEMMA PastIs ==
  ASSUME NEW S, NEW t \in Seq(S), NEW symbols, NEW p \in 1..(Len(t) + 1)
  PROVE  /\ Past(t, p, symbols) \in p..(Len(t) + 1)
         /\ \A i \in p..(Past(t, p, symbols) - 1) : t[i] \in symbols
         /\ Past(t, p, symbols) <= Len(t) => t[Past(t, p, symbols)] \notin symbols
<1> DEFINE n == Len(t)
<1>0. PICK f : PastBy(f, t, symbols) /\ \A q \in 1..(n + 1) : Past(t, q, symbols) = f[q]
  BY PastStep
<1>1. /\ f \in [1..(n + 1) -> Nat] /\ f[n + 1] = n + 1
      /\ \A i \in 1..n : f[i] = IF t[i] \in symbols THEN f[i + 1] ELSE i
  BY <1>0 DEF PastBy
<1>2. n \in Nat
  BY TextIs
<1>3. p \in 1..(n + 1)
  OBVIOUS
<1> HIDE DEF n
<1> DEFINE Right(i) == /\ f[i] \in i..(n + 1)
                       /\ \A k \in i..(f[i] - 1) : t[k] \in symbols
                       /\ f[i] <= n => t[f[i]] \notin symbols
           T == {i \in 1..(n + 2) : i \in 1..(n + 1) => Right(i)}
<1>4. n + 2 \in T
  BY <1>2
<1>5. n + 1 \in T
  <2>1. Right(n + 1)
    BY <1>1, <1>2
  <2>2. n + 1 \in 1..(n + 2)
    BY <1>2
  <2> HIDE DEF Right
  <2>3. QED
    BY <2>1, <2>2
<1>6. ASSUME NEW i \in 1..n, i + 1 \in T, i + 2 \in T PROVE i \in T
  <2>1. i + 1 \in 1..(n + 1) /\ i \in 1..(n + 2)
    BY <1>2
  <2>2. Right(i + 1)
    BY <1>6, <2>1
  <2>3. CASE t[i] \in symbols
    <3>1. f[i] = f[i + 1]
      BY <1>1, <2>3
    <3>2. f[i + 1] \in i..(n + 1)
      BY <1>2, <2>2
    <3>3. ASSUME NEW k \in i..(f[i + 1] - 1) PROVE t[k] \in symbols
      <4>1. k = i \/ k \in (i + 1)..(f[i + 1] - 1)
        BY <3>2
      <4>2. QED
        BY <2>2, <2>3, <4>1
    <3>4. Right(i)
      BY <2>2, <3>1, <3>2, <3>3
    <3> HIDE DEF Right
    <3>5. QED
      BY <2>1, <3>4
  <2>4. CASE t[i] \notin symbols
    <3>1. f[i] = i
      BY <1>1, <2>4
    <3>2. Right(i)
      BY <1>2, <2>4, <3>1
    <3> HIDE DEF Right
    <3>3. QED
      BY <2>1, <3>2
  <2>5. QED
    BY <2>3, <2>4
<1> HIDE DEF T
<1>7. \A i \in 1..(n + 2) : i \in T
  BY ONLY <1>2, <1>4, <1>5, <1>6, Downwards
<1>8. p \in 1..(n + 2)
  BY <1>2, <1>3
<1>9. Right(p)
  <2> HIDE DEF Right
  <2>1. QED
    BY <1>3, <1>7, <1>8 DEF T
<1>10. QED
  BY <1>0, <1>9 DEF n

\* So it is q when all in between are of the symbols and q is not.
LEMMA PastTo ==
  ASSUME NEW S, NEW t \in Seq(S), NEW symbols, NEW p \in 1..(Len(t) + 1),
         NEW q \in p..(Len(t) + 1), \A i \in p..(q - 1) : t[i] \in symbols,
         q <= Len(t) => t[q] \notin symbols
  PROVE  Past(t, p, symbols) = q
<1> DEFINE n == Len(t)
           r == Past(t, p, symbols)
<1>1. /\ r \in p..(n + 1) /\ (r <= n => t[r] \notin symbols)
      /\ \A i \in p..(r - 1) : t[i] \in symbols
  BY PastIs
<1>2. n \in Nat
  BY TextIs
<1>3. /\ p \in 1..(n + 1) /\ q \in p..(n + 1) /\ (q <= n => t[q] \notin symbols)
      /\ \A i \in p..(q - 1) : t[i] \in symbols
  OBVIOUS
<1> HIDE DEF n, r
<1>4. ~(r < q)
  <2>1. ASSUME r < q PROVE FALSE
    <3>1. r \in p..(q - 1) /\ r <= n
      BY <1>1, <1>2, <1>3, <2>1
    <3>2. QED
      BY <1>1, <1>3, <3>1
  <2>2. QED
    BY <2>1
<1>5. ~(q < r)
  <2>1. ASSUME q < r PROVE FALSE
    <3>1. q \in p..(r - 1) /\ q <= n
      BY <1>1, <1>2, <1>3, <2>1
    <3>2. QED
      BY <1>1, <1>3, <3>1
  <2>2. QED
    BY <2>1
<1>6. r = q
  BY <1>1, <1>2, <1>3, <1>4, <1>5
<1>7. QED
  BY <1>6 DEF r

\* skip_whitespace goes to the next symbol that is no blank.
LEMMA SkipIs ==
  ASSUME NEW S, NEW t \in Seq(S), NEW p \in 1..(Len(t) + 1)
  PROVE  /\ Skip(t, p) \in p..(Len(t) + 1)
         /\ \A i \in p..(Skip(t, p) - 1) : t[i] \in White
         /\ Skip(t, p) <= Len(t) => t[Skip(t, p)] \notin White /\ Peek(t, p) = t[Skip(t, p)]
         /\ ~(Skip(t, p) <= Len(t)) => Peek(t, p) = "end"
BY PastIs DEF Skip, Peek

LEMMA SkipTo ==
  ASSUME NEW S, NEW t \in Seq(S), NEW p \in 1..(Len(t) + 1), NEW q \in p..Len(t),
         \A i \in p..(q - 1) : t[i] \in White, t[q] \notin White
  PROVE  Skip(t, p) = q /\ Peek(t, p) = t[q] /\ After(t, p) = q + 1
<1>1. q \in p..(Len(t) + 1) /\ q <= Len(t)
  BY TextIs
<1>2. Skip(t, p) = q
  BY <1>1, PastTo DEF Skip
<1>3. QED
  BY <1>1, <1>2 DEF Peek, After

LEMMA SkipToEnd ==
  ASSUME NEW S, NEW t \in Seq(S), NEW p \in 1..(Len(t) + 1),
         \A i \in p..Len(t) : t[i] \in White
  PROVE  Skip(t, p) = Len(t) + 1 /\ Peek(t, p) = "end"
<1>1. /\ Len(t) + 1 \in p..(Len(t) + 1) /\ ~(Len(t) + 1 <= Len(t))
      /\ \A i \in p..(Len(t) + 1 - 1) : i \in p..Len(t)
  BY TextIs
<1>2. Skip(t, p) = Len(t) + 1
  BY <1>1, PastTo DEF Skip
<1>3. QED
  BY <1>1, <1>2 DEF Peek

\* Blanks before a symbol make no difference.
LEMMA SkipSkips ==
  ASSUME NEW S, NEW t \in Seq(S), NEW p \in 1..(Len(t) + 1), NEW q \in p..(Len(t) + 1),
         \A i \in p..(q - 1) : t[i] \in White
  PROVE  Skip(t, p) = Skip(t, q) /\ Peek(t, p) = Peek(t, q) /\ After(t, p) = After(t, q)
<1>1. q \in 1..(Len(t) + 1) /\ Len(t) \in Nat
  BY TextIs
<1> DEFINE n == Len(t)
           r == Skip(t, q)
<1>2. /\ r \in q..(n + 1) /\ (r <= n => t[r] \notin White)
      /\ \A i \in q..(r - 1) : t[i] \in White
  BY <1>1, SkipIs
<1> HIDE DEF r
<1>3. r \in p..(n + 1)
  BY <1>1, <1>2
<1>4. ASSUME NEW i \in p..(r - 1) PROVE t[i] \in White
  <2>1. i \in p..(q - 1) \/ i \in q..(r - 1)
    BY <1>1, <1>2
  <2>2. QED
    BY <1>2, <2>1
<1>5. Past(t, p, White) = r
  BY <1>2, <1>3, <1>4, PastTo
<1>6. Skip(t, p) = Skip(t, q)
  BY <1>5 DEF Skip, r
<1>7. QED
  BY <1>6 DEF Peek, After

\* The symbols that the reader tells apart.
OpenArray   == "["
CloseArray  == "]"
OpenObject  == "{"
CloseObject == "}"
Comma       == ","
Between     == ":"
TheEnd      == "end"
Marker      == {OpenArray, CloseArray, OpenObject, CloseObject, Comma, Between}
NumberStart == Digits \cup {"-"}

\* The symbols that a value begins with.
Starts(c) == c \in Words \/ c = Quote \/ c = OpenArray \/ c = OpenObject \/ c \in NumberStart

LEMMA SymbolsDiffer ==
  /\ Quote \notin White /\ Quote \notin Marker /\ Quote \notin Words /\ Quote \notin NumberStart
  /\ Quote # "\\" /\ Quote # TheEnd
  /\ \A c \in Marker : c \notin White /\ c \notin Words /\ c \notin NumberStart /\ c # TheEnd
  /\ \A c \in Words : c \notin White /\ c \notin NumberStart /\ c # TheEnd
  /\ \A c \in NumberStart : c \notin White /\ c # TheEnd
  /\ TheEnd \notin White
BY Zenon DEF Quote, White, Space, Marker, Words, Digits, OpenArray, CloseArray, OpenObject,
             CloseObject, Comma, Between, TheEnd, NumberStart

LEMMA MarkersDiffer ==
  /\ Marker = {OpenArray, CloseArray, OpenObject, CloseObject, Comma, Between}
  /\ OpenArray \notin {CloseArray, OpenObject, CloseObject, Comma, Between}
  /\ CloseArray \notin {OpenObject, CloseObject, Comma, Between}
  /\ OpenObject \notin {CloseObject, Comma, Between}
  /\ CloseObject \notin {Comma, Between}
  /\ Comma # Between
BY Zenon DEF Marker, OpenArray, CloseArray, OpenObject, CloseObject, Comma, Between

\* No value begins with the end of an array or object, with a comma or with a blank.
LEMMA StartsAre ==
  ASSUME NEW c, Starts(c)
  PROVE  c \notin White /\ c # TheEnd /\ c # CloseArray /\ c # CloseObject /\ c # Comma
BY SymbolsDiffer, MarkersDiffer, Zenon DEF Starts

-----------------------------------------------------------------------------
(* The parts of the reader.                                                *)

\* A part of the reader fails or leaves the position somewhere behind where it was.
Advances(t, p, r) == r.next = 0 \/ r.next \in (p + 1)..(Len(t) + 1)

\* The closing quote is behind the opening one, in the text if it is found.
LEMMA QuoteIsBehind ==
  ASSUME NEW S, NEW t \in Seq(S), NEW p \in 1..(Len(t) + 2)
  PROVE  Scan(t, p).quote \in Nat /\ Scan(t, p).quote >= p
<1> DEFINE n == Len(t)
<1>1. PICK f : ScannedBy(f, t) /\ \A i \in 1..(n + 2) : Scan(t, i) = f[i]
  BY ScanIs
<1>2. n \in Nat
  BY TextIs
<1>3. /\ f[n + 1].quote = n + 1 /\ f[n + 2].quote = n + 2
      /\ \A i \in 1..n : f[i].quote = CASE t[i] = Quote -> i
                                        [] t[i] = "\\" -> f[i + 2].quote
                                        [] OTHER -> f[i + 1].quote
  BY <1>1 DEF ScannedBy
<1>4. p \in 1..(n + 2)
  OBVIOUS
<1> HIDE DEF n
<1> DEFINE Behind(i) == f[i].quote \in Nat /\ f[i].quote >= i
           T == {i \in 1..(n + 2) : Behind(i)}
<1>5. n + 1 \in T /\ n + 2 \in T
  BY <1>2, <1>3
<1>6. ASSUME NEW i \in 1..n, i + 1 \in T, i + 2 \in T PROVE i \in T
  <2>1. i \in 1..(n + 2)
    BY <1>2
  <2>2. Quote # "\\"
    BY SymbolsDiffer
  <2>3. f[i].quote = i \/ f[i].quote = f[i + 1].quote \/ f[i].quote = f[i + 2].quote
    BY <1>3, <2>2
  <2>4. /\ f[i + 1].quote \in Nat /\ f[i + 1].quote >= i + 1
        /\ f[i + 2].quote \in Nat /\ f[i + 2].quote >= i + 2
    BY <1>6
  <2>5. Behind(i)
    <3> DEFINE q == f[i].quote
               x == f[i + 1].quote
               y == f[i + 2].quote
    <3>1. i \in Nat /\ (q = i \/ q = x \/ q = y) /\ x \in Nat /\ x >= i + 1 /\ y \in Nat /\ y >= i + 2
      BY <2>1, <2>3, <2>4
    <3> HIDE DEF q, x, y
    <3>2. q \in Nat /\ q >= i
      BY ONLY <3>1
    <3>3. QED
      BY <3>2 DEF q
  <2> HIDE DEF Behind
  <2>6. QED
    BY <2>1, <2>5
<1> HIDE DEF T
<1>7. \A i \in 1..(n + 2) : i \in T
  BY ONLY <1>2, <1>5, <1>6, Downwards
<1>8. Behind(p)
  <2> HIDE DEF Behind
  <2>1. QED
    BY <1>4, <1>7 DEF T
<1>9. QED
  BY <1>1, <1>4, <1>8 DEF n

\* What is read of a string, and of a number.
LEMMA StringAdvances ==
  ASSUME NEW S, NEW t \in Seq(S), NEW p \in 1..(Len(t) + 1)
  PROVE  Advances(t, p, ParseString(t, p))
<1> DEFINE n == Len(t)
           start == After(t, p)
           quote == Scan(t, start).quote
<1>1. n \in Nat /\ p \in 1..(n + 1) /\ start \in (p + 1)..(n + 2)
  BY TextIs, SkipIs DEF After
<1>2. start \in 1..(Len(t) + 2)
  BY <1>1
<1>3. quote \in Nat /\ quote >= start
  BY ONLY <1>2, QuoteIsBehind, t \in Seq(S)
<1>4. ParseString(t, p) = Failed \/ (quote <= n /\ ParseString(t, p).next = quote + 1)
  BY DEF ParseString, Read
<1>5. Failed.next = 0
  BY DEF Failed, Read
<1> HIDE DEF n, start, quote
<1>6. quote <= n => quote + 1 \in (p + 1)..(n + 1)
  BY <1>1, <1>3
<1>7. QED
  BY <1>4, <1>5, <1>6 DEF Advances, n

LEMMA NumberAdvances ==
  ASSUME NEW S, NEW t \in Seq(S), NEW p \in 1..Len(t)
  PROVE  Advances(t, p, ParseNumber(t, p))
<1> DEFINE n == Len(t)
           first == IF t[p] = "-" THEN p + 1 ELSE p
           end == Past(t, first, Digits)
<1>1. n \in Nat /\ p \in 1..n /\ first \in p..(p + 1) /\ first \in 1..(Len(t) + 1)
  BY TextIs
<1>2. end \in first..(n + 1)
  BY ONLY <1>1, PastIs, t \in Seq(S)
<1>3. ParseNumber(t, p) = Failed \/ (end > first /\ ParseNumber(t, p).next = end)
  BY DEF ParseNumber, Read
<1>4. Failed.next = 0
  BY DEF Failed, Read
<1> HIDE DEF n, first, end
<1>5. end > first => end \in (p + 1)..(n + 1)
  BY <1>1, <1>2
<1>6. QED
  BY <1>3, <1>4, <1>5 DEF Advances, n

\* An array or object behind its bracket: empty, or what the loop makes of it.
Inside(t, q, close, empty, kind, f) ==
  IF Peek(t, q) = close THEN Read(empty, After(t, q)) ELSE f[<<kind, q>>]

\* parse_value by the first symbol that it sees.
LEMMA ValueRules ==
  ASSUME NEW t, NEW p, NEW f
  PROVE  /\ Peek(t, p) \in Words =>
              ParseValue(t, p, f) = Read(Word(Peek(t, p)), Skip(t, p) + 1)
         /\ Peek(t, p) = Quote => ParseValue(t, p, f) = ParseString(t, Skip(t, p))
         /\ Peek(t, p) = OpenArray =>
              ParseValue(t, p, f) =
                Inside(t, Skip(t, p) + 1, CloseArray, Array(<<>>), "items", f)
         /\ Peek(t, p) = OpenObject =>
              ParseValue(t, p, f) =
                Inside(t, Skip(t, p) + 1, CloseObject, Object(<<>>, <<>>), "members", f)
         /\ Peek(t, p) \in NumberStart => ParseValue(t, p, f) = ParseNumber(t, Skip(t, p))
         /\ ~Starts(Peek(t, p)) => ParseValue(t, p, f) = Failed
<1> DEFINE c == Peek(t, p)
           at == Skip(t, p)
           array == Inside(t, at + 1, CloseArray, Array(<<>>), "items", f)
           object == Inside(t, at + 1, CloseObject, Object(<<>>, <<>>), "members", f)
           word == Read(Word(c), at + 1)
           string == ParseString(t, at)
           number == ParseNumber(t, at)
           p1 == c \in Words
           p2 == c = Quote
           p3 == c = OpenArray
           p4 == c = OpenObject
           p5 == c \in NumberStart
           v  == ParseValue(t, p, f)
<1>1. v = CASE p1 -> word [] p2 -> string [] p3 -> array [] p4 -> object [] p5 -> number
            [] OTHER -> Failed
  BY DEF ParseValue, Inside, OpenArray, OpenObject, CloseArray, CloseObject, NumberStart
<1>2. /\ ~(p1 /\ p2) /\ ~(p1 /\ p3) /\ ~(p1 /\ p4) /\ ~(p1 /\ p5) /\ ~(p2 /\ p3)
      /\ ~(p2 /\ p4) /\ ~(p2 /\ p5) /\ ~(p3 /\ p4) /\ ~(p3 /\ p5) /\ ~(p4 /\ p5)
  BY SymbolsDiffer, MarkersDiffer, Zenon
<1>3. Starts(c) => p1 \/ p2 \/ p3 \/ p4 \/ p5
  BY Zenon DEF Starts
<1>4. p1 \/ p2 \/ p3 \/ p4 \/ p5 => Starts(c)
  BY Zenon DEF Starts
<1> HIDE DEF p1, p2, p3, p4, p5, v, word, string, array, object, number
<1>5. /\ p1 => v = word
      /\ p2 => v = string
      /\ p3 => v = array
      /\ p4 => v = object
      /\ p5 => v = number
      /\ ~p1 /\ ~p2 /\ ~p3 /\ ~p4 /\ ~p5 => v = Failed
  BY ONLY <1>1, <1>2, Zenon
<1>6. QED
  BY <1>4, <1>5, Zenon DEF p1, p2, p3, p4, p5, v, word, string, array, object, number

\* What two tries of the reader agree on behind p, every part advancing there.
SameBehind(t, p, f, g) ==
  \A kind \in Kinds, q \in (p + 1)..(Len(t) + 1) :
    f[<<kind, q>>] = g[<<kind, q>>] /\ Advances(t, q, f[<<kind, q>>])

LEMMA ReadOf == ASSUME NEW v, NEW p PROVE Read(v, p).next = p /\ Read(v, p).value = v
BY DEF Read

LEMMA FailedIs == Failed.next = 0 /\ ~Ok(Failed)
BY ReadOf DEF Failed, Ok

LEMMA AdvancesFrom ==
  ASSUME NEW t, NEW p \in Nat, NEW q \in Nat, p <= q, Len(t) \in Nat, NEW r, Advances(t, q, r)
  PROVE  Advances(t, p, r)
BY DEF Advances

LEMMA KindsAre == "value" \in Kinds /\ "items" \in Kinds /\ "members" \in Kinds
BY DEF Kinds

\* When a symbol is seen, it is there, and what follows it is in the text or at its end.
LEMMA Seen ==
  ASSUME NEW S, NEW t \in Seq(S), NEW p \in 1..(Len(t) + 1), Peek(t, p) # TheEnd
  PROVE  /\ Skip(t, p) \in p..Len(t) /\ Peek(t, p) = t[Skip(t, p)]
         /\ After(t, p) = Skip(t, p) + 1 /\ After(t, p) \in (p + 1)..(Len(t) + 1)
<1>1. Len(t) \in Nat /\ Skip(t, p) \in p..(Len(t) + 1)
  BY TextIs, SkipIs
<1>2. Skip(t, p) <= Len(t) /\ Peek(t, p) = t[Skip(t, p)]
  BY <1>1, SkipIs DEF TheEnd
<1>3. QED
  BY <1>1, <1>2 DEF After

\* What is inside brackets, by what follows the one that opens.
LEMMA InsideNeeds ==
  ASSUME NEW S, NEW t \in Seq(S), NEW p \in 1..(Len(t) + 1), NEW f, NEW g,
         SameBehind(t, p, f, g), NEW q \in (p + 1)..(Len(t) + 1),
         NEW close, close # TheEnd, NEW empty, NEW kind \in Kinds
  PROVE  /\ Inside(t, q, close, empty, kind, f) = Inside(t, q, close, empty, kind, g)
         /\ Advances(t, p, Inside(t, q, close, empty, kind, f))
<1>1. Len(t) \in Nat /\ p \in Nat /\ q \in Nat /\ p <= q /\ q \in 1..(Len(t) + 1)
  BY TextIs
<1>2. f[<<kind, q>>] = g[<<kind, q>>] /\ Advances(t, q, f[<<kind, q>>])
  BY DEF SameBehind
<1>3. Advances(t, p, f[<<kind, q>>])
  BY <1>1, <1>2, AdvancesFrom
<1>4. ASSUME Peek(t, q) = close PROVE Advances(t, p, Read(empty, After(t, q)))
  <2>1. After(t, q) \in (q + 1)..(Len(t) + 1)
    BY <1>1, <1>4, Seen
  <2>2. After(t, q) \in (p + 1)..(Len(t) + 1)
    BY <1>1, <2>1
  <2>3. QED
    BY <2>2, ReadOf DEF Advances
<1>5. QED
  BY <1>2, <1>3, <1>4 DEF Inside

\* A value depends on what is behind the place where it begins, and advances.
LEMMA ValueNeeds ==
  ASSUME NEW S, NEW t \in Seq(S), NEW p \in 1..(Len(t) + 1), NEW f, NEW g,
         SameBehind(t, p, f, g)
  PROVE  /\ ParseValue(t, p, f) = ParseValue(t, p, g)
         /\ Advances(t, p, ParseValue(t, p, f))
<1> DEFINE n == Len(t)
           at == Skip(t, p)
           c == Peek(t, p)
<1>1. n \in Nat /\ p \in 1..(n + 1)
  BY TextIs
<1>2. Advances(t, p, Failed)
  BY FailedIs DEF Advances
<1>3. CASE ~Starts(c)
  <2>1. ParseValue(t, p, f) = Failed /\ ParseValue(t, p, g) = Failed
    BY <1>3, ValueRules
  <2>2. QED
    BY <1>2, <2>1
<1>4. CASE Starts(c)
  <2>1. at \in p..n /\ at + 1 \in (p + 1)..(n + 1)
    <3>1. c # TheEnd
      BY <1>4, StartsAre
    <3>2. QED
      BY <1>1, <3>1, Seen
  <2>2. at \in Nat /\ p \in Nat /\ p <= at /\ at \in 1..n /\ at \in 1..(n + 1)
    BY <1>1, <2>1
  <2>3. CASE c \in Words
    <3>1. /\ ParseValue(t, p, f) = Read(Word(c), at + 1)
          /\ ParseValue(t, p, g) = Read(Word(c), at + 1)
      BY <2>3, ValueRules
    <3>2. Advances(t, p, Read(Word(c), at + 1))
      BY <2>1, ReadOf DEF Advances
    <3>3. QED
      BY <3>1, <3>2
  <2>4. CASE c = Quote
    <3>1. ParseValue(t, p, f) = ParseString(t, at) /\ ParseValue(t, p, g) = ParseString(t, at)
      BY <2>4, ValueRules
    <3>2. Advances(t, at, ParseString(t, at))
      BY <2>2, StringAdvances
    <3>3. Advances(t, p, ParseString(t, at))
      BY <1>1, <2>2, <3>2, AdvancesFrom
    <3>4. QED
      BY <3>1, <3>3
  <2>5. CASE c = OpenArray
    <3> DEFINE e(h) == Inside(t, at + 1, CloseArray, Array(<<>>), "items", h)
    <3>1. ParseValue(t, p, f) = e(f) /\ ParseValue(t, p, g) = e(g)
      BY <2>5, ValueRules
    <3>2. CloseArray # TheEnd
      BY SymbolsDiffer, MarkersDiffer
    <3>3. e(f) = e(g) /\ Advances(t, p, e(f))
      BY <2>1, <3>2, InsideNeeds, KindsAre
    <3> HIDE DEF e
    <3>4. QED
      BY <3>1, <3>3
  <2>6. CASE c = OpenObject
    <3> DEFINE e(h) == Inside(t, at + 1, CloseObject, Object(<<>>, <<>>), "members", h)
    <3>1. ParseValue(t, p, f) = e(f) /\ ParseValue(t, p, g) = e(g)
      BY <2>6, ValueRules
    <3>2. CloseObject # TheEnd
      BY SymbolsDiffer, MarkersDiffer
    <3>3. e(f) = e(g) /\ Advances(t, p, e(f))
      BY <2>1, <3>2, InsideNeeds, KindsAre
    <3> HIDE DEF e
    <3>4. QED
      BY <3>1, <3>3
  <2>7. CASE c \in NumberStart
    <3>1. ParseValue(t, p, f) = ParseNumber(t, at) /\ ParseValue(t, p, g) = ParseNumber(t, at)
      BY <2>7, ValueRules
    <3>2. Advances(t, at, ParseNumber(t, at))
      BY <2>2, NumberAdvances
    <3>3. Advances(t, p, ParseNumber(t, at))
      BY <1>1, <2>2, <3>2, AdvancesFrom
    <3>4. QED
      BY <3>1, <3>3
  <2>8. QED
    BY <1>4, <2>3, <2>4, <2>5, <2>6, <2>7 DEF Starts
<1>5. QED
  BY <1>3, <1>4

LEMMA JoinedIs ==
  ASSUME NEW first, NEW rest
  PROVE  /\ Joined(first, rest).next = rest.next
         /\ Ok(rest) => Joined(first, rest).value =
              [first EXCEPT !.keys = @ \o rest.value.keys, !.items = @ \o rest.value.items]
<1> DEFINE v == [first EXCEPT !.keys = @ \o rest.value.keys, !.items = @ \o rest.value.items]
<1> HIDE DEF v
<1>1. Joined(first, rest) = IF Ok(rest) THEN Read(v, rest.next) ELSE Failed
  BY DEF Joined, v
<1>2. Ok(rest) => Joined(first, rest).next = rest.next /\ Joined(first, rest).value = v
  BY <1>1, ReadOf
<1>3. ~Ok(rest) => Joined(first, rest).next = rest.next
  BY <1>1, FailedIs DEF Ok
<1>4. QED
  BY <1>2, <1>3 DEF v

\* What comes after an entry, by the symbol there.
LEMMA ContinuedRules ==
  ASSUME NEW t, NEW p, NEW entry, NEW close, close # Comma, NEW kind, NEW f
  PROVE  /\ Peek(t, p) = close => Continued(t, p, entry, close, kind, f) = Read(entry, After(t, p))
         /\ Peek(t, p) = Comma =>
              Continued(t, p, entry, close, kind, f) = Joined(entry, f[<<kind, After(t, p)>>])
         /\ Peek(t, p) # close /\ Peek(t, p) # Comma =>
              Continued(t, p, entry, close, kind, f) = Failed
<1> DEFINE c == Peek(t, p)
           stop == Read(entry, After(t, p))
           more == Joined(entry, f[<<kind, After(t, p)>>])
           p1 == c = close
           p2 == c = Comma
           v  == Continued(t, p, entry, close, kind, f)
<1>1. v = CASE p1 -> stop [] p2 -> more [] OTHER -> Failed
  BY Zenon DEF Continued, Comma
<1>2. ~(p1 /\ p2)
  OBVIOUS
<1> HIDE DEF p1, p2, v, stop, more
<1>3. (p1 => v = stop) /\ (p2 => v = more) /\ (~p1 /\ ~p2 => v = Failed)
  BY ONLY <1>1, <1>2, Zenon
<1>4. QED
  BY <1>3, Zenon DEF p1, p2, v, stop, more

LEMMA ContinuedNeeds ==
  ASSUME NEW S, NEW t \in Seq(S), NEW p \in 1..(Len(t) + 1), NEW f, NEW g,
         SameBehind(t, p, f, g), NEW q \in (p + 1)..(Len(t) + 1),
         NEW close, close # TheEnd, close # Comma, NEW entry, NEW kind \in Kinds
  PROVE  /\ Continued(t, q, entry, close, kind, f) = Continued(t, q, entry, close, kind, g)
         /\ Advances(t, p, Continued(t, q, entry, close, kind, f))
<1>1. Len(t) \in Nat /\ p \in Nat /\ q \in Nat /\ p <= q /\ q \in 1..(Len(t) + 1)
  BY TextIs
<1> DEFINE r == After(t, q)
           v(h) == Continued(t, q, entry, close, kind, h)
<1>2. Peek(t, q) # TheEnd => r \in (p + 1)..(Len(t) + 1) /\ r \in Nat /\ p <= r
  <2>1. Peek(t, q) # TheEnd => r \in (q + 1)..(Len(t) + 1)
    BY <1>1, Seen
  <2>2. QED
    BY <1>1, <2>1
<1>3. CASE Peek(t, q) = close
  <2>1. v(f) = Read(entry, r) /\ v(g) = Read(entry, r)
    BY <1>3, ContinuedRules
  <2>2. Advances(t, p, Read(entry, r))
    BY <1>2, <1>3, ReadOf DEF Advances
  <2>3. QED
    BY <2>1, <2>2
<1>4. CASE Peek(t, q) = Comma
  <2>1. v(f) = Joined(entry, f[<<kind, r>>]) /\ v(g) = Joined(entry, g[<<kind, r>>])
    BY <1>4, ContinuedRules
  <2>2. Comma # TheEnd
    BY SymbolsDiffer, MarkersDiffer
  <2>3. f[<<kind, r>>] = g[<<kind, r>>] /\ Advances(t, r, f[<<kind, r>>])
    BY <1>2, <1>4, <2>2 DEF SameBehind
  <2>4. Advances(t, p, f[<<kind, r>>])
    BY <1>1, <1>2, <1>4, <2>2, <2>3, AdvancesFrom
  <2>5. Advances(t, p, Joined(entry, f[<<kind, r>>]))
    BY <2>4, JoinedIs, Zenon DEF Advances
  <2>6. QED
    BY <2>1, <2>3, <2>5
<1>5. CASE Peek(t, q) # close /\ Peek(t, q) # Comma
  <2>1. v(f) = Failed /\ v(g) = Failed
    BY <1>5, ContinuedRules
  <2>2. QED
    BY <2>1, FailedIs DEF Advances
<1>6. QED
  BY <1>3, <1>4, <1>5

\* The loops depend on the value where they begin, too, and advance.
LEMMA ItemsNeed ==
  ASSUME NEW S, NEW t \in Seq(S), NEW p \in 1..(Len(t) + 1), NEW f, NEW g,
         SameBehind(t, p, f, g), f[<<"value", p>>] = g[<<"value", p>>],
         Advances(t, p, f[<<"value", p>>])
  PROVE  /\ ParseItems(t, p, f) = ParseItems(t, p, g)
         /\ Advances(t, p, ParseItems(t, p, f))
<1> DEFINE item == f[<<"value", p>>]
           v(h) == Continued(t, item.next, Array(<<item.value>>), CloseArray, "items", h)
<1>1. /\ ParseItems(t, p, f) = IF Ok(item) THEN v(f) ELSE Failed
      /\ ParseItems(t, p, g) = IF Ok(item) THEN v(g) ELSE Failed
  BY DEF ParseItems, CloseArray
<1>2. ASSUME Ok(item) PROVE v(f) = v(g) /\ Advances(t, p, v(f))
  <2>1. item.next \in (p + 1)..(Len(t) + 1)
    BY <1>2 DEF Ok, Advances
  <2>2. CloseArray # TheEnd /\ CloseArray # Comma
    BY SymbolsDiffer, MarkersDiffer
  <2> HIDE DEF item
  <2>3. QED
    BY <2>1, <2>2, KindsAre, ContinuedNeeds
<1>3. Advances(t, p, Failed)
  BY FailedIs DEF Advances
<1> HIDE DEF v, item
<1>4. QED
  BY <1>1, <1>2, <1>3

LEMMA MembersNeed ==
  ASSUME NEW S, NEW t \in Seq(S), NEW p \in 1..(Len(t) + 1), NEW f, NEW g,
         SameBehind(t, p, f, g)
  PROVE  /\ ParseMembers(t, p, f) = ParseMembers(t, p, g)
         /\ Advances(t, p, ParseMembers(t, p, f))
<1> DEFINE key == ParseString(t, p)
           r == After(t, key.next)
           item(h) == h[<<"value", r>>]
           v(h) == Continued(t, item(h).next, Object(<<key.value.text>>, <<item(h).value>>),
                             CloseObject, "members", h)
           fine(h) == Ok(key) /\ Peek(t, key.next) = Between /\ Ok(item(h))
<1>1. /\ ParseMembers(t, p, f) = IF fine(f) THEN v(f) ELSE Failed
      /\ ParseMembers(t, p, g) = IF fine(g) THEN v(g) ELSE Failed
  BY DEF ParseMembers, CloseObject, Between
<1>2. Len(t) \in Nat /\ p \in 1..(Len(t) + 1) /\ Advances(t, p, key)
  BY TextIs, StringAdvances
<1>3. CASE Ok(key) /\ Peek(t, key.next) = Between
  <2>1. key.next \in (p + 1)..(Len(t) + 1) /\ key.next \in 1..(Len(t) + 1)
    BY <1>2, <1>3 DEF Ok, Advances
  <2>2. Between # TheEnd
    BY SymbolsDiffer, MarkersDiffer
  <2> HIDE DEF key
  <2>3. r \in (p + 1)..(Len(t) + 1)
    <3>1. r \in (key.next + 1)..(Len(t) + 1)
      BY <1>3, <2>1, <2>2, Seen
    <3>2. QED
      BY <1>2, <2>1, <3>1
  <2> HIDE DEF r
  <2>4. f[<<"value", r>>] = g[<<"value", r>>] /\ Advances(t, r, f[<<"value", r>>])
    BY <2>3, KindsAre DEF SameBehind
  <2>5. ASSUME Ok(item(f)) PROVE v(f) = v(g) /\ Advances(t, p, v(f))
    <3>1. item(f).next \in (p + 1)..(Len(t) + 1)
      BY <1>2, <2>3, <2>4, <2>5 DEF Ok, Advances
    <3>2. CloseObject # TheEnd /\ CloseObject # Comma
      BY SymbolsDiffer, MarkersDiffer
    <3>3. item(f) = item(g)
      BY <2>4
    <3> DEFINE e == Object(<<key.value.text>>, <<item(f).value>>)
               w(h) == Continued(t, item(f).next, e, CloseObject, "members", h)
    <3>4. v(f) = w(f) /\ v(g) = w(g)
      BY <3>3
    <3> HIDE DEF e, item, v
    <3>5. w(f) = w(g) /\ Advances(t, p, w(f))
      BY <3>1, <3>2, KindsAre, ContinuedNeeds
    <3> HIDE DEF w
    <3>6. QED
      BY <3>4, <3>5
  <2>6. fine(f) <=> fine(g)
    BY <2>4
  <2>7. fine(f) => Ok(item(f))
    OBVIOUS
  <2>8. Advances(t, p, Failed)
    BY FailedIs DEF Advances
  <2> HIDE DEF fine, item, v
  <2>9. QED
    BY <1>1, <2>5, <2>6, <2>7, <2>8
<1>4. CASE ~(Ok(key) /\ Peek(t, key.next) = Between)
  <2>1. ~fine(f) /\ ~fine(g)
    BY <1>4
  <2> HIDE DEF fine, item, v
  <2>2. QED
    BY <1>1, <2>1, FailedIs DEF Advances
<1>5. QED
  BY <1>3, <1>4

\* Each part of the reader from the parts that are known.
LEMMA PartRules ==
  ASSUME NEW t, NEW p, NEW f
  PROVE  /\ ParsePart(t, <<"value", p>>, f) = ParseValue(t, p, f)
         /\ ParsePart(t, <<"items", p>>, f) = ParseItems(t, p, f)
         /\ ParsePart(t, <<"members", p>>, f) = ParseMembers(t, p, f)
<1> DEFINE value == ParseValue(t, p, f)
           items == ParseItems(t, p, f)
           members == ParseMembers(t, p, f)
           part(k) == CASE k = "value" -> value [] k = "items" -> items [] k = "members" -> members
<1>1. ASSUME NEW k PROVE ParsePart(t, <<k, p>>, f) = part(k)
  BY Zenon DEF ParsePart
<1> HIDE DEF value, items, members
<1>2. part("value") = value /\ part("items") = items /\ part("members") = members
  OBVIOUS
<1> HIDE DEF part
<1>3. QED
  BY <1>1, <1>2 DEF value, items, members

LEMMA PartNeeds ==
  ASSUME NEW S, NEW t \in Seq(S), NEW p \in 1..(Len(t) + 1), NEW f, NEW g,
         SameBehind(t, p, f, g), NEW kind \in Kinds,
         kind = "items" => /\ f[<<"value", p>>] = g[<<"value", p>>]
                           /\ Advances(t, p, f[<<"value", p>>])
  PROVE  /\ ParsePart(t, <<kind, p>>, f) = ParsePart(t, <<kind, p>>, g)
         /\ Advances(t, p, ParsePart(t, <<kind, p>>, f))
<1>1. CASE kind = "value"
  <2>1. /\ ParsePart(t, <<kind, p>>, f) = ParseValue(t, p, f)
        /\ ParsePart(t, <<kind, p>>, g) = ParseValue(t, p, g)
    BY <1>1, PartRules, Zenon
  <2>2. ParseValue(t, p, f) = ParseValue(t, p, g) /\ Advances(t, p, ParseValue(t, p, f))
    BY <1>1, ValueNeeds
  <2>3. QED
    BY <2>1, <2>2
<1>2. CASE kind = "items"
  <2>1. /\ ParsePart(t, <<kind, p>>, f) = ParseItems(t, p, f)
        /\ ParsePart(t, <<kind, p>>, g) = ParseItems(t, p, g)
    BY <1>2, PartRules, Zenon
  <2>2. ParseItems(t, p, f) = ParseItems(t, p, g) /\ Advances(t, p, ParseItems(t, p, f))
    BY <1>2, ItemsNeed
  <2>3. QED
    BY <2>1, <2>2
<1>3. CASE kind = "members"
  <2>1. /\ ParsePart(t, <<kind, p>>, f) = ParseMembers(t, p, f)
        /\ ParsePart(t, <<kind, p>>, g) = ParseMembers(t, p, g)
    BY <1>3, PartRules, Zenon
  <2>2. ParseMembers(t, p, f) = ParseMembers(t, p, g) /\ Advances(t, p, ParseMembers(t, p, f))
    BY <1>3, MembersNeed
  <2>3. QED
    BY <2>1, <2>2
<1>4. QED
  BY <1>1, <1>2, <1>3 DEF Kinds

\* f holds what the parts of the reader give from i on, and they advance.
PartsFrom(t, i, f) ==
  \A kind \in Kinds, q \in i..(Len(t) + 1) :
    f[<<kind, q>>] = ParsePart(t, <<kind, q>>, f) /\ Advances(t, q, f[<<kind, q>>])

\* The parts at i from those behind it.
LEMMA PartsBefore ==
  ASSUME NEW S, NEW t \in Seq(S), NEW i \in 1..(Len(t) + 1), NEW f, PartsFrom(t, i + 1, f)
  PROVE  \E h : PartsFrom(t, i, h)
<1> DEFINE n == Len(t)
           D == Kinds \X (i..(n + 1))
           value == ParseValue(t, i, f)
           members == ParseMembers(t, i, f)
           g == [part \in D |-> IF part[2] = i THEN value ELSE f[part]]
           items == ParseItems(t, i, g)
           Here(k) == IF k = "value" THEN value ELSE IF k = "items" THEN items ELSE members
           h == [part \in D |-> IF part[2] = i THEN Here(part[1]) ELSE f[part]]
<1>1. n \in Nat /\ i \in 1..(n + 1)
  BY TextIs
<1>2. ASSUME NEW k \in Kinds, NEW q \in (i + 1)..(n + 1)
      PROVE  g[<<k, q>>] = f[<<k, q>>] /\ h[<<k, q>>] = f[<<k, q>>]
  <2>1. q \in i..(n + 1) /\ q # i /\ <<k, q>> \in D
    BY <1>1
  <2> HIDE DEF D, value, items, Here
  <2>2. QED
    BY <2>1
<1>3. ASSUME NEW k \in Kinds PROVE g[<<k, i>>] = value /\ h[<<k, i>>] = Here(k)
  <2>1. i \in i..(n + 1) /\ <<k, i>> \in D
    BY <1>1
  <2> HIDE DEF D, value, items, Here
  <2>2. QED
    BY <2>1
<1>4. g[<<"value", i>>] = value /\ h[<<"value", i>>] = value
      /\ h[<<"items", i>>] = items /\ h[<<"members", i>>] = members
  <2>1. Here("value") = value /\ Here("items") = items /\ Here("members") = members
    BY DEF Here
  <2>2. QED
    BY <1>3, <2>1, KindsAre
<1> HIDE DEF value, items, members, Here, h, g
<1>5. SameBehind(t, i, f, f) /\ SameBehind(t, i, f, g) /\ SameBehind(t, i, f, h)
  BY <1>2 DEF PartsFrom, SameBehind
<1>6. SameBehind(t, i, g, h)
  BY <1>2, <1>5, Zenon DEF SameBehind
<1>7. value = ParseValue(t, i, h) /\ Advances(t, i, value)
  BY <1>5, ValueNeeds DEF value
<1>8. members = ParseMembers(t, i, h) /\ Advances(t, i, members)
  BY <1>5, MembersNeed DEF members
<1>9. items = ParseItems(t, i, h) /\ Advances(t, i, items)
  BY <1>4, <1>6, <1>7, ItemsNeed DEF items
<1>10. ASSUME NEW k \in Kinds, NEW q \in (i + 1)..(n + 1)
       PROVE  h[<<k, q>>] = ParsePart(t, <<k, q>>, h) /\ Advances(t, q, h[<<k, q>>])
  <2>1. /\ f[<<k, q>>] = ParsePart(t, <<k, q>>, f) /\ Advances(t, q, f[<<k, q>>])
        /\ f[<<"value", q>>] = h[<<"value", q>>] /\ Advances(t, q, f[<<"value", q>>])
    BY <1>2, KindsAre DEF PartsFrom
  <2>2. q \in 1..(n + 1) /\ \A r \in (q + 1)..(n + 1) : r \in (i + 1)..(n + 1)
    BY <1>1
  <2>3. SameBehind(t, q, f, h)
    BY <1>2, <2>2, Zenon DEF PartsFrom, SameBehind
  <2>4. ParsePart(t, <<k, q>>, f) = ParsePart(t, <<k, q>>, h)
    BY <2>1, <2>2, <2>3, PartNeeds
  <2>5. QED
    BY <1>2, <2>1, <2>4
<1>11. ASSUME NEW k \in Kinds
       PROVE  h[<<k, i>>] = ParsePart(t, <<k, i>>, h) /\ Advances(t, i, h[<<k, i>>])
  <2>1. k \in {"value", "items", "members"}
    BY DEF Kinds
  <2>2. QED
    BY <1>4, <1>7, <1>8, <1>9, <2>1, PartRules
<1>12. ASSUME NEW k \in Kinds, NEW q \in i..(n + 1)
       PROVE  h[<<k, q>>] = ParsePart(t, <<k, q>>, h) /\ Advances(t, q, h[<<k, q>>])
  <2>1. q = i \/ q \in (i + 1)..(n + 1)
    BY <1>1
  <2>2. QED
    BY <1>10, <1>11, <2>1
<1>13. PartsFrom(t, i, h)
  BY <1>12, Zenon DEF PartsFrom
<1>14. QED
  BY <1>13

\* json_parse, of any text: every part of the reader gives what the code computes from the
\* parts that it calls, and fails or goes on behind the place where it began.
THEOREM ReaderAdvances ==
  ASSUME NEW S, NEW t \in Seq(S)
  PROVE  PartsFrom(t, 1, Parsed(t))
<1> DEFINE n == Len(t)
           D == Kinds \X (1..(n + 1))
           T == {i \in 1..(n + 3) : \E f : PartsFrom(t, i, f)}
<1>1. n \in Nat
  BY TextIs
<1>2. ASSUME NEW i \in {n + 2, n + 3} PROVE i \in T
  <2>1. PartsFrom(t, i, <<>>)
    BY <1>1 DEF PartsFrom
  <2>2. QED
    BY <1>1, <2>1
<1>3. ASSUME NEW i \in 1..(n + 1), i + 1 \in T PROVE i \in T
  <2>1. PICK f : PartsFrom(t, i + 1, f)
    BY <1>3
  <2>2. QED
    BY <1>1, <2>1, PartsBefore
<1>4. 1 \in T
  <2>1. n + 1 \in Nat /\ n + 1 + 1 = n + 2 /\ n + 1 + 2 = n + 3
    BY <1>1
  <2>2. n + 2 \in T /\ n + 3 \in T
    BY <1>2
  <2> HIDE DEF T, n
  <2>3. \A i \in 1..(n + 1 + 2) : i \in T
    BY ONLY <1>3, <2>1, <2>2, Downwards
  <2>4. QED
    BY <1>1, <2>3
<1>5. PICK f : PartsFrom(t, 1, f)
  BY <1>4
<1> DEFINE g == [part \in D |-> f[part]]
<1>6. ASSUME NEW k \in Kinds, NEW q \in 1..(n + 1)
      PROVE  g[<<k, q>>] = f[<<k, q>>] /\ g[<<k, q>>] = ParsePart(t, <<k, q>>, g)
             /\ Advances(t, q, g[<<k, q>>])
  <2>1. /\ f[<<k, q>>] = ParsePart(t, <<k, q>>, f) /\ Advances(t, q, f[<<k, q>>])
        /\ f[<<"value", q>>] = g[<<"value", q>>] /\ Advances(t, q, f[<<"value", q>>])
        /\ f[<<k, q>>] = g[<<k, q>>]
    BY <1>5, KindsAre DEF PartsFrom
  <2>2. q \in 1..(n + 1) /\ \A r \in (q + 1)..(n + 1) : r \in 1..(n + 1)
    BY <1>1
  <2>3. SameBehind(t, q, f, g)
    BY <1>5, <2>2, Zenon DEF PartsFrom, SameBehind
  <2>4. ParsePart(t, <<k, q>>, f) = ParsePart(t, <<k, q>>, g)
    BY <2>1, <2>2, <2>3, PartNeeds
  <2>5. QED
    BY <2>1, <2>4
<1>7. g = [part \in D |-> ParsePart(t, part, g)]
  <2>1. ASSUME NEW part \in D PROVE g[part] = ParsePart(t, part, g)
    <3>1. PICK k \in Kinds, q \in 1..(n + 1) : part = <<k, q>>
      OBVIOUS
    <3>2. QED
      BY <1>6, <3>1
  <2> DEFINE e(part) == ParsePart(t, part, g)
  <2>2. g = [part \in D |-> g[part]]
    OBVIOUS
  <2>3. \A part \in D : g[part] = e(part)
    BY <2>1
  <2> HIDE DEF g, D, e
  <2>4. g = [part \in D |-> e(part)]
    BY <2>2, <2>3
  <2>5. QED
    BY <2>4 DEF e
<1> DEFINE parse == CHOOSE h : h = [part \in D |-> ParsePart(t, part, h)]
<1>8. parse = [part \in D |-> ParsePart(t, part, parse)]
  <2> HIDE DEF g, D
  <2>1. QED
    BY <1>7
<1>9. Parsed(t) = parse
  BY DEF Parsed
<1> HIDE DEF parse
<1>10. \A k \in Kinds, q \in 1..(n + 1) : parse[<<k, q>>] = ParsePart(t, <<k, q>>, parse)
  <2> DEFINE e(part) == ParsePart(t, part, parse)
  <2>1. parse = [part \in D |-> e(part)]
    BY <1>8
  <2> HIDE DEF e
  <2>2. \A k \in Kinds, q \in 1..(n + 1) : parse[<<k, q>>] = e(<<k, q>>)
    BY <2>1
  <2>3. QED
    BY <2>2 DEF e
<1> DEFINE B(q) == \A k \in Kinds : Advances(t, q, parse[<<k, q>>])
           U == {q \in 1..(n + 3) : \A r \in q..(n + 1) : B(r)}
<1>11. ASSUME NEW q \in 1..(n + 1), q + 1 \in U PROVE q \in U
  <2>1. \A r \in (q + 1)..(n + 1) : B(r)
    BY <1>11
  <2>2. SameBehind(t, q, parse, parse)
    BY <2>1 DEF SameBehind
  <2>3. Advances(t, q, parse[<<"value", q>>])
    <3>1. Advances(t, q, ParsePart(t, <<"value", q>>, parse))
      <4>1. Advances(t, q, ParseValue(t, q, parse))
        BY <2>2, ValueNeeds
      <4>2. ParsePart(t, <<"value", q>>, parse) = ParseValue(t, q, parse)
        BY PartRules, Zenon
      <4>3. QED
        BY <4>1, <4>2
    <3>2. QED
      BY <1>10, <3>1, KindsAre
  <2>4. B(q)
    BY <1>10, <2>2, <2>3, PartNeeds
  <2> HIDE DEF B
  <2>5. \A r \in q..(n + 1) : B(r)
    <3>1. \A r \in q..(n + 1) : r = q \/ r \in (q + 1)..(n + 1)
      BY <1>1
    <3>2. QED
      BY <2>1, <2>4, <3>1
  <2>6. QED
    BY <1>1, <2>5
<1>12. 1 \in U
  <2>1. n + 1 \in Nat /\ n + 1 + 1 = n + 2 /\ n + 1 + 2 = n + 3
    BY <1>1
  <2>2. n + 2 \in U /\ n + 3 \in U
    BY <1>1
  <2> HIDE DEF U, n
  <2>3. \A i \in 1..(n + 1 + 2) : i \in U
    BY ONLY <1>11, <2>1, <2>2, Downwards
  <2>4. QED
    BY <1>1, <2>3
<1>13. \A k \in Kinds, q \in 1..(n + 1) : Advances(t, q, parse[<<k, q>>])
  BY <1>12
<1>14. PartsFrom(t, 1, parse)
  BY <1>10, <1>13, Zenon DEF PartsFrom
<1>15. QED
  BY <1>9, <1>14

-----------------------------------------------------------------------------
(* Reading, by the symbols that are there.                                 *)

LEMMA PartsAre ==
  ASSUME NEW S, NEW t \in Seq(S), NEW p \in 1..(Len(t) + 1)
  PROVE  /\ Parsed(t)[<<"value", p>>] = ParseValue(t, p, Parsed(t))
         /\ Parsed(t)[<<"items", p>>] = ParseItems(t, p, Parsed(t))
         /\ Parsed(t)[<<"members", p>>] = ParseMembers(t, p, Parsed(t))
         /\ \A kind \in Kinds : Advances(t, p, Parsed(t)[<<kind, p>>])
<1>1. PartsFrom(t, 1, Parsed(t))
  BY ReaderAdvances
<1>2. \A kind \in Kinds : /\ Parsed(t)[<<kind, p>>] = ParsePart(t, <<kind, p>>, Parsed(t))
                          /\ Advances(t, p, Parsed(t)[<<kind, p>>])
  BY <1>1 DEF PartsFrom
<1>3. /\ ParsePart(t, <<"value", p>>, Parsed(t)) = ParseValue(t, p, Parsed(t))
      /\ ParsePart(t, <<"items", p>>, Parsed(t)) = ParseItems(t, p, Parsed(t))
      /\ ParsePart(t, <<"members", p>>, Parsed(t)) = ParseMembers(t, p, Parsed(t))
  BY PartRules, Zenon
<1>4. QED
  BY <1>2, <1>3, KindsAre

\* Nothing is read where the text ends.
LEMMA EndFails ==
  ASSUME NEW S, NEW t \in Seq(S), NEW kind \in Kinds
  PROVE  Parsed(t)[<<kind, Len(t) + 1>>].next = 0
<1>1. Len(t) \in Nat /\ Len(t) + 1 \in 1..(Len(t) + 1)
  BY TextIs
<1>2. Advances(t, Len(t) + 1, Parsed(t)[<<kind, Len(t) + 1>>])
  BY <1>1, PartsAre
<1>3. QED
  BY <1>1, <1>2 DEF Advances

\* Blanks before a value or a string make no difference.
LEMMA ValueSkips ==
  ASSUME NEW S, NEW t \in Seq(S), NEW p \in 1..(Len(t) + 1), NEW q \in p..(Len(t) + 1),
         \A i \in p..(q - 1) : t[i] \in White
  PROVE  /\ Parsed(t)[<<"value", p>>] = Parsed(t)[<<"value", q>>]
         /\ ParseString(t, p) = ParseString(t, q)
<1>1. p \in 1..(Len(t) + 1) /\ q \in 1..(Len(t) + 1) /\ q \in p..(Len(t) + 1)
  BY TextIs
<1>2. Skip(t, p) = Skip(t, q) /\ Peek(t, p) = Peek(t, q) /\ After(t, p) = After(t, q)
  BY <1>1, SkipSkips
<1>3. ParseString(t, p) = ParseString(t, q)
  BY <1>2, Zenon DEF ParseString
<1> DEFINE c == Peek(t, q)
           at == Skip(t, q)
           f == Parsed(t)
<1>4. ParseValue(t, p, f) = ParseValue(t, q, f)
  <2>1. CASE c \in Words
    BY <1>2, <2>1, ValueRules
  <2>2. CASE c = Quote
    BY <1>2, <2>2, ValueRules
  <2>3. CASE c = OpenArray
    BY <1>2, <2>3, ValueRules
  <2>4. CASE c = OpenObject
    BY <1>2, <2>4, ValueRules
  <2>5. CASE c \in NumberStart
    BY <1>2, <2>5, ValueRules
  <2>6. CASE ~Starts(c)
    BY <1>2, <2>6, ValueRules
  <2>7. QED
    BY <2>1, <2>2, <2>3, <2>4, <2>5, <2>6 DEF Starts
<1>5. QED
  BY <1>1, <1>3, <1>4, PartsAre

\* An entry of an array, and a key with its value of an object, on their own.
ItemAt(t, p) ==
  LET item == Parsed(t)[<<"value", p>>]
  IN  IF Ok(item) THEN Read(Array(<<item.value>>), item.next) ELSE Failed
MemberAt(t, p) ==
  LET key  == ParseString(t, p)
      item == Parsed(t)[<<"value", After(t, key.next)>>]
  IN  IF Ok(key) /\ Peek(t, key.next) = Between /\ Ok(item)
      THEN Read(Object(<<key.value.text>>, <<item.value>>), item.next)
      ELSE Failed
Loops == {"items", "members"}
EntryAt(t, kind, p) == IF kind = "items" THEN ItemAt(t, p) ELSE MemberAt(t, p)
CloseOf(kind)       == IF kind = "items" THEN CloseArray ELSE CloseObject

LEMMA LoopsAre ==
  ASSUME NEW kind \in Loops
  PROVE  /\ kind \in Kinds /\ CloseOf(kind) # Comma /\ CloseOf(kind) # TheEnd
         /\ CloseOf(kind) \notin White /\ CloseOf(kind) \notin NumberStart
         /\ CloseOf(kind) \in Marker
<1>1. CloseOf(kind) \in {CloseArray, CloseObject}
  BY DEF CloseOf
<1>2. CloseOf(kind) \in Marker
  BY <1>1, MarkersDiffer
<1>3. kind \in Kinds
  BY DEF Loops, Kinds
<1>4. QED
  BY <1>1, <1>2, <1>3, SymbolsDiffer, MarkersDiffer

\* The loops read an entry and go on with what comes after it.
LEMMA LoopRule ==
  ASSUME NEW S, NEW t \in Seq(S), NEW p \in 1..(Len(t) + 1), NEW kind \in Loops
  PROVE  Parsed(t)[<<kind, p>>] =
           IF Ok(EntryAt(t, kind, p))
           THEN Continued(t, EntryAt(t, kind, p).next, EntryAt(t, kind, p).value, CloseOf(kind),
                          kind, Parsed(t))
           ELSE Failed
<1>1. CASE kind = "items"
  <2> DEFINE item == Parsed(t)[<<"value", p>>]
             e == Read(Array(<<item.value>>), item.next)
  <2>1. EntryAt(t, kind, p) = IF Ok(item) THEN e ELSE Failed
    BY <1>1 DEF EntryAt, ItemAt
  <2>2. e.next = item.next /\ e.value = Array(<<item.value>>) /\ (Ok(e) <=> Ok(item))
    BY ReadOf DEF Ok
  <2>3. Parsed(t)[<<kind, p>>] =
          IF Ok(item) THEN Continued(t, e.next, e.value, CloseArray, kind, Parsed(t)) ELSE Failed
    <3>1. Parsed(t)[<<"items", p>>] = ParseItems(t, p, Parsed(t))
      BY PartsAre
    <3>2. ParseItems(t, p, Parsed(t)) =
            IF Ok(item)
            THEN Continued(t, item.next, Array(<<item.value>>), CloseArray, "items", Parsed(t))
            ELSE Failed
      BY Zenon DEF ParseItems, CloseArray
    <3> HIDE DEF item, e
    <3>3. QED
      BY <1>1, <2>2, <3>1, <3>2
  <2>4. CloseOf(kind) = CloseArray
    BY <1>1 DEF CloseOf
  <2> HIDE DEF item, e
  <2>5. QED
    BY <2>1, <2>2, <2>3, <2>4, FailedIs
<1>2. CASE kind = "members"
  <2> DEFINE key == ParseString(t, p)
             item == Parsed(t)[<<"value", After(t, key.next)>>]
             e == Read(Object(<<key.value.text>>, <<item.value>>), item.next)
             fine == Ok(key) /\ Peek(t, key.next) = Between /\ Ok(item)
  <2>1. EntryAt(t, kind, p) = IF fine THEN e ELSE Failed
    <3>1. kind # "items"
      BY <1>2
    <3>2. QED
      BY <3>1, Zenon DEF EntryAt, MemberAt
  <2>2. /\ e.next = item.next /\ e.value = Object(<<key.value.text>>, <<item.value>>)
        /\ Ok(e) <=> Ok(item)
    BY ReadOf DEF Ok
  <2>3. Parsed(t)[<<kind, p>>] =
          IF fine THEN Continued(t, e.next, e.value, CloseObject, kind, Parsed(t)) ELSE Failed
    <3>1. Parsed(t)[<<"members", p>>] = ParseMembers(t, p, Parsed(t))
      BY PartsAre
    <3>2. ParseMembers(t, p, Parsed(t)) =
            IF fine
            THEN Continued(t, item.next, Object(<<key.value.text>>, <<item.value>>), CloseObject,
                           "members", Parsed(t))
            ELSE Failed
      BY Zenon DEF ParseMembers, CloseObject, Between
    <3> HIDE DEF item, e, fine, key
    <3>3. QED
      BY <1>2, <2>2, <3>1, <3>2
  <2>4. CloseOf(kind) = CloseObject
    BY <1>2 DEF CloseOf
  <2>5. fine => Ok(item)
    OBVIOUS
  <2> HIDE DEF item, e, key, fine
  <2>6. QED
    BY <2>1, <2>2, <2>3, <2>4, <2>5, FailedIs
<1>3. QED
  BY <1>1, <1>2 DEF Loops

\* Blanks before an entry make no difference.
LEMMA EntrySkips ==
  ASSUME NEW S, NEW t \in Seq(S), NEW p \in 1..(Len(t) + 1), NEW q \in p..(Len(t) + 1),
         \A i \in p..(q - 1) : t[i] \in White, NEW kind
  PROVE  EntryAt(t, kind, p) = EntryAt(t, kind, q)
<1>1. /\ Parsed(t)[<<"value", p>>] = Parsed(t)[<<"value", q>>]
      /\ ParseString(t, p) = ParseString(t, q)
  BY ValueSkips
<1>2. ItemAt(t, p) = ItemAt(t, q)
  BY <1>1, Zenon DEF ItemAt
<1>3. MemberAt(t, p) = MemberAt(t, q)
  BY <1>1, Zenon DEF MemberAt
<1>4. QED
  BY <1>2, <1>3, Zenon DEF EntryAt

-----------------------------------------------------------------------------
(* A text that goes on from p as w does, as far as it goes.                *)

Agrees(t, p, w) == \A i \in 1..Len(w) : p + i - 1 <= Len(t) => t[p + i - 1] = w[i]

LEMMA AgreesCat ==
  ASSUME NEW S, NEW x \in Seq(S), NEW y \in Seq(S), NEW t, NEW p \in Nat, Agrees(t, p, x \o y)
  PROVE  /\ Agrees(t, p, x) /\ Agrees(t, p + Len(x), y)
         /\ x \o y \in Seq(S) /\ Len(x \o y) = Len(x) + Len(y)
<1> DEFINE w == x \o y
           m == Len(x)
           k == Len(y)
<1>1. m \in Nat /\ k \in Nat
  BY TextIs
<1>2. /\ w \in Seq(S) /\ Len(w) = m + k
      /\ \A i \in 1..(m + k) : w[i] = IF i <= m THEN x[i] ELSE y[i - m]
  BY JoinedTexts
<1>3. \A i \in 1..(m + k) : p + i - 1 <= Len(t) => t[p + i - 1] = w[i]
  BY <1>2 DEF Agrees
<1> HIDE DEF w, m, k
<1>4. ASSUME NEW i \in 1..m, p + i - 1 <= Len(t) PROVE t[p + i - 1] = x[i]
  <2>1. i \in 1..(m + k) /\ i <= m
    BY <1>1
  <2>2. QED
    BY <1>2, <1>3, <1>4, <2>1
<1>5. ASSUME NEW i \in 1..k, p + m + i - 1 <= Len(t) PROVE t[p + m + i - 1] = y[i]
  <2> DEFINE j == m + i
  <2>1. j \in 1..(m + k) /\ ~(j <= m) /\ j - m = i /\ p + j - 1 = p + m + i - 1
    BY <1>1
  <2> HIDE DEF j
  <2>2. t[p + j - 1] = y[j - m]
    BY <1>2, <1>3, <1>5, <2>1
  <2>3. QED
    BY <2>1, <2>2
<1>6. Agrees(t, p, x) /\ Agrees(t, p + m, y)
  BY <1>4, <1>5 DEF Agrees, m, k
<1>7. QED
  BY <1>2, <1>6 DEF w, m, k

LEMMA AgreesAt ==
  ASSUME NEW t, NEW p \in Nat, NEW w, Agrees(t, p, w), NEW i \in 1..Len(w),
         p + i - 1 <= Len(t)
  PROVE  t[p + i - 1] = w[i]
BY DEF Agrees

\* Every text agrees with itself.
LEMMA AgreesItself ==
  ASSUME NEW S, NEW t \in Seq(S)
  PROVE  Agrees(t, 1, t)
<1>1. \A i \in 1..Len(t) : 1 + i - 1 = i
  BY TextIs
<1>2. QED
  BY <1>1 DEF Agrees

\* Where the texts of a flattened sequence begin.
Placed(pos, m, p, seqs, t) ==
  /\ pos \in [1..(m + 1) -> Nat] /\ pos[1] = p
  /\ \A i \in 1..m : pos[i + 1] = pos[i] + Len(seqs[i]) /\ Agrees(t, pos[i], seqs[i])
  /\ \A i \in 1..(m + 1) : p <= pos[i] /\ pos[i] <= pos[m + 1]

\* Places that never go down are at most the last.
LEMMA Rising ==
  ASSUME NEW m \in Nat, NEW pos \in [1..(m + 1) -> Nat],
         \A i \in 1..m : pos[i] <= pos[i + 1]
  PROVE  \A i \in 1..(m + 1) : pos[1] <= pos[i] /\ pos[i] <= pos[m + 1]
<1> DEFINE T == {i \in 1..(m + 1) : pos[1] <= pos[i]}
           U == {i \in 1..(m + 3) : i <= m + 1 => pos[i] <= pos[m + 1]}
<1>1. 1 \in T
  OBVIOUS
<1>2. ASSUME NEW i \in 2..(m + 1), i - 1 \in T PROVE i \in T
  <2>1. i - 1 \in 1..m /\ i - 1 + 1 = i
    OBVIOUS
  <2>2. pos[i - 1] <= pos[i] /\ pos[1] <= pos[i - 1] /\ pos[i] \in Nat /\ pos[i - 1] \in Nat
        /\ pos[1] \in Nat
    BY <1>2, <2>1
  <2>3. pos[1] <= pos[i]
    BY <2>2
  <2>4. QED
    BY <2>3
<1>3. m + 1 \in Nat
  OBVIOUS
<1>4. \A i \in 1..(m + 1) : i \in T
  <2> HIDE DEF T
  <2>1. QED
    BY ONLY <1>1, <1>2, <1>3, Upwards
<1>5. ASSUME NEW i \in 1..(m + 1), i + 1 \in U PROVE i \in U
  <2>1. CASE i = m + 1
    <3>1. pos[i] <= pos[m + 1]
      BY <2>1
    <3>2. QED
      BY <3>1
  <2>2. CASE i # m + 1
    <3>1. i \in 1..m /\ i + 1 \in 1..(m + 1)
      BY <2>2
    <3>2. pos[i] <= pos[i + 1] /\ pos[i + 1] <= pos[m + 1] /\ pos[i] \in Nat
          /\ pos[i + 1] \in Nat /\ pos[m + 1] \in Nat
      BY <1>5, <3>1
    <3>3. pos[i] <= pos[m + 1]
      BY <3>2
    <3>4. QED
      BY <3>3
  <2>3. QED
    BY <2>1, <2>2
<1>6. m + 2 \in U /\ m + 3 \in U /\ m + 1 + 1 = m + 2 /\ m + 1 + 2 = m + 3
  OBVIOUS
<1>7. \A i \in 1..(m + 1 + 2) : i \in U
  <2> HIDE DEF U
  <2>1. QED
    BY ONLY <1>3, <1>5, <1>6, Downwards
<1>8. QED
  BY <1>4, <1>7

LEMMA FlattenedPlaces ==
  ASSUME NEW S, NEW seqs \in Seq(Seq(S)), NEW t, NEW p \in Nat,
         Agrees(t, p, FlattenSeq(seqs))
  PROVE  \E pos : /\ Placed(pos, Len(seqs), p, seqs, t)
                  /\ pos[Len(seqs) + 1] = p + Len(FlattenSeq(seqs))
<1> DEFINE m == Len(seqs)
           w == FlattenSeq(seqs)
<1>1. m \in Nat /\ \A i \in 1..m : seqs[i] \in Seq(S)
  BY TextIs
<1>2. CASE m = 0
  <2>1. Len(w) = 0
    <3>1. FlattenSeq(seqs) = seqs
      BY <1>2 DEF FlattenSeq
    <3>2. QED
      BY <1>2, <3>1
  <2> DEFINE pos == [i \in 1..(m + 1) |-> p]
  <2> HIDE DEF m, w
  <2>2. pos \in [1..(m + 1) -> Nat] /\ pos[1] = p /\ pos[m + 1] = p + Len(w)
    BY <1>2, <2>1
  <2>3. Placed(pos, m, p, seqs, t)
    BY <1>2, <2>2 DEF Placed
  <2>4. QED
    BY <2>2, <2>3 DEF m, w
<1>3. CASE m # 0
  <2>1. PICK g : /\ g \in [1..m -> Seq(S)] /\ g[1] = seqs[1]
                 /\ \A i \in 2..m : g[i] = g[i - 1] \o seqs[i]
                 /\ w = g[m]
    BY <1>3, Flattened
  <2>2. Agrees(t, p, g[m])
    BY <2>1
  <2> HIDE DEF m, w
  <2> DEFINE U == {k \in 1..m : Agrees(t, p, g[m + 1 - k])}
  <2>3. \A k \in 1..m : k \in U
    <3>1. 1 \in U
      BY <1>1, <1>3, <2>2
    <3>2. ASSUME NEW k \in 2..m, k - 1 \in U PROVE k \in U
      <4> DEFINE i == m + 1 - (k - 1)
      <4>1. i \in 2..m /\ i \in 1..m /\ i - 1 \in 1..m /\ i - 1 = m + 1 - k
        BY <1>1
      <4>2. Agrees(t, p, g[i])
        BY <3>2
      <4> HIDE DEF i
      <4>3. g[i - 1] \in Seq(S) /\ seqs[i] \in Seq(S) /\ g[i] = g[i - 1] \o seqs[i]
        BY <1>1, <2>1, <4>1
      <4>4. Agrees(t, p, g[i - 1])
        BY ONLY <4>2, <4>3, AgreesCat, p \in Nat
      <4>5. QED
        BY <1>1, <4>1, <4>4
    <3> HIDE DEF U
    <3>3. QED
      BY ONLY <1>1, <3>1, <3>2, Upwards
  <2>4. ASSUME NEW i \in 1..m PROVE Agrees(t, p, g[i])
    <3>1. m + 1 - i \in 1..m /\ m + 1 - (m + 1 - i) = i
      BY <1>1
    <3>2. QED
      BY <2>3, <3>1
  <2>5. ASSUME NEW i \in 2..m
        PROVE  Agrees(t, p + Len(g[i - 1]), seqs[i]) /\ Len(g[i]) = Len(g[i - 1]) + Len(seqs[i])
    <3>1. i \in 1..m /\ i - 1 \in 1..m
      BY <1>1
    <3>2. g[i - 1] \in Seq(S) /\ seqs[i] \in Seq(S) /\ g[i] = g[i - 1] \o seqs[i]
      BY <1>1, <2>1, <3>1
    <3>3. Agrees(t, p, g[i - 1] \o seqs[i])
      BY <2>4, <3>1, <3>2
    <3>4. Agrees(t, p + Len(g[i - 1]), seqs[i])
      BY ONLY <3>2, <3>3, AgreesCat, p \in Nat
    <3>5. Len(g[i - 1] \o seqs[i]) = Len(g[i - 1]) + Len(seqs[i])
      BY <3>2, JoinedTexts
    <3>6. QED
      BY <3>2, <3>4, <3>5
  <2> DEFINE l(i) == Len(g[i])
             pos == [i \in 1..(m + 1) |-> IF i = 1 THEN p ELSE p + l(i - 1)]
  <2>6. \A i \in 1..m : l(i) \in Nat
    BY <2>1, TextIs
  <2>7. \A i \in 1..m : Len(seqs[i]) \in Nat
    BY <1>1, TextIs
  <2>8. 1 \in 1..m /\ m \in 1..m /\ m + 1 # 1 /\ m + 1 - 1 = m
    BY <1>1, <1>3
  <2>9. l(1) = Len(seqs[1]) /\ Agrees(t, p, seqs[1])
    BY <2>1, <2>4, <2>8
  <2>10. \A i \in 2..m : l(i) = l(i - 1) + Len(seqs[i]) /\ Agrees(t, p + l(i - 1), seqs[i])
    BY <2>5
  <2>11. l(m) = Len(w)
    BY <2>1
  <2> HIDE DEF l
  <2>12. pos \in [1..(m + 1) -> Nat]
    <3>1. \A i \in 1..(m + 1) : i # 1 => i - 1 \in 1..m
      BY <1>1
    <3>2. QED
      BY <2>6, <3>1
  <2>13. pos[1] = p /\ pos[m + 1] = p + Len(w)
    <3>1. 1 \in 1..(m + 1) /\ m + 1 \in 1..(m + 1)
      BY <1>1
    <3>2. pos[m + 1] = p + l(m + 1 - 1) /\ l(m + 1 - 1) = l(m)
      BY <2>8, <3>1
    <3>3. pos[1] = p
      BY <3>1
    <3> HIDE DEF pos
    <3>4. QED
      BY <2>11, <3>2, <3>3
  <2>14. ASSUME NEW i \in 1..m
         PROVE  pos[i + 1] = pos[i] + Len(seqs[i]) /\ Agrees(t, pos[i], seqs[i])
    <3>1. i + 1 \in 1..(m + 1) /\ i + 1 # 1 /\ i + 1 - 1 = i /\ i \in 1..(m + 1)
      BY <1>1
    <3>2. CASE i = 1
      <4>1. pos[i] = p /\ pos[i + 1] = p + l(i + 1 - 1) /\ l(i + 1 - 1) = l(1)
        BY <3>1, <3>2
      <4> HIDE DEF pos
      <4>2. QED
        BY <2>9, <3>2, <4>1
    <3>3. CASE i # 1
      <4>1. i \in 2..m /\ i - 1 \in 1..m
        BY <1>1, <3>3
      <4>2. pos[i] = p + l(i - 1) /\ pos[i + 1] = p + l(i)
        BY <3>1, <3>3
      <4>3. l(i) = l(i - 1) + Len(seqs[i]) /\ Agrees(t, p + l(i - 1), seqs[i])
        BY <2>10, <4>1
      <4>4. l(i - 1) \in Nat /\ Len(seqs[i]) \in Nat
        BY <2>6, <2>7, <4>1
      <4> HIDE DEF pos
      <4>5. QED
        BY <4>2, <4>3, <4>4
    <3>4. QED
      BY <3>2, <3>3
  <2> HIDE DEF pos
  <2>15. \A i \in 1..m : pos[i] <= pos[i + 1]
    <3>1. \A i \in 1..m : i \in 1..(m + 1)
      BY <1>1
    <3>2. QED
      BY <2>7, <2>12, <2>14, <3>1
  <2>16. \A i \in 1..(m + 1) : pos[1] <= pos[i] /\ pos[i] <= pos[m + 1]
    BY ONLY <1>1, <2>12, <2>15, Rising
  <2>17. Placed(pos, m, p, seqs, t)
    BY <2>12, <2>13, <2>14, <2>16 DEF Placed
  <2>18. QED
    BY <2>13, <2>17 DEF m, w
<1>4. QED
  BY <1>2, <1>3

-----------------------------------------------------------------------------
(* Strings and numbers that were written.                                  *)

\* What is written of a character.
Piece(c) == IF c \in ToEscape THEN <<"\\", Letter(c)>> ELSE <<c>>

LEMMA PieceIs ==
  ASSUME NEW S, Marks \subseteq S, NEW c \in S
  PROVE  /\ Piece(c) \in Seq(S)
         /\ c \in ToEscape => Len(Piece(c)) = 2 /\ Piece(c)[1] = "\\"
         /\ c \notin ToEscape => Len(Piece(c)) = 1 /\ Piece(c)[1] = c /\ c # Quote /\ c # "\\"
<1>1. CASE c \in ToEscape
  <2> DEFINE l == Letter(c)
             b == "\\"
  <2>1. b \in S /\ l \in S
    BY DEF Marks, Letter
  <2>2. Piece(c) = <<b, l>>
    BY <1>1 DEF Piece
  <2> HIDE DEF l, b
  <2>3. <<b, l>> \in Seq(S) /\ Len(<<b, l>>) = 2 /\ <<b, l>>[1] = b
    BY <2>1
  <2>4. QED
    BY <1>1, <2>2, <2>3 DEF b
<1>2. CASE c \notin ToEscape
  <2>1. Piece(c) = <<c>> /\ c # Quote /\ c # "\\"
    BY <1>2 DEF Piece, ToEscape
  <2>2. QED
    BY <1>2, <2>1, Singleton
<1>3. QED
  BY <1>1, <1>2

LEMMA EscapedPieces ==
  ASSUME NEW S, Marks \subseteq S, NEW s \in Seq(S)
  PROVE  \E seqs \in Seq(Seq(S)) : /\ Len(seqs) = Len(s) /\ Escaped(s) = FlattenSeq(seqs)
                                   /\ \A i \in 1..Len(s) : seqs[i] = Piece(s[i])
<1> DEFINE n == Len(s)
           seqs == [i \in DOMAIN s |-> Piece(s[i])]
<1>1. n \in Nat /\ DOMAIN s = 1..n /\ \A i \in 1..n : s[i] \in S
  BY TextIs
<1>2. Escaped(s) = FlattenSeq(seqs)
  BY DEF Escaped, Piece
<1> HIDE DEF n
<1>3. \A i \in 1..n : Piece(s[i]) \in Seq(S)
  BY <1>1, PieceIs
<1>4. seqs \in [1..n -> Seq(S)] /\ \A i \in 1..n : seqs[i] = Piece(s[i])
  BY <1>1, <1>3
<1> HIDE DEF seqs
<1>5. seqs \in Seq(Seq(S)) /\ Len(seqs) = n
  BY <1>1, <1>4
<1>6. QED
  BY <1>2, <1>4, <1>5 DEF n

\* The scan finds the quote that ends a string, whatever the string is, and counts its
\* characters; it finds none where the writing was cut short.
LEMMA QuotedScan ==
  ASSUME NEW S, Marks \subseteq S, NEW s \in Seq(S), NEW t \in Seq(S), NEW p \in 1..Len(t),
         Agrees(t, p, Quoted(s)), NEW e, e = p + Len(Quoted(s)) - 1
  PROVE  /\ e <= Len(t) => Scan(t, p + 1).quote = e /\ Scan(t, p + 1).length = Len(s)
         /\ e > Len(t) => Scan(t, p + 1).quote > Len(t)
<1> DEFINE n == Len(t)
           m == Len(s)
           q == <<Quote>>
           x == Escaped(s)
<1>1. PICK f : ScannedBy(f, t) /\ \A i \in 1..(n + 2) : Scan(t, i) = f[i]
  BY ScanIs
<1>2. n \in Nat /\ m \in Nat /\ p \in 1..n /\ \A i \in 1..m : s[i] \in S
  BY TextIs
<1>3. /\ \A i \in {n + 1, n + 2} : f[i].quote = i
      /\ \A i \in 1..n : f[i].quote = CASE t[i] = Quote -> i
                                        [] t[i] = "\\" -> f[i + 2].quote
                                        [] OTHER -> f[i + 1].quote
      /\ \A i \in 1..n : f[i].length = CASE t[i] = Quote -> 0
                                         [] t[i] = "\\" -> f[i + 2].length + 1
                                         [] OTHER -> f[i + 1].length + 1
  BY <1>1 DEF ScannedBy
<1>4. Quote # "\\"
  BY SymbolsDiffer
<1>5. \A i \in 1..n :
        /\ t[i] = Quote => f[i].quote = i /\ f[i].length = 0
        /\ t[i] = "\\" => f[i].quote = f[i + 2].quote /\ f[i].length = f[i + 2].length + 1
        /\ t[i] # Quote /\ t[i] # "\\" =>
             f[i].quote = f[i + 1].quote /\ f[i].length = f[i + 1].length + 1
  BY <1>3, <1>4
<1>6. q \in Seq(S) /\ Len(q) = 1 /\ q[1] = Quote
  BY Singleton DEF Marks
<1>7. x \in Seq(S) /\ Len(x) \in Nat /\ Quoted(s) = q \o x \o q
  BY EscapedIs, TextIs DEF Quoted
<1> DEFINE z == q \o x
           last == p + 1 + Len(x)
<1>8. z \in Seq(S) /\ Len(z) = Len(x) + 1
  BY <1>6, <1>7, JoinedTexts
<1>9. /\ Agrees(t, p, z) /\ Agrees(t, p + Len(z), q)
      /\ Len(Quoted(s)) = Len(z) + 1
  <2> HIDE DEF z, q
  <2>1. z \in Seq(S) /\ q \in Seq(S) /\ Agrees(t, p, z \o q) /\ p \in Nat
    BY <1>2, <1>6, <1>7, <1>8 DEF z
  <2>2. Agrees(t, p, z) /\ Agrees(t, p + Len(z), q) /\ Len(z \o q) = Len(z) + Len(q)
    BY ONLY <2>1, AgreesCat
  <2>3. QED
    BY <1>6, <1>7, <2>2 DEF z
<1>10. Agrees(t, p + 1, x)
  <2> HIDE DEF q
  <2>1. q \in Seq(S) /\ x \in Seq(S) /\ Agrees(t, p, q \o x) /\ p \in Nat
    BY <1>2, <1>6, <1>7, <1>9
  <2> HIDE DEF x
  <2>2. Agrees(t, p + Len(q), x)
    BY ONLY <2>1, AgreesCat
  <2>3. QED
    BY <1>6, <2>2
<1>11. last = e /\ last \in Nat /\ (last <= n => t[last] = Quote)
  <2>1. last = e /\ last \in Nat /\ last = p + Len(z)
    BY <1>2, <1>7, <1>8, <1>9
  <2> HIDE DEF z, q, last, n
  <2>2. Agrees(t, last, q)
    BY <1>9, <2>1
  <2>3. last + 1 - 1 = last /\ 1 \in 1..Len(q)
    BY <1>6, <2>1
  <2>4. last <= n => t[last] = q[1]
    BY <2>2, <2>3 DEF Agrees, n
  <2>5. QED
    BY <1>6, <2>1, <2>4
<1> HIDE DEF q, z, last
<1>12. PICK seqs \in Seq(Seq(S)) : /\ Len(seqs) = m /\ x = FlattenSeq(seqs)
                                   /\ \A i \in 1..m : seqs[i] = Piece(s[i])
  BY EscapedPieces
<1>13. PICK pos : Placed(pos, m, p + 1, seqs, t) /\ pos[m + 1] = last
  <2>1. p + 1 \in Nat /\ Agrees(t, p + 1, FlattenSeq(seqs)) /\ p + 1 + Len(FlattenSeq(seqs)) = last
    BY <1>2, <1>10, <1>12 DEF last
  <2>2. \E pos : Placed(pos, Len(seqs), p + 1, seqs, t)
                 /\ pos[Len(seqs) + 1] = p + 1 + Len(FlattenSeq(seqs))
    BY <2>1, FlattenedPlaces
  <2>3. QED
    BY <1>12, <2>1, <2>2
<1> HIDE DEF n, m, x
<1>14. /\ pos \in [1..(m + 1) -> Nat] /\ pos[1] = p + 1
       /\ \A i \in 1..m : pos[i + 1] = pos[i] + Len(Piece(s[i])) /\ Agrees(t, pos[i], Piece(s[i]))
       /\ \A i \in 1..(m + 1) : pos[i] >= p + 1 /\ pos[i] <= last
  BY <1>12, <1>13 DEF Placed
<1> DEFINE Fine(i) == LET j == pos[i]
                      IN  j <= n + 2 =>
                            /\ last <= n => f[j].quote = last /\ f[j].length = m + 1 - i
                            /\ last > n => f[j].quote > n
           U == {i \in 1..(m + 3) : i <= m + 1 => Fine(i)}
<1>15. Fine(m + 1)
  <2>1. CASE last <= n
    <3>1. last \in 1..n /\ m + 1 - (m + 1) = 0
      BY <1>2, <1>11, <1>13, <1>14, <2>1
    <3>2. f[last].quote = last /\ f[last].length = 0
      BY <1>5, <1>11, <2>1, <3>1
    <3>3. QED
      BY <1>13, <2>1, <3>1, <3>2
  <2>2. CASE last > n
    <3>1. last <= n + 2 => last = n + 1 \/ last = n + 2
      <4>1. n \in Nat /\ last \in Nat
        BY <1>2, <1>11
      <4>2. QED
        BY ONLY <2>2, <4>1
    <3>2. last <= n + 2 => f[last].quote = last
      BY <1>3, <3>1
    <3>3. Fine(m + 1) <=> (last <= n + 2 => f[last].quote > n)
      BY <1>2, <1>11, <1>13, <2>2
    <3>4. QED
      BY <2>2, <3>2, <3>3
  <2>3. QED
    BY <1>2, <1>11, <2>1, <2>2
<1>16. ASSUME NEW i \in 1..m, Fine(i + 1) PROVE Fine(i)
  <2> DEFINE j == pos[i]
             k == pos[i + 1]
             c == s[i]
  <2>1. /\ i \in 1..(m + 1) /\ i + 1 \in 1..(m + 1) /\ m + 1 - (i + 1) + 1 = m + 1 - i
        /\ m + 1 - (i + 1) \in Nat
    BY <1>2
  <2>2. /\ j \in Nat /\ k \in Nat /\ j >= p + 1 /\ k <= last /\ j <= last
        /\ k = j + Len(Piece(c)) /\ Agrees(t, j, Piece(c)) /\ c \in S
    BY <1>2, <1>14, <2>1
  <2>3. k <= n + 2 => /\ last <= n => f[k].quote = last /\ f[k].length = m + 1 - (i + 1)
                      /\ last > n => f[k].quote > n
    BY <1>16
  <2>4. SUFFICES ASSUME j <= n + 2
                 PROVE  /\ last <= n => f[j].quote = last /\ f[j].length = m + 1 - i
                        /\ last > n => f[j].quote > n
    OBVIOUS
  <2> HIDE DEF j, k, c, Fine
  <2>5. CASE j > n
    <3>1. j \in {n + 1, n + 2} /\ ~(last <= n)
      BY <1>2, <1>11, <2>2, <2>4, <2>5
    <3>2. f[j].quote = j
      BY <1>3, <3>1
    <3>3. QED
      BY <2>5, <3>1, <3>2
  <2>6. CASE j <= n
    <3>1. j \in 1..n /\ j + 1 - 1 = j
      BY <1>2, <2>2, <2>6
    <3>2. 1 \in 1..Len(Piece(c)) => t[j] = Piece(c)[1]
      BY <2>2, <2>6, <3>1 DEF Agrees, n
    <3>3. CASE c \in ToEscape
      <4>1. Len(Piece(c)) = 2 /\ Piece(c)[1] = "\\"
        BY <2>2, <3>3, PieceIs
      <4>2. k = j + 2 /\ t[j] = "\\" /\ k <= n + 2
        BY <1>2, <2>2, <2>6, <3>2, <4>1
      <4>3. f[j].quote = f[k].quote /\ f[j].length = f[k].length + 1
        BY <1>5, <3>1, <4>2
      <4>4. QED
        BY <2>1, <2>3, <4>2, <4>3
    <3>4. CASE c \notin ToEscape
      <4>1. Len(Piece(c)) = 1 /\ Piece(c)[1] = c /\ c # Quote /\ c # "\\"
        BY <2>2, <3>4, PieceIs
      <4>2. k = j + 1 /\ t[j] = c /\ k <= n + 2
        BY <1>2, <2>2, <2>6, <3>2, <4>1
      <4>3. f[j].quote = f[k].quote /\ f[j].length = f[k].length + 1
        BY <1>5, <3>1, <4>1, <4>2
      <4>4. QED
        BY <2>1, <2>3, <4>2, <4>3
    <3>5. QED
      BY <3>3, <3>4
  <2>7. QED
    BY <1>2, <2>2, <2>5, <2>6
<1> HIDE DEF Fine
<1>17. Fine(1)
  <2>1. ASSUME NEW i \in 1..(m + 1), i + 1 \in U PROVE i \in U
    <3>1. CASE i = m + 1
      BY <1>2, <1>15, <3>1
    <3>2. CASE i # m + 1
      <4>1. i \in 1..m /\ i + 1 <= m + 1 /\ i \in 1..(m + 3)
        BY <1>2, <3>2
      <4>2. Fine(i + 1)
        BY <2>1, <4>1
      <4>3. QED
        BY <1>16, <4>1, <4>2
    <3>3. QED
      BY <3>1, <3>2
  <2>2. m + 2 \in U /\ m + 3 \in U /\ m + 1 + 1 = m + 2 /\ m + 1 + 2 = m + 3 /\ m + 1 \in Nat
    BY <1>2
  <2>3. \A i \in 1..(m + 1 + 2) : i \in U
    <3> HIDE DEF U
    <3>1. QED
      BY ONLY <2>1, <2>2, Downwards
  <2>4. 1 \in 1..(m + 1 + 2) /\ 1 <= m + 1
    BY <1>2
  <2>5. QED
    BY <2>3, <2>4
<1>18. p + 1 <= n + 2 /\ p + 1 \in 1..(n + 2) /\ m + 1 - 1 = m
  BY <1>2
<1>19. /\ last <= n => f[p + 1].quote = last /\ f[p + 1].length = m
       /\ last > n => f[p + 1].quote > n
  BY <1>14, <1>17, <1>18 DEF Fine
<1>20. Scan(t, p + 1) = f[p + 1]
  BY <1>1, <1>18
<1>21. QED
  BY <1>11, <1>19, <1>20 DEF n, m

\* A part of a text, by its symbols.
LEMMA PartIs ==
  ASSUME NEW S, NEW s \in Seq(S), NEW t \in Seq(S), NEW p \in Nat, p >= 1,
         p + Len(s) - 1 <= Len(t), Agrees(t, p, s)
  PROVE  SubSeq(t, p, p + Len(s) - 1) = s
<1> DEFINE n == Len(s)
           m == p + n - 1
           u == SubSeq(t, p, m)
<1>1. n \in Nat /\ Len(t) \in Nat /\ m \in Int /\ p \in Int /\ m <= Len(t)
      /\ \A i \in 1..Len(t) : t[i] \in S
  BY TextIs
<1>2. \A i \in p..m : t[i] \in S
  BY <1>1
<1>3. \A i \in 1..n : t[p + i - 1] = s[i]
  <2>1. \A i \in 1..n : p + i - 1 <= Len(t)
    BY <1>1
  <2>2. QED
    BY <2>1 DEF Agrees
<1>4. m - p + 1 = n
  BY <1>1
<1> HIDE DEF m, n
<1>5. /\ u \in Seq(S) /\ Len(u) = IF p <= m THEN m - p + 1 ELSE 0
      /\ \A i \in 1..(m - p + 1) : u[i] = t[p + i - 1]
  BY ONLY <1>1, <1>2, SubSeqProperties
<1> HIDE DEF u
<1>6. Len(u) = n /\ \A i \in 1..n : u[i] = s[i]
  BY <1>1, <1>3, <1>4, <1>5
<1>7. u = s
  BY <1>5, <1>6, SeqEqual DEF n
<1>8. QED
  BY <1>7 DEF u, m, n

\* parse_string takes back a string that was written, and refuses one that was cut short.
LEMMA StringRead ==
  ASSUME NEW S, Marks \subseteq S, NEW s \in Seq(S), NEW t \in Seq(S),
         NEW p \in 1..(Len(t) + 1), Agrees(t, p, Quoted(s)), NEW e, e = p + Len(Quoted(s))
  PROVE  /\ e <= Len(t) + 1 => /\ ParseString(t, p).next = e
                               /\ Plain(s) => ParseString(t, p).value = Text(s)
         /\ e > Len(t) + 1 => ParseString(t, p).next = 0
<1> DEFINE n == Len(t)
           q == Quoted(s)
           scan == Scan(t, p + 1)
<1>1. n \in Nat /\ p \in 1..(n + 1) /\ Len(s) \in Nat
  BY TextIs
<1>2. /\ q \in Seq(S) /\ Len(q) = Len(Escaped(s)) + 2 /\ q[1] = Quote
      /\ \A i \in 1..Len(Escaped(s)) : q[i + 1] = Escaped(s)[i]
      /\ Len(Escaped(s)) \in Nat
  BY QuotedIs, EscapedIs, TextIs
<1>3. Quote \notin White /\ Quote # TheEnd
  BY SymbolsDiffer
<1>4. CASE p = n + 1
  <2>1. e > n + 1
    BY <1>1, <1>2, <1>4
  <2>2. Peek(t, p) = TheEnd
    <3>1. \A i \in p..Len(t) : t[i] \in White
      BY <1>1, <1>4
    <3>2. QED
      BY <3>1, SkipToEnd DEF TheEnd
  <2>3. ParseString(t, p) = Failed
    BY <1>3, <2>2, Zenon DEF ParseString
  <2> HIDE DEF n
  <2>4. QED
    BY <1>1, <1>2, <2>1, <2>3, FailedIs DEF n
<1>5. CASE p # n + 1
  <2>1. p \in 1..n /\ p + 1 - 1 = p /\ 1 \in 1..Len(q)
    BY <1>1, <1>2, <1>5
  <2>2. t[p] = Quote
    <3>1. t[p + 1 - 1] = q[1]
      BY <2>1, AgreesAt
    <3>2. QED
      BY <1>2, <2>1, <3>1
  <2>3. Peek(t, p) = Quote /\ After(t, p) = p + 1
    <3>1. p \in p..Len(t) /\ \A i \in p..(p - 1) : t[i] \in White
      BY <2>1
    <3>2. Peek(t, p) = t[p] /\ After(t, p) = p + 1
      BY <1>1, <1>3, <2>2, <3>1, SkipTo
    <3>3. QED
      BY <2>2, <3>2
  <2>4. ParseString(t, p) = IF scan.quote <= n THEN Read(Text(Content(t, p + 1)), scan.quote + 1)
                            ELSE Failed
    BY <2>3, Zenon DEF ParseString
  <2>5. scan.quote \in Nat
    <3>1. p + 1 \in 1..(Len(t) + 2)
      BY <1>1
    <3>2. QED
      BY <3>1, QuoteIsBehind
  <2> DEFINE d == e - 1
  <2>6. /\ d = p + Len(q) - 1 /\ d \in Nat
        /\ d <= n <=> e <= n + 1
        /\ d > n <=> e > n + 1
    BY <1>1, <1>2, <2>1
  <2>7. /\ d <= n => scan.quote = d /\ scan.length = Len(s)
        /\ d > n => scan.quote > n
    <3> HIDE DEF d
    <3>1. QED
      BY <2>1, <2>6, QuotedScan
  <2>8. CASE e <= n + 1
    <3>1. scan.quote = d /\ scan.length = Len(s) /\ scan.quote <= n /\ scan.quote + 1 = e
      BY <2>6, <2>7, <2>8
    <3>2. ParseString(t, p) = Read(Text(Content(t, p + 1)), e)
      BY <2>4, <3>1
    <3>3. ASSUME Plain(s) PROVE Content(t, p + 1) = s
      <4>1. Escaped(s) = s
        BY <3>3, EscapedIs
      <4>2. Len(q) = Len(s) + 2 /\ p + 1 \in Nat /\ p + 1 >= 1 /\ p + 1 + Len(s) - 1 <= n
        BY <1>1, <1>2, <2>8, <4>1
      <4>3. Agrees(t, p + 1, s)
        <5>1. ASSUME NEW i \in 1..Len(s), p + 1 + i - 1 <= Len(t) PROVE t[p + 1 + i - 1] = s[i]
          <6>1. i + 1 \in 1..Len(q) /\ p + (i + 1) - 1 = p + 1 + i - 1 /\ p \in Nat
            BY <1>1, <4>2
          <6>2. t[p + (i + 1) - 1] = q[i + 1]
            BY <5>1, <6>1, AgreesAt
          <6>3. QED
            BY <1>2, <4>1, <6>1, <6>2
        <5>2. QED
          BY <5>1 DEF Agrees
      <4>4. SubSeq(t, p + 1, p + 1 + Len(s) - 1) = s
        BY <4>2, <4>3, PartIs
      <4>5. Unescaped(s) = s
        <5>1. \A i \in 1..Len(s) : s[i] \notin {Quote, "\\"}
          BY <3>3, TextIs DEF Plain, ToEscape
        <5>2. QED
          BY <5>1, NothingToUnescape
      <4>6. QED
        BY <3>1, <4>4, <4>5, Zenon DEF Content
    <3>4. QED
      BY <2>6, <2>8, <3>2, <3>3, ReadOf
  <2>9. CASE e > n + 1
    <3>1. ParseString(t, p) = Failed
      BY <2>4, <2>5, <2>6, <2>7, <2>9, <1>1
    <3>2. ~(e <= n + 1)
      BY <1>1, <2>6, <2>9
    <3>3. QED
      BY <3>1, <3>2, FailedIs
  <2>10. QED
    BY <1>1, <1>2, <2>8, <2>9
<1>6. QED
  BY <1>4, <1>5

\* A plain name that is written and read again is the same.
LEMMA RereadPlain ==
  ASSUME NEW S, Marks \subseteq S, NEW s \in Seq(S), Plain(s)
  PROVE  Reread(s) = s
<1> DEFINE q == Quoted(s)
<1>1. q \in Seq(S) /\ Len(q) \in Nat /\ Len(q) >= 2 /\ q[1] = Quote
  BY QuotedIs, EscapedIs, TextIs
<1>2. Agrees(q, 1, q)
  BY <1>1, AgreesItself
<1> HIDE DEF q
<1>3. ParseString(q, 1).value = Text(s) /\ ParseString(q, 1).next = 1 + Len(q)
  <2>1. 1 \in 1..(Len(q) + 1) /\ 1 + Len(q) <= Len(q) + 1
    BY <1>1
  <2>2. QED
    BY <1>1, <1>2, <2>1, StringRead DEF q
<1>4. Peek(q, 1) = Quote /\ After(q, 1) = 2
  <2>1. 1 \in 1..(Len(q) + 1) /\ 1 \in 1..Len(q) /\ 1 + 1 = 2
        /\ \A i \in 1..(1 - 1) : q[i] \in White
    BY <1>1
  <2>2. q[1] \notin White
    BY <1>1, SymbolsDiffer
  <2>3. Peek(q, 1) = q[1] /\ After(q, 1) = 1 + 1
    BY <1>1, <2>1, <2>2, SkipTo
  <2>4. QED
    BY <1>1, <2>1, <2>3
<1>5. ParseString(q, 1).next # 0
  BY <1>1, <1>3
<1>6. ParseString(q, 1) = Read(Text(Content(q, 2)), Scan(q, 2).quote + 1)
  <2>1. ParseString(q, 1) = Read(Text(Content(q, 2)), Scan(q, 2).quote + 1)
        \/ ParseString(q, 1) = Failed
    BY <1>4 DEF ParseString
  <2>2. QED
    BY <1>5, <2>1, FailedIs
<1>7. Text(Content(q, 2)) = Text(s)
  BY <1>3, <1>6, ReadOf
<1>8. Content(q, 2) = s
  <2> DEFINE c == Content(q, 2)
  <2>1. Text(c).text = c /\ Text(s).text = s
    BY DEF Text, Value
  <2> HIDE DEF c
  <2>2. QED
    BY <1>7, <2>1 DEF c
<1>9. QED
  BY <1>8 DEF Reread, q

\* How a number begins, and what follows.
Minus == "-"
Sign(c) == IF c = Minus THEN 1 ELSE 0

LEMMA SignIs ==
  ASSUME NEW c
  PROVE  Sign(c) \in {0, 1} /\ (c \in Digits => Sign(c) = 0) /\ (Sign(c) = 1 => c = Minus)
<1>1. Minus \notin Digits
  BY Zenon DEF Minus, Digits
<1>2. QED
  BY <1>1 DEF Sign

LEMMA NumberIs ==
  ASSUME NEW S, NEW s \in Seq(S), IsNumber(s)
  PROVE  /\ Sign(s[1]) + 1 <= Len(s) /\ s[1] \in NumberStart
         /\ \A i \in (Sign(s[1]) + 1)..Len(s) : s[i] \in Digits
<1> DEFINE first == IF s[1] = Minus THEN 2 ELSE 1
<1>1. first <= Len(s) /\ \A i \in first..Len(s) : s[i] \in Digits
  BY Zenon DEF IsNumber, Minus
<1>2. first = Sign(s[1]) + 1
  BY DEF Sign
<1> HIDE DEF first
<1>3. s[1] \in NumberStart
  <2>1. CASE s[1] = Minus
    BY <2>1, Zenon DEF NumberStart, Minus
  <2>2. CASE s[1] # Minus
    <3>1. Sign(s[1]) = 0
      BY <2>2 DEF Sign
    <3>2. 1 \in first..Len(s)
      BY <1>1, <1>2, <3>1, TextIs
    <3>3. s[1] \in Digits
      BY <1>1, <3>2
    <3>4. QED
      BY <3>3, Zenon DEF NumberStart
  <2>3. QED
    BY <2>1, <2>2
<1>4. QED
  BY <1>1, <1>2, <1>3

\* parse_number by the place behind the digits.
LEMMA NumberRule ==
  ASSUME NEW t, NEW p \in Nat
  PROVE  LET end == Past(t, p + Sign(t[p]), Digits)
         IN  ParseNumber(t, p) = IF end > p + Sign(t[p])
                                 THEN Read(Number(SubSeq(t, p, end - 1)), end) ELSE Failed
<1> DEFINE first == IF t[p] = Minus THEN p + 1 ELSE p
<1>1. ParseNumber(t, p) = IF Past(t, first, Digits) > first
                          THEN Read(Number(SubSeq(t, p, Past(t, first, Digits) - 1)),
                                    Past(t, first, Digits))
                          ELSE Failed
  BY Zenon DEF ParseNumber, Minus
<1>2. first = p + Sign(t[p])
  BY DEF Sign
<1> HIDE DEF first
<1>3. QED
  BY <1>1, <1>2

\* parse_number takes back a number that was written when no digit follows it; one that was
\* cut short is refused or read to the end of the text.
LEMMA NumberRead ==
  ASSUME NEW S, NEW s \in Seq(S), IsNumber(s), NEW t \in Seq(S), NEW p \in 1..Len(t),
         Agrees(t, p, s), NEW e, e = p + Len(s)
  PROVE  /\ e <= Len(t) + 1 /\ (e <= Len(t) => t[e] \notin Digits) =>
              ParseNumber(t, p) = Read(Number(s), e)
         /\ e > Len(t) + 1 => ParseNumber(t, p).next \in {0, Len(t) + 1}
<1> DEFINE n == Len(t)
           m == Len(s)
           k == Sign(s[1])
           first == p + k
           end == Past(t, first, Digits)
<1>1. n \in Nat /\ m \in Nat /\ p \in 1..n /\ p \in Nat /\ p >= 1
  BY TextIs
<1>2. k \in {0, 1} /\ k + 1 <= m /\ \A i \in (k + 1)..m : s[i] \in Digits
  BY NumberIs, SignIs
<1>3. \A i \in 1..m : p + i - 1 <= n => t[p + i - 1] = s[i]
  BY DEF Agrees
<1>4. t[p] = s[1]
  <2>1. 1 \in 1..m /\ p + 1 - 1 = p
    BY <1>1, <1>2
  <2>2. QED
    BY <1>1, <1>3, <2>1
<1>5. ParseNumber(t, p) = IF end > first THEN Read(Number(SubSeq(t, p, end - 1)), end)
                          ELSE Failed
  BY <1>1, <1>4, NumberRule
<1> HIDE DEF n, m, k
<1>6. first \in p..(p + 1) /\ first \in 1..(n + 1) /\ e = p + m /\ e > first /\ e \in Nat
  BY <1>1, <1>2 DEF m
<1>7. ASSUME NEW i \in first..n, i < e PROVE t[i] \in Digits
  <2> DEFINE j == i - p + 1
  <2>1. j \in (k + 1)..m /\ j \in 1..m /\ p + j - 1 = i /\ i <= n
    BY <1>1, <1>2, <1>6, <1>7
  <2> HIDE DEF j
  <2>2. t[p + j - 1] = s[j] /\ s[j] \in Digits
    BY <1>2, <1>3, <2>1
  <2>3. QED
    BY <2>1, <2>2
<1> HIDE DEF first
<1>8. ASSUME e <= n + 1, e <= n => t[e] \notin Digits
      PROVE  ParseNumber(t, p) = Read(Number(s), e)
  <2>1. first \in 1..(Len(t) + 1) /\ e \in first..(Len(t) + 1)
        /\ \A i \in first..(e - 1) : t[i] \in Digits
    BY <1>1, <1>6, <1>7, <1>8 DEF n
  <2>2. end = e
    BY <1>8, <2>1, PastTo DEF n
  <2>3. SubSeq(t, p, p + Len(s) - 1) = s
    <3>1. p + Len(s) - 1 <= Len(t)
      BY <1>1, <1>6, <1>8 DEF n, m
    <3>2. QED
      BY <1>1, <3>1, PartIs
  <2>4. e - 1 = p + Len(s) - 1
    BY <1>1, <1>6 DEF m
  <2>5. QED
    BY <1>5, <1>6, <2>2, <2>3, <2>4
<1>9. ASSUME e > n + 1 PROVE ParseNumber(t, p).next \in {0, n + 1}
  <2> DEFINE z == n + 1
  <2>1. first \in 1..(Len(t) + 1) /\ z \in first..(Len(t) + 1)
        /\ \A i \in first..(z - 1) : t[i] \in Digits
    BY <1>1, <1>6, <1>7, <1>9 DEF n
  <2>2. ~(z <= Len(t))
    BY <1>1 DEF n
  <2> HIDE DEF z
  <2>3. end = z
    BY <2>1, <2>2, PastTo
  <2>4. QED
    BY <1>5, <2>3, ReadOf, FailedIs DEF z
<1>10. QED
  BY <1>8, <1>9 DEF n

-----------------------------------------------------------------------------
(* The loops, over entries that are laid out one after another.            *)

\* What is left of a sequence from i on.
Rest(s, i) == [k \in 1..(Len(s) - i + 1) |-> s[i + k - 1]]

LEMMA RestIs ==
  ASSUME NEW S, NEW s \in Seq(S), NEW i \in 1..(Len(s) + 1)
  PROVE  /\ Rest(s, i) \in Seq(S) /\ Len(Rest(s, i)) = Len(s) - i + 1
         /\ \A k \in 1..(Len(s) - i + 1) : Rest(s, i)[k] = s[i + k - 1]
<1> DEFINE n == Len(s)
           m == n - i + 1
<1>1. n \in Nat /\ m \in Nat /\ \A k \in 1..n : s[k] \in S
  BY TextIs
<1>2. Rest(s, i) = [k \in 1..m |-> s[i + k - 1]]
  BY DEF Rest
<1>3. \A k \in 1..m : i + k - 1 \in 1..n
  BY <1>1
<1> HIDE DEF n, m
<1>4. Rest(s, i) \in [1..m -> S]
  BY <1>1, <1>2, <1>3
<1>5. Rest(s, i) \in Seq(S) /\ Len(Rest(s, i)) = m
  BY <1>1, <1>4
<1>6. QED
  BY <1>2, <1>5 DEF n, m

LEMMA RestOfAll ==
  ASSUME NEW S, NEW s \in Seq(S)
  PROVE  Rest(s, 1) = s
<1>1. Len(s) \in Nat /\ 1 \in 1..(Len(s) + 1) /\ Len(s) - 1 + 1 = Len(s)
      /\ \A k \in 1..Len(s) : 1 + k - 1 = k
  BY TextIs
<1>2. Rest(s, 1) \in Seq(S) /\ Len(Rest(s, 1)) = Len(s) /\ \A k \in 1..Len(s) : Rest(s, 1)[k] = s[k]
  <2>1. /\ Rest(s, 1) \in Seq(S) /\ Len(Rest(s, 1)) = Len(s) - 1 + 1
        /\ \A k \in 1..(Len(s) - 1 + 1) : Rest(s, 1)[k] = s[1 + k - 1]
    BY <1>1, RestIs
  <2>2. ASSUME NEW k \in 1..Len(s) PROVE Rest(s, 1)[k] = s[k]
    <3>1. k \in 1..(Len(s) - 1 + 1) /\ 1 + k - 1 = k
      BY <1>1
    <3>2. QED
      BY <2>1, <3>1
  <2>3. QED
    BY <1>1, <2>1, <2>2
<1>3. QED
  BY <1>2, SeqEqual

LEMMA RestOfLast ==
  ASSUME NEW S, NEW s \in Seq(S), Len(s) # 0
  PROVE  Rest(s, Len(s)) = <<s[Len(s)]>>
<1> DEFINE n == Len(s)
           c == s[n]
<1>1. n \in Nat /\ n \in 1..(n + 1) /\ n - n + 1 = 1 /\ n + 1 - 1 = n /\ c \in S /\ 1 \in 1..1
  BY TextIs
<1>2. Rest(s, n) \in Seq(S) /\ Len(Rest(s, n)) = 1 /\ Rest(s, n)[1] = c
  <2>1. /\ Rest(s, n) \in Seq(S) /\ Len(Rest(s, n)) = n - n + 1
        /\ \A k \in 1..(n - n + 1) : Rest(s, n)[k] = s[n + k - 1]
    BY <1>1, RestIs
  <2>2. 1 \in 1..(n - n + 1)
    BY <1>1
  <2> HIDE DEF n
  <2>3. Rest(s, n)[1] = s[n + 1 - 1]
    BY <2>1, <2>2
  <2>4. QED
    BY <1>1, <2>1, <2>3
<1>3. <<c>> \in Seq(S) /\ Len(<<c>>) = 1 /\ <<c>>[1] = c
  BY <1>1, Singleton
<1> HIDE DEF n, c
<1> DEFINE r == Rest(s, n)
           q == <<c>>
<1>4. r \in Seq(S) /\ q \in Seq(S) /\ Len(r) = Len(q) /\ \A k \in 1..Len(r) : r[k] = q[k]
  BY <1>2, <1>3
<1> HIDE DEF r, q
<1>5. r = q
  BY <1>4, SeqEqual
<1>6. QED
  BY <1>5 DEF r, q, n, c

LEMMA RestOfMore ==
  ASSUME NEW S, NEW s \in Seq(S), NEW i \in 1..Len(s)
  PROVE  <<s[i]>> \o Rest(s, i + 1) = Rest(s, i)
<1> DEFINE n == Len(s)
           c == s[i]
           q == <<c>>
           r == Rest(s, i + 1)
           w == q \o r
           z == Rest(s, i)
<1>1. n \in Nat /\ c \in S /\ i \in 1..n /\ i + 1 \in 1..(n + 1) /\ i \in 1..(n + 1)
  BY TextIs
<1>2. q \in Seq(S) /\ Len(q) = 1 /\ q[1] = c
  BY <1>1, Singleton
<1>3. r \in Seq(S) /\ Len(r) = n - (i + 1) + 1 /\ \A k \in 1..(n - (i + 1) + 1) : r[k] = s[i + 1 + k - 1]
  BY <1>1, RestIs
<1>4. z \in Seq(S) /\ Len(z) = n - i + 1 /\ \A k \in 1..(n - i + 1) : z[k] = s[i + k - 1]
  BY <1>1, RestIs
<1>5. /\ w \in Seq(S) /\ Len(w) = Len(q) + Len(r)
      /\ \A k \in 1..(Len(q) + Len(r)) : w[k] = IF k <= Len(q) THEN q[k] ELSE r[k - Len(q)]
  <2> HIDE DEF q, r
  <2>1. QED
    BY <1>2, <1>3, JoinedTexts
<1> HIDE DEF n, q, r, w, z
<1>6. Len(w) = n - i + 1
  BY <1>1, <1>2, <1>3, <1>5
<1>7. ASSUME NEW k \in 1..(n - i + 1) PROVE w[k] = z[k]
  <2>1. w[k] = IF k <= 1 THEN q[k] ELSE r[k - 1]
    BY <1>1, <1>2, <1>3, <1>5, <1>7
  <2>2. z[k] = s[i + k - 1]
    BY <1>4
  <2>3. CASE k = 1
    BY <1>1, <1>2, <2>1, <2>2, <2>3
  <2>4. CASE k # 1
    <3>1. ~(k <= 1) /\ k - 1 \in 1..(n - (i + 1) + 1) /\ i + 1 + (k - 1) - 1 = i + k - 1
      BY <1>1, <1>7, <2>4
    <3>2. r[k - 1] = s[i + 1 + (k - 1) - 1]
      BY <1>3, <3>1
    <3>3. QED
      BY <2>1, <2>2, <3>1, <3>2
  <2>5. QED
    BY <2>3, <2>4
<1>8. w = z
  BY <1>4, <1>5, <1>6, <1>7, SeqEqual
<1>9. QED
  BY <1>8 DEF w, z, q, r, c

\* The array or object that the loop makes of the entries from i on, and of the i-th alone.
From(v, i) == Value(v.type, v.text, Rest(v.keys, i), Rest(v.items, i))
One(v, i)  == Value(v.type, v.text, IF v.keys = <<>> THEN <<>> ELSE <<v.keys[i]>>, <<v.items[i]>>)

ValueOver(v, S, T) == /\ v = Value(v.type, v.text, v.keys, v.items)
                      /\ v.keys \in Seq(S) /\ v.items \in Seq(T)
                      /\ v.keys # <<>> => Len(v.keys) = Len(v.items)

LEMMA ValueIs ==
  ASSUME NEW ty, NEW tx, NEW ks, NEW vs
  PROVE  LET v == Value(ty, tx, ks, vs)
         IN  v.type = ty /\ v.text = tx /\ v.keys = ks /\ v.items = vs
BY DEF Value

Changed(v, kt, vt) == [v EXCEPT !.keys = kt, !.items = vt]

LEMMA ValueChanged ==
  ASSUME NEW ty, NEW tx, NEW ks, NEW vs, NEW kt, NEW vt
  PROVE  Changed(Value(ty, tx, ks, vs), kt, vt) = Value(ty, tx, kt, vt)
<1> DEFINE r == Value(ty, tx, ks, vs)
           a == Value(ty, tx, kt, vs)
<1>1. [r EXCEPT !.keys = kt] = a
  BY DEF Value
<1>2. [a EXCEPT !.items = vt] = Value(ty, tx, kt, vt)
  BY DEF Value
<1> HIDE DEF a
<1>3. [r EXCEPT !.keys = kt, !.items = vt] = [a EXCEPT !.items = vt]
  BY <1>1, Zenon
<1>4. QED
  BY <1>2, <1>3 DEF Changed

LEMMA NothingLeft ==
  ASSUME NEW i \in Nat, i >= 1
  PROVE  Rest(<<>>, i) = <<>>
<1>1. Len(<<>>) = 0 /\ 1..(0 - i + 1) = {}
  OBVIOUS
<1>2. QED
  BY <1>1 DEF Rest

LEMMA FromAll ==
  ASSUME NEW S, NEW T, NEW v, ValueOver(v, S, T)
  PROVE  From(v, 1) = v
<1>1. Rest(v.keys, 1) = v.keys /\ Rest(v.items, 1) = v.items
  BY RestOfAll DEF ValueOver
<1>2. QED
  BY <1>1 DEF From, ValueOver

LEMMA FromLast ==
  ASSUME NEW S, NEW T, NEW v, ValueOver(v, S, T), Len(v.items) # 0
  PROVE  From(v, Len(v.items)) = One(v, Len(v.items))
<1> DEFINE n == Len(v.items)
           ks == v.keys
<1>1. n \in Nat /\ n >= 1
  BY TextIs DEF ValueOver
<1>2. Rest(v.items, n) = <<v.items[n]>>
  BY RestOfLast DEF ValueOver
<1>3. Rest(ks, n) = IF ks = <<>> THEN <<>> ELSE <<ks[n]>>
  <2>1. CASE ks = <<>>
    <3>1. Rest(<<>>, n) = <<>>
      BY <1>1, NothingLeft
    <3>2. QED
      BY <2>1, <3>1
  <2>2. CASE ks # <<>>
    <3>1. ks \in Seq(S) /\ Len(ks) = n /\ Len(ks) # 0
      BY <2>2 DEF ValueOver
    <3> HIDE DEF ks, n
    <3>2. Rest(ks, n) = <<ks[n]>>
      BY <3>1, RestOfLast
    <3>3. QED
      BY <2>2, <3>2
  <2>3. QED
    BY <2>1, <2>2
<1>4. QED
  BY <1>2, <1>3 DEF From, One

LEMMA FromMore ==
  ASSUME NEW S, NEW T, NEW v, ValueOver(v, S, T), NEW i \in 1..Len(v.items), i < Len(v.items),
         NEW rest, Ok(rest), rest.value = From(v, i + 1)
  PROVE  Joined(One(v, i), rest).value = From(v, i)
<1> DEFINE one == One(v, i)
           from == From(v, i + 1)
           k1 == IF v.keys = <<>> THEN <<>> ELSE <<v.keys[i]>>
           i1 == <<v.items[i]>>
           k2 == Rest(v.keys, i + 1)
           i2 == Rest(v.items, i + 1)
<1>1. i1 \o i2 = Rest(v.items, i)
  BY RestOfMore DEF ValueOver
<1>2. k1 \o k2 = Rest(v.keys, i)
  <2>1. CASE v.keys = <<>>
    <3>1. i \in Nat /\ i + 1 \in Nat /\ i >= 1 /\ i + 1 >= 1
      OBVIOUS
    <3>2. Rest(<<>>, i) = <<>> /\ Rest(<<>>, i + 1) = <<>>
      BY <3>1, NothingLeft
    <3>3. <<>> \o <<>> = <<>>
      OBVIOUS
    <3>4. QED
      BY <2>1, <3>2, <3>3
  <2>2. CASE v.keys # <<>>
    <3>1. v.keys \in Seq(S) /\ i \in 1..Len(v.keys)
      BY <2>2 DEF ValueOver
    <3>2. <<v.keys[i]>> \o Rest(v.keys, i + 1) = Rest(v.keys, i)
      BY <3>1, RestOfMore
    <3>3. QED
      BY <2>2, <3>2
  <2>3. QED
    BY <2>1, <2>2
<1>3. one = Value(v.type, v.text, k1, i1) /\ from.keys = k2 /\ from.items = i2
  BY ValueIs DEF One, From
<1>4. From(v, i) = Value(v.type, v.text, Rest(v.keys, i), Rest(v.items, i))
  BY DEF From
<1> HIDE DEF one, from, k1, k2, i1, i2
<1>5. rest.value.keys = k2 /\ rest.value.items = i2
  BY <1>3 DEF from
<1>6. Joined(one, rest).value = [one EXCEPT !.keys = Cat(@, k2), !.items = Cat(@, i2)]
  <2>1. Joined(one, rest).value =
          [one EXCEPT !.keys = @ \o rest.value.keys, !.items = @ \o rest.value.items]
    BY JoinedIs, Zenon
  <2>2. QED
    BY <1>5, <2>1, Zenon DEF Cat
<1>7. [one EXCEPT !.keys = Cat(@, k2), !.items = Cat(@, i2)] =
        Value(v.type, v.text, Cat(k1, k2), Cat(i1, i2))
  <2>1. one.keys = k1 /\ one.items = i1
    BY <1>3, ValueIs
  <2>2. [one EXCEPT !.keys = Cat(k1, k2), !.items = Cat(i1, i2)] =
          Value(v.type, v.text, Cat(k1, k2), Cat(i1, i2))
    <3>1. Changed(one, Cat(k1, k2), Cat(i1, i2)) = Value(v.type, v.text, Cat(k1, k2), Cat(i1, i2))
      BY <1>3, ValueChanged
    <3>2. QED
      BY <3>1, Zenon DEF Changed
  <2>3. QED
    BY <2>1, <2>2, Zenon
<1>8. Cat(k1, k2) = Rest(v.keys, i) /\ Cat(i1, i2) = Rest(v.items, i)
  BY <1>1, <1>2 DEF Cat
<1>9. QED
  BY <1>4, <1>6, <1>7, <1>8 DEF one

\* Nothing but blanks from a to b, as far as the text goes.
Blank(t, a, b) == \A i \in a..b : i <= Len(t) => t[i] \in White

\* The entries of an array or object that begins at p, in a text that may be cut short: the
\* i-th is read from start[i] on, stands from first[i] on, and ends before stop[i]; the
\* bracket that closes is at c.
Laid(t, p, m, start, first, stop, texts, close, c) ==
  /\ start \in [1..m -> Nat] /\ first \in [1..m -> Nat] /\ stop \in [1..m -> Nat] /\ c \in Nat
  /\ start[1] = p + 1
  /\ \A i \in 1..m : /\ start[i] >= 1 /\ start[i] <= first[i] /\ first[i] <= stop[i]
                     /\ stop[i] <= c
                     /\ Blank(t, start[i], first[i] - 1)
                     /\ Agrees(t, first[i], texts[i]) /\ stop[i] = first[i] + Len(texts[i])
  /\ \A i \in 1..(m - 1) : /\ start[i + 1] = stop[i] + 1
                           /\ stop[i] <= Len(t) => t[stop[i]] = Comma
  /\ Blank(t, stop[m], c - 1) /\ (c <= Len(t) => t[c] = close)

\* An entry that stands from first to stop is read as x when it is plain.
EntryFine(t, kind, from, first, stop, x, plain) ==
  LET r == EntryAt(t, kind, from)
  IN  first <= Len(t) + 1 =>
        /\ stop <= Len(t) + 1 /\ (stop <= Len(t) => t[stop] \notin Digits) =>
             r.next = stop /\ (plain => r.value = x)
        /\ stop > Len(t) + 1 => r.next \in {0, Len(t) + 1}

LEMMA EntryEnd ==
  ASSUME NEW S, NEW t \in Seq(S), NEW kind
  PROVE  EntryAt(t, kind, Len(t) + 1).next = 0
<1> DEFINE p == Len(t) + 1
<1>1. p \in 1..(Len(t) + 1) /\ p \in Nat /\ (p + 1)..(Len(t) + 1) = {}
  BY TextIs
<1>2. Parsed(t)[<<"value", p>>].next = 0
  BY EndFails, KindsAre
<1>3. ParseString(t, p).next = 0
  BY <1>1, StringAdvances DEF Advances
<1> HIDE DEF p
<1>4. ItemAt(t, p) = Failed
  BY <1>2 DEF ItemAt, Ok
<1>5. MemberAt(t, p) = Failed
  BY <1>3 DEF MemberAt, Ok
<1>6. EntryAt(t, kind, p) = Failed
  BY <1>4, <1>5 DEF EntryAt
<1>7. QED
  BY <1>6, FailedIs DEF p

\* Blanks before it make no difference.
LEMMA EntryBehindBlanks ==
  ASSUME NEW S, NEW t \in Seq(S), NEW kind, NEW start \in 1..(Len(t) + 1), NEW first \in Nat,
         NEW stop \in Nat, start <= first, first <= stop, Blank(t, start, first - 1), NEW x,
         NEW plain, EntryFine(t, kind, first, first, stop, x, plain)
  PROVE  EntryFine(t, kind, start, start, stop, x, plain)
<1> DEFINE n == Len(t)
<1>1. n \in Nat
  BY TextIs
<1>2. CASE first <= n + 1
  <2>1. first \in start..(Len(t) + 1) /\ \A i \in start..(first - 1) : t[i] \in White
    BY <1>1, <1>2 DEF Blank
  <2>2. EntryAt(t, kind, start) = EntryAt(t, kind, first)
    BY <2>1, EntrySkips
  <2>3. QED
    BY <1>2, <2>2 DEF EntryFine
<1>3. CASE first > n + 1
  <2> DEFINE q == n + 1
  <2>1. q \in start..(Len(t) + 1) /\ \A i \in start..(q - 1) : t[i] \in White
    BY <1>1, <1>3 DEF Blank
  <2>2. EntryAt(t, kind, q).next = 0
    BY EntryEnd
  <2> HIDE DEF q
  <2>3. EntryAt(t, kind, start) = EntryAt(t, kind, q)
    BY <2>1, EntrySkips
  <2>4. stop > n + 1 /\ ~(stop <= n + 1)
    BY <1>1, <1>3
  <2>5. QED
    BY <2>2, <2>3, <2>4 DEF EntryFine
<1>4. QED
  BY <1>1, <1>2, <1>3

LEMMA DigitsAre == /\ Comma \notin Digits /\ \A c \in White : c \notin Digits
                   /\ \A kind \in Loops : CloseOf(kind) \notin Digits
<1>1. \A c \in Digits : c \in NumberStart
  BY Zenon DEF NumberStart
<1>2. Comma \notin NumberStart /\ \A c \in White : c \notin NumberStart
  BY SymbolsDiffer, MarkersDiffer
<1>3. QED
  BY <1>1, <1>2, LoopsAre

\* Behind the text there is nothing to go on with.
LEMMA ContinuedEnd ==
  ASSUME NEW S, NEW t \in Seq(S), NEW p \in 1..(Len(t) + 1), Blank(t, p, Len(t)),
         NEW entry, NEW kind \in Loops
  PROVE  Continued(t, p, entry, CloseOf(kind), kind, Parsed(t)).next = 0
<1>1. Len(t) \in Nat /\ \A i \in p..Len(t) : t[i] \in White
  BY TextIs DEF Blank
<1>2. Peek(t, p) = TheEnd
  BY <1>1, SkipToEnd DEF TheEnd
<1>3. CloseOf(kind) # TheEnd /\ CloseOf(kind) # Comma /\ Comma # TheEnd
  BY LoopsAre, SymbolsDiffer, MarkersDiffer
<1>4. Continued(t, p, entry, CloseOf(kind), kind, Parsed(t)) = Failed
  BY <1>2, <1>3, ContinuedRules
<1>5. QED
  BY <1>4, FailedIs

\* What the loop should give from an entry on.
LoopFine(t, kind, start, c, v, plain) ==
  LET r == Parsed(t)[<<kind, start>>]
  IN  start <= Len(t) + 1 => /\ c <= Len(t) => r.next = c + 1 /\ (plain => r.value = v)
                             /\ c > Len(t) => r.next = 0

\* An entry that was cut short, or that nothing follows.
LEMMA LoopCut ==
  ASSUME NEW S, NEW t \in Seq(S), NEW kind \in Loops, NEW start \in 1..(Len(t) + 1),
         EntryAt(t, kind, start).next \in {0, Len(t) + 1}
  PROVE  Parsed(t)[<<kind, start>>].next = 0
<1> DEFINE e == EntryAt(t, kind, start)
<1>1. Parsed(t)[<<kind, start>>] =
        IF Ok(e) THEN Continued(t, e.next, e.value, CloseOf(kind), kind, Parsed(t)) ELSE Failed
  BY LoopRule
<1>2. e.next \in {0, Len(t) + 1}
  OBVIOUS
<1> HIDE DEF e
<1>3. CASE Ok(e)
  <2> DEFINE q == Len(t) + 1
  <2>1. q \in 1..(Len(t) + 1) /\ Blank(t, q, Len(t)) /\ e.next = q
    BY <1>2, <1>3, TextIs DEF Blank, Ok
  <2> HIDE DEF q
  <2>2. Continued(t, q, e.value, CloseOf(kind), kind, Parsed(t)).next = 0
    BY <2>1, ContinuedEnd
  <2>3. QED
    BY <1>1, <1>3, <2>1, <2>2
<1>4. CASE ~Ok(e)
  BY <1>1, <1>4, FailedIs
<1>5. QED
  BY <1>3, <1>4

\* The last entry, with the bracket behind it.
LEMMA LoopLast ==
  ASSUME NEW S, NEW t \in Seq(S), NEW kind \in Loops, NEW start \in 1..(Len(t) + 1),
         NEW stop \in Nat, NEW c \in Nat, stop >= 1, stop <= c, Blank(t, stop, c - 1),
         c <= Len(t) => t[c] = CloseOf(kind), NEW v, NEW plain,
         EntryFine(t, kind, start, start, stop, v, plain)
  PROVE  LoopFine(t, kind, start, c, v, plain)
<1> DEFINE n == Len(t)
           e == EntryAt(t, kind, start)
           r == Parsed(t)[<<kind, start>>]
<1>1. n \in Nat
  BY TextIs
<1>2. r = IF Ok(e) THEN Continued(t, e.next, e.value, CloseOf(kind), kind, Parsed(t)) ELSE Failed
  BY LoopRule
<1>3. CASE stop > n + 1
  <2>1. e.next \in {0, n + 1} /\ ~(c <= n)
    BY <1>1, <1>3 DEF EntryFine
  <2>2. r.next = 0
    BY <2>1, LoopCut
  <2>3. QED
    BY <2>1, <2>2 DEF LoopFine
<1>4. CASE stop <= n + 1
  <2>1. stop <= n => t[stop] \notin Digits
    <3>1. ASSUME stop <= n PROVE t[stop] \notin Digits
      <4>1. CASE stop = c
        BY <3>1, <4>1, DigitsAre
      <4>2. CASE stop # c
        <5>1. stop \in stop..(c - 1)
          BY <4>2
        <5>2. t[stop] \in White
          BY <3>1, <5>1 DEF Blank
        <5>3. QED
          BY <5>2, DigitsAre
      <4>3. QED
        BY <4>1, <4>2
    <3>2. QED
      BY <3>1
  <2>2. e.next = stop /\ (plain => e.value = v)
    BY <1>1, <1>4, <2>1 DEF EntryFine
  <2> HIDE DEF e, r
  <2>3. Ok(e)
    BY <2>2 DEF Ok
  <2> DEFINE w == Continued(t, stop, e.value, CloseOf(kind), kind, Parsed(t))
  <2>4. r = w
    BY <1>2, <2>2, <2>3
  <2>5. stop \in 1..(Len(t) + 1)
    BY <1>1, <1>4
  <2>6. CASE c <= n
    <3>1. c \in stop..Len(t) /\ \A i \in stop..(c - 1) : t[i] \in White
      BY <1>1, <2>6 DEF Blank
    <3>2. t[c] = CloseOf(kind) /\ t[c] \notin White
      BY <2>6, LoopsAre
    <3>3. Peek(t, stop) = CloseOf(kind) /\ After(t, stop) = c + 1
      BY <2>5, <3>1, <3>2, SkipTo
    <3>4. w = Read(e.value, c + 1)
      BY <3>3, LoopsAre, ContinuedRules
    <3> HIDE DEF w
    <3>5. r.next = c + 1 /\ r.value = e.value
      BY <2>4, <3>4, ReadOf
    <3>6. ~(c > n)
      BY <1>1, <2>6
    <3>7. QED
      BY <2>2, <3>5, <3>6 DEF LoopFine, r
  <2>7. CASE c > n
    <3>1. Blank(t, stop, Len(t))
      BY <1>1, <2>7 DEF Blank
    <3>2. w.next = 0
      BY <2>5, <3>1, ContinuedEnd
    <3> HIDE DEF w
    <3>3. ~(c <= n)
      BY <1>1, <2>7
    <3>4. QED
      BY <2>4, <3>2, <3>3 DEF LoopFine, r
  <2>8. QED
    BY <1>1, <2>6, <2>7
<1>5. QED
  BY <1>1, <1>3, <1>4

\* An entry with a comma behind it, and what the loop gives behind the comma.
LEMMA LoopMore ==
  ASSUME NEW S, NEW t \in Seq(S), NEW kind \in Loops, NEW start \in 1..(Len(t) + 1),
         NEW stop \in Nat, NEW c \in Nat, stop >= 1, stop <= c,
         stop <= Len(t) => t[stop] = Comma, NEW v, NEW X, NEW Y, NEW i \in 1..Len(v.items),
         i < Len(v.items), ValueOver(v, X, Y), NEW plain,
         EntryFine(t, kind, start, start, stop, One(v, i), plain),
         LoopFine(t, kind, stop + 1, c, From(v, i + 1), plain)
  PROVE  LoopFine(t, kind, start, c, From(v, i), plain)
<1> DEFINE n == Len(t)
           e == EntryAt(t, kind, start)
           r == Parsed(t)[<<kind, start>>]
           rest == Parsed(t)[<<kind, stop + 1>>]
<1>1. n \in Nat
  BY TextIs
<1>2. r = IF Ok(e) THEN Continued(t, e.next, e.value, CloseOf(kind), kind, Parsed(t)) ELSE Failed
  BY LoopRule
<1>3. CASE stop > n + 1
  <2>1. e.next \in {0, n + 1} /\ ~(c <= n)
    BY <1>1, <1>3 DEF EntryFine
  <2>2. r.next = 0
    BY <2>1, LoopCut
  <2>3. QED
    BY <2>1, <2>2 DEF LoopFine
<1>4. CASE stop <= n + 1
  <2>1. stop <= n => t[stop] \notin Digits
    BY DigitsAre
  <2>2. e.next = stop /\ (plain => e.value = One(v, i))
    BY <1>1, <1>4, <2>1 DEF EntryFine
  <2>3. Ok(e)
    <3> HIDE DEF e
    <3>1. QED
      BY <2>2 DEF Ok
  <2>4. CASE stop = n + 1
    <3>1. r.next = 0
      BY <2>2, <2>4, LoopCut
    <3>2. ~(c <= n)
      BY <1>1, <2>4
    <3>3. QED
      BY <3>1, <3>2 DEF LoopFine
  <2>5. CASE stop # n + 1
    <3>1. /\ stop \in 1..(Len(t) + 1) /\ stop \in stop..Len(t) /\ stop <= n
          /\ stop + 1 <= n + 1 /\ \A j \in stop..(stop - 1) : t[j] \in White
      BY <1>1, <1>4, <2>5
    <3>2. t[stop] = Comma /\ Comma \notin White /\ CloseOf(kind) # Comma
      BY <3>1, LoopsAre, SymbolsDiffer, MarkersDiffer
    <3>3. Peek(t, stop) = Comma /\ After(t, stop) = stop + 1
      BY <3>1, <3>2, SkipTo
    <3> DEFINE w == Continued(t, stop, e.value, CloseOf(kind), kind, Parsed(t))
    <3>4. w = Joined(e.value, rest)
      BY <3>2, <3>3, ContinuedRules
    <3> HIDE DEF e, r
    <3>5. r = w
      BY <1>2, <2>2, <2>3
    <3> HIDE DEF w
    <3>6. /\ c <= n => rest.next = c + 1 /\ (plain => rest.value = From(v, i + 1))
          /\ c > n => rest.next = 0
      BY <3>1 DEF LoopFine
    <3> HIDE DEF rest
    <3>7. r.next = rest.next
      <4>1. Joined(e.value, rest).next = rest.next
        BY JoinedIs
      <4>2. QED
        BY <3>4, <3>5, <4>1
    <3>8. ASSUME c <= n, plain PROVE r.value = From(v, i)
      <4>1. Ok(rest)
        BY <3>6, <3>8 DEF Ok
      <4>2. Joined(One(v, i), rest).value = From(v, i)
        BY <3>6, <3>8, <4>1, FromMore
      <4>3. QED
        BY <2>2, <3>4, <3>5, <3>8, <4>2
    <3>9. QED
      BY <3>6, <3>7, <3>8 DEF LoopFine, r
  <2>6. QED
    BY <2>4, <2>5
<1>5. QED
  BY <1>1, <1>3, <1>4

\* The loop over all entries: it reads the array or object that they were written of up to
\* the bracket, and refuses it when the bracket is missing.
LEMMA LoopRead ==
  ASSUME NEW S, NEW t \in Seq(S), NEW kind \in Loops, NEW p \in 1..Len(t),
         NEW v, NEW X, NEW Y, ValueOver(v, X, Y), NEW m, m = Len(v.items), m # 0,
         NEW start, NEW first, NEW stop, NEW texts, NEW c,
         Laid(t, p, m, start, first, stop, texts, CloseOf(kind), c), NEW plain,
         \A i \in 1..m : EntryFine(t, kind, first[i], first[i], stop[i], One(v, i), plain)
  PROVE  LoopFine(t, kind, p + 1, c, v, plain)
<1>1. m \in Nat /\ m >= 1
  BY TextIs DEF ValueOver
<1>2. /\ start \in [1..m -> Nat] /\ first \in [1..m -> Nat] /\ stop \in [1..m -> Nat] /\ c \in Nat
      /\ start[1] = p + 1
      /\ \A i \in 1..m : /\ start[i] >= 1 /\ start[i] <= first[i] /\ first[i] <= stop[i]
                         /\ stop[i] <= c /\ Blank(t, start[i], first[i] - 1)
      /\ \A i \in 1..(m - 1) : /\ start[i + 1] = stop[i] + 1
                               /\ stop[i] <= Len(t) => t[stop[i]] = Comma
      /\ Blank(t, stop[m], c - 1) /\ (c <= Len(t) => t[c] = CloseOf(kind))
  BY DEF Laid
<1> DEFINE Fine(i) == LoopFine(t, kind, start[i], c, From(v, i), plain)
<1>3. ASSUME NEW i \in 1..m, start[i] <= Len(t) + 1
      PROVE  EntryFine(t, kind, start[i], start[i], stop[i], One(v, i), plain)
  <2>1. /\ start[i] \in 1..(Len(t) + 1) /\ first[i] \in Nat /\ stop[i] \in Nat
        /\ start[i] <= first[i] /\ first[i] <= stop[i] /\ Blank(t, start[i], first[i] - 1)
        /\ EntryFine(t, kind, first[i], first[i], stop[i], One(v, i), plain)
    BY <1>2, <1>3, TextIs
  <2> DEFINE a == start[i]
             b == first[i]
             d == stop[i]
  <2> HIDE DEF a, b, d
  <2>2. /\ a \in 1..(Len(t) + 1) /\ b \in Nat /\ d \in Nat /\ a <= b /\ b <= d
        /\ Blank(t, a, b - 1) /\ EntryFine(t, kind, b, b, d, One(v, i), plain)
    BY <2>1 DEF a, b, d
  <2>3. EntryFine(t, kind, a, a, d, One(v, i), plain)
    BY <2>2, EntryBehindBlanks
  <2>4. QED
    BY <2>3 DEF a, b, d
<1>4. ASSUME NEW i \in 1..m PROVE start[i] > Len(t) + 1 => Fine(i)
  <2>1. start[i] \in Nat /\ Len(t) \in Nat
    BY <1>2, TextIs
  <2>2. QED
    BY <2>1 DEF LoopFine
<1>5. Fine(m)
  <2>1. m \in 1..m /\ From(v, m) = One(v, m)
    BY <1>1, FromLast
  <2>2. CASE start[m] <= Len(t) + 1
    <3> DEFINE a == start[m]
               d == stop[m]
               w == From(v, m)
    <3>1. /\ a \in 1..(Len(t) + 1) /\ d \in Nat /\ c \in Nat /\ d >= 1 /\ d <= c
          /\ Blank(t, d, c - 1) /\ (c <= Len(t) => t[c] = CloseOf(kind))
          /\ EntryFine(t, kind, a, a, d, w, plain)
      <4>1. /\ a \in 1..(Len(t) + 1) /\ d \in Nat /\ c \in Nat /\ d >= 1 /\ d <= c
            /\ Blank(t, d, c - 1) /\ (c <= Len(t) => t[c] = CloseOf(kind))
        BY <1>2, <2>1, <2>2, TextIs
      <4>2. EntryFine(t, kind, a, a, d, One(v, m), plain)
        BY <1>3, <2>1, <2>2
      <4>3. QED
        BY <2>1, <4>1, <4>2
    <3> HIDE DEF a, d, w
    <3>2. LoopFine(t, kind, a, c, w, plain)
      BY <3>1, LoopLast
    <3>3. QED
      BY <3>2 DEF a, w
  <2>3. CASE start[m] > Len(t) + 1
    BY <1>4, <2>1, <2>3
  <2>4. start[m] \in Nat /\ Len(t) \in Nat
    BY <1>2, <2>1, TextIs
  <2>5. QED
    BY <2>2, <2>3, <2>4
<1>6. ASSUME NEW i \in 1..(m - 1), Fine(i + 1) PROVE Fine(i)
  <2>1. i \in 1..m /\ i < m /\ i \in 1..Len(v.items) /\ i < Len(v.items)
    BY <1>1
  <2>2. CASE start[i] <= Len(t) + 1
    <3> DEFINE a == start[i]
               d == stop[i]
    <3>1. /\ a \in 1..(Len(t) + 1) /\ d \in Nat /\ c \in Nat /\ d >= 1 /\ d <= c
          /\ (d <= Len(t) => t[d] = Comma)
          /\ EntryFine(t, kind, a, a, d, One(v, i), plain)
          /\ LoopFine(t, kind, d + 1, c, From(v, i + 1), plain)
      <4>1. /\ a \in 1..(Len(t) + 1) /\ d \in Nat /\ c \in Nat /\ d >= 1 /\ d <= c
            /\ (d <= Len(t) => t[d] = Comma) /\ start[i + 1] = d + 1
        <5>1. a \in Nat /\ first[i] \in Nat /\ d \in Nat /\ c \in Nat
          BY <1>2, <2>1
        <5>2. a >= 1 /\ a <= first[i] /\ first[i] <= d /\ d <= c
          BY <1>2, <2>1
        <5>3. (d <= Len(t) => t[d] = Comma) /\ start[i + 1] = d + 1
          BY <1>2, <1>6
        <5> HIDE DEF a, d
        <5>4. a <= Len(t) + 1 /\ Len(t) \in Nat
          BY <2>2, TextIs DEF a
        <5>5. QED
          BY <5>1, <5>2, <5>3, <5>4
      <4>2. EntryFine(t, kind, a, a, d, One(v, i), plain)
        BY <1>3, <2>1, <2>2
      <4>3. QED
        BY <1>6, <4>1, <4>2
    <3> HIDE DEF a, d
    <3>2. LoopFine(t, kind, a, c, From(v, i), plain)
      BY <2>1, <3>1, LoopMore
    <3>3. QED
      BY <3>2 DEF a
  <2>3. CASE start[i] > Len(t) + 1
    BY <1>4, <2>1, <2>3
  <2>4. start[i] \in Nat /\ Len(t) \in Nat
    BY <1>2, <2>1, TextIs
  <2>5. QED
    BY <2>2, <2>3, <2>4
<1> HIDE DEF Fine
<1> DEFINE U == {i \in 1..(m + 2) : i <= m => Fine(i)}
<1>7. ASSUME NEW i \in 1..m, i + 1 \in U PROVE i \in U
  <2>1. CASE i = m
    BY <1>1, <1>5, <2>1
  <2>2. CASE i # m
    <3>1. i \in 1..(m - 1) /\ i + 1 <= m /\ i \in 1..(m + 2)
      BY <1>1, <2>2
    <3>2. QED
      BY <1>6, <1>7, <3>1
  <2>3. QED
    BY <2>1, <2>2
<1>8. m + 1 \in U /\ m + 2 \in U
  BY <1>1
<1>9. \A i \in 1..(m + 2) : i \in U
  <2> HIDE DEF U
  <2>1. QED
    BY ONLY <1>1, <1>7, <1>8, Downwards
<1>10. Fine(1)
  BY <1>1, <1>9
<1>11. From(v, 1) = v
  BY FromAll
<1>12. QED
  BY <1>2, <1>10, <1>11 DEF Fine

-----------------------------------------------------------------------------
(* The layout of what is written of an array or object.                    *)

LEMMA FlattenedText ==
  ASSUME NEW S, NEW seqs \in Seq(Seq(S))
  PROVE  FlattenSeq(seqs) \in Seq(S)
<1>1. CASE Len(seqs) = 0
  <2>1. seqs = <<>>
    BY <1>1, EmptySeq
  <2>2. FlattenSeq(seqs) = seqs
    BY <1>1 DEF FlattenSeq
  <2>3. <<>> \in Seq(S)
    OBVIOUS
  <2>4. QED
    BY <2>1, <2>2, <2>3, Zenon
<1>2. CASE Len(seqs) # 0
  <2>1. PICK g : g \in [1..Len(seqs) -> Seq(S)] /\ FlattenSeq(seqs) = g[Len(seqs)]
    BY <1>2, Flattened
  <2>2. Len(seqs) \in 1..Len(seqs)
    BY <1>2, TextIs
  <2>3. QED
    BY <2>1, <2>2
<1>3. QED
  BY <1>1, <1>2

\* A new line is blank.
LEMMA NewLineBlank ==
  ASSUME NEW pretty \in BOOLEAN, NEW level \in Nat
  PROVE  NewLine(pretty, level) \in Seq(White)
<1> DEFINE n == 2 * level
           x == <<"\n">>
           y == [i \in 1..n |-> Space]
<1>1. CASE pretty
  <2>1. NewLine(pretty, level) = x \o y
    BY <1>1 DEF NewLine
  <2>2. x \in Seq(White)
    <3>1. "\n" \in White
      BY Zenon DEF White
    <3>2. QED
      BY <3>1
  <2>3. y \in Seq(White)
    <3>1. Space \in White /\ n \in Nat
      BY DEF White
    <3> HIDE DEF n
    <3>2. QED
      BY <3>1
  <2> HIDE DEF x, y
  <2>4. x \o y \in Seq(White)
    BY <2>2, <2>3, JoinedTexts
  <2>5. QED
    BY <2>1, <2>4
<1>2. CASE ~pretty
  BY <1>2 DEF NewLine
<1>3. QED
  BY <1>1, <1>2

LEMMA WiderSeq ==
  ASSUME NEW S, NEW T, T \subseteq S, NEW s \in Seq(T)
  PROVE  s \in Seq(S)
<1>1. Len(s) \in Nat /\ s \in [1..Len(s) -> T]
  BY TextIs
<1>2. s \in [1..Len(s) -> S]
  BY <1>1
<1>3. QED
  BY <1>1, <1>2

LEMMA AgreesBlank ==
  ASSUME NEW t, NEW p \in Nat, NEW w \in Seq(White), Agrees(t, p, w)
  PROVE  Blank(t, p, p + Len(w) - 1)
<1>1. Len(w) \in Nat /\ \A i \in 1..Len(w) : w[i] \in White
  BY TextIs
<1>2. ASSUME NEW i \in p..(p + Len(w) - 1), i <= Len(t) PROVE t[i] \in White
  <2> DEFINE j == i - p + 1
  <2>1. j \in 1..Len(w) /\ p + j - 1 = i
    BY <1>1
  <2> HIDE DEF j
  <2>2. t[p + j - 1] = w[j]
    BY <1>2, <2>1 DEF Agrees
  <2>3. QED
    BY <1>1, <2>1, <2>2
<1>3. QED
  BY <1>2 DEF Blank

\* An entry with what is written before it.
Before(i) == IF i > 1 THEN 1 ELSE 0
Line(i, entry, pretty, level) == (IF i > 1 THEN <<",">> ELSE <<>>) \o NewLine(pretty, level) \o entry

LineLaid(line, i, k, l, entry) ==
  \A t : \A a \in Nat :
    Agrees(t, a, line) => /\ i > 1 /\ a <= Len(t) => t[a] = Comma
                          /\ Blank(t, a + k, a + k + l - 1)
                          /\ Agrees(t, a + k + l, entry)

LEMMA LineIs ==
  ASSUME NEW S, White \subseteq S, Comma \in S, NEW i \in Nat, NEW entry \in Seq(S),
         NEW pretty \in BOOLEAN, NEW level \in Nat, NEW k, k = Before(i),
         NEW l, l = Len(NewLine(pretty, level)), NEW line, line = Line(i, entry, pretty, level)
  PROVE  /\ line \in Seq(S) /\ Len(line) = k + l + Len(entry) /\ l \in Nat
         /\ LineLaid(line, i, k, l, entry)
<1> DEFINE x == IF i > 1 THEN <<Comma>> ELSE <<>>
           y == NewLine(pretty, level)
           z == x \o y
<1>1. /\ x \in Seq(S) /\ Len(x) = k /\ k \in Nat
      /\ i > 1 => x = <<Comma>> /\ k = 1
  <2>1. <<Comma>> \in Seq(S) /\ Len(<<Comma>>) = 1
    BY Singleton
  <2>2. QED
    BY <2>1 DEF Before
<1>2. y \in Seq(White) /\ y \in Seq(S) /\ Len(y) = l /\ l \in Nat
  BY NewLineBlank, WiderSeq, TextIs
<1>3. line = z \o entry
  BY Zenon DEF Line, Comma
<1> HIDE DEF x, y
<1>4. z \in Seq(S) /\ Len(z) = k + l
  <2>1. x \o y \in Seq(S) /\ Len(x \o y) = Len(x) + Len(y)
    BY <1>1, <1>2, JoinedTexts
  <2> HIDE DEF z
  <2>2. QED
    BY <1>1, <1>2, <2>1 DEF z
<1>5. line \in Seq(S) /\ Len(line) = k + l + Len(entry)
  <2> HIDE DEF z
  <2>1. z \o entry \in Seq(S) /\ Len(z \o entry) = Len(z) + Len(entry)
    BY <1>4, JoinedTexts
  <2>2. QED
    BY <1>3, <1>4, <2>1
<1>6. ASSUME NEW t, NEW a \in Nat, Agrees(t, a, line)
      PROVE  /\ i > 1 /\ a <= Len(t) => t[a] = Comma
             /\ Blank(t, a + k, a + k + l - 1)
             /\ Agrees(t, a + k + l, entry)
  <2>1. Agrees(t, a, z) /\ Agrees(t, a + Len(z), entry)
    <3> HIDE DEF z
    <3>1. z \in Seq(S) /\ entry \in Seq(S) /\ Agrees(t, a, z \o entry)
      BY <1>3, <1>4, <1>6
    <3>2. QED
      BY ONLY <3>1, AgreesCat, a \in Nat
  <2>2. Agrees(t, a, x) /\ Agrees(t, a + Len(x), y)
    <3>1. x \in Seq(S) /\ y \in Seq(S) /\ Agrees(t, a, x \o y)
      BY <1>1, <1>2, <2>1
    <3>2. QED
      BY ONLY <3>1, AgreesCat, a \in Nat
  <2>3. a + Len(z) = a + k + l /\ a + Len(x) = a + k /\ a + k \in Nat
    <3>1. k \in Nat /\ l \in Nat /\ Len(z) = k + l /\ Len(x) = k
      BY <1>1, <1>2, <1>4
    <3> HIDE DEF z
    <3>2. QED
      BY ONLY <3>1, a \in Nat
  <2>4. Blank(t, a + k, a + k + l - 1)
    <3> DEFINE b == a + k
    <3>1. b \in Nat /\ Agrees(t, b, y)
      BY <2>2, <2>3
    <3> HIDE DEF b
    <3>2. Blank(t, b, b + Len(y) - 1)
      BY <1>2, <3>1, AgreesBlank
    <3>3. QED
      BY <1>2, <3>2 DEF b
  <2>5. ASSUME i > 1, a <= Len(t) PROVE t[a] = Comma
    <3>1. x = <<Comma>> /\ Len(x) = 1 /\ a + 1 - 1 = a /\ 1 \in 1..1
      BY <1>1, <2>5
    <3>2. t[a + 1 - 1] = x[1]
      BY <2>2, <2>5, <3>1 DEF Agrees
    <3>3. QED
      BY <3>1, <3>2
  <2>6. Agrees(t, a + k + l, entry)
    BY <2>1, <2>3
  <2>7. QED
    BY <2>4, <2>5, <2>6
<1>7. LineLaid(line, i, k, l, entry)
  BY <1>6 DEF LineLaid
<1>8. QED
  BY <1>2, <1>5, <1>7

Lines(entries, pretty, level) == [i \in DOMAIN entries |-> Line(i, entries[i], pretty, level + 1)]
LastLine(entries, pretty, level) == IF entries = <<>> THEN <<>> ELSE NewLine(pretty, level)

LEMMA LinesAre ==
  ASSUME NEW S, White \subseteq S, Comma \in S, NEW entries \in Seq(Seq(S)),
         NEW pretty \in BOOLEAN, NEW level \in Nat
  PROVE  /\ Lines(entries, pretty, level) \in Seq(Seq(S))
         /\ Len(Lines(entries, pretty, level)) = Len(entries)
         /\ \A i \in 1..Len(entries) :
              Lines(entries, pretty, level)[i] = Line(i, entries[i], pretty, level + 1)
<1> DEFINE m == Len(entries)
           seqs == Lines(entries, pretty, level)
<1>1. m \in Nat /\ DOMAIN entries = 1..m /\ \A i \in 1..m : entries[i] \in Seq(S)
  BY TextIs
<1>2. \A i \in 1..m : Line(i, entries[i], pretty, level + 1) \in Seq(S)
  <2>1. ASSUME NEW i \in 1..m PROVE Line(i, entries[i], pretty, level + 1) \in Seq(S)
    <3> DEFINE k == Before(i)
               l == Len(NewLine(pretty, level + 1))
               entry == entries[i]
    <3>1. entry \in Seq(S) /\ i \in Nat /\ level + 1 \in Nat
      BY <1>1
    <3> HIDE DEF entry
    <3>2. Line(i, entry, pretty, level + 1) \in Seq(S)
      BY <3>1, LineIs
    <3>3. QED
      BY <3>2 DEF entry
  <2>2. QED
    BY <2>1
<1>3. seqs = [i \in 1..m |-> Line(i, entries[i], pretty, level + 1)]
  BY <1>1 DEF Lines
<1> HIDE DEF m, seqs
<1>4. seqs \in [1..m -> Seq(S)]
  BY <1>2, <1>3
<1>5. seqs \in Seq(Seq(S)) /\ Len(seqs) = m
  BY <1>1, <1>4
<1>6. QED
  BY <1>3, <1>5 DEF m, seqs

\* The four parts of the writing, and where they stand.
Body(entries, pretty, level) == FlattenSeq(Lines(entries, pretty, level))

FourParts(w, open, body, tail, close) ==
  /\ Len(w) = Len(body) + Len(tail) + 2
  /\ \A t : \A p \in Nat : Agrees(t, p, w) =>
       /\ p <= Len(t) => t[p] = open
       /\ Agrees(t, p + 1, body)
       /\ Agrees(t, p + 1 + Len(body), tail)
       /\ p + 1 + Len(body) + Len(tail) <= Len(t) => t[p + 1 + Len(body) + Len(tail)] = close

LEMMA ListedIs ==
  ASSUME NEW S, White \subseteq S, Comma \in S, NEW entries \in Seq(Seq(S)),
         NEW pretty \in BOOLEAN, NEW level \in Nat, NEW open \in S, NEW close \in S
  PROVE  /\ Listed(open, entries, close, pretty, level) \in Seq(S)
         /\ Body(entries, pretty, level) \in Seq(S)
         /\ LastLine(entries, pretty, level) \in Seq(White)
         /\ FourParts(Listed(open, entries, close, pretty, level), open,
                      Body(entries, pretty, level), LastLine(entries, pretty, level), close)
<1> DEFINE w == Listed(open, entries, close, pretty, level)
           body == Body(entries, pretty, level)
           tail == LastLine(entries, pretty, level)
           a == <<open>>
           b == <<close>>
           x == a \o body
           y == x \o tail
<1>1. a \in Seq(S) /\ Len(a) = 1 /\ a[1] = open /\ b \in Seq(S) /\ Len(b) = 1 /\ b[1] = close
  BY Singleton
<1>2. body \in Seq(S) /\ Len(body) \in Nat
  BY LinesAre, FlattenedText, TextIs DEF Body
<1>3. tail \in Seq(White) /\ tail \in Seq(S) /\ Len(tail) \in Nat
  <2>1. tail \in Seq(White)
    <3>1. NewLine(pretty, level) \in Seq(White) /\ <<>> \in Seq(White)
      BY NewLineBlank
    <3>2. QED
      BY <3>1 DEF LastLine
  <2>2. QED
    BY <2>1, WiderSeq, TextIs
<1>4. w = y \o b
  BY Zenon DEF Listed, Body, Lines, LastLine, Line
<1> HIDE DEF a, b, w, body, tail
<1>5. x \in Seq(S) /\ Len(x) = 1 + Len(body)
  <2>1. a \o body \in Seq(S) /\ Len(a \o body) = Len(a) + Len(body)
    BY <1>1, <1>2, JoinedTexts
  <2>2. QED
    BY <1>1, <2>1
<1> HIDE DEF x
<1>6. y \in Seq(S) /\ Len(y) = 1 + Len(body) + Len(tail)
  <2>1. x \o tail \in Seq(S) /\ Len(x \o tail) = Len(x) + Len(tail)
    BY <1>3, <1>5, JoinedTexts
  <2>2. QED
    BY <1>5, <2>1
<1> HIDE DEF y
<1>7. w \in Seq(S) /\ Len(w) = Len(body) + Len(tail) + 2
  <2>1. y \o b \in Seq(S) /\ Len(y \o b) = Len(y) + Len(b)
    BY <1>1, <1>6, JoinedTexts
  <2>2. w \in Seq(S) /\ Len(w) = Len(y) + Len(b)
    BY <1>4, <2>1
  <2>3. QED
    BY <1>1, <1>2, <1>3, <1>6, <2>2
<1>8. ASSUME NEW t, NEW p \in Nat, Agrees(t, p, w)
      PROVE  /\ p <= Len(t) => t[p] = open
             /\ Agrees(t, p + 1, body)
             /\ Agrees(t, p + 1 + Len(body), tail)
             /\ p + 1 + Len(body) + Len(tail) <= Len(t) =>
                  t[p + 1 + Len(body) + Len(tail)] = close
  <2>1. Agrees(t, p, y) /\ Agrees(t, p + Len(y), b)
    <3>1. y \in Seq(S) /\ b \in Seq(S) /\ Agrees(t, p, y \o b)
      BY <1>1, <1>4, <1>6, <1>8
    <3>2. QED
      BY ONLY <3>1, AgreesCat, p \in Nat
  <2>2. Agrees(t, p, x) /\ Agrees(t, p + Len(x), tail)
    <3>1. x \in Seq(S) /\ tail \in Seq(S) /\ Agrees(t, p, x \o tail)
      BY <1>3, <1>5, <2>1 DEF y
    <3>2. QED
      BY ONLY <3>1, AgreesCat, p \in Nat
  <2>3. Agrees(t, p, a) /\ Agrees(t, p + Len(a), body)
    <3>1. a \in Seq(S) /\ body \in Seq(S) /\ Agrees(t, p, a \o body)
      BY <1>1, <1>2, <2>2 DEF x
    <3>2. QED
      BY ONLY <3>1, AgreesCat, p \in Nat
  <2> DEFINE c == p + 1 + Len(body) + Len(tail)
  <2>4. /\ p + Len(y) = c /\ p + Len(x) = p + 1 + Len(body) /\ p + Len(a) = p + 1
        /\ 1 \in 1..1 /\ c + 1 - 1 = c /\ p + 1 - 1 = p /\ c \in Nat
    BY <1>1, <1>2, <1>3, <1>5, <1>6
  <2> HIDE DEF c
  <2>5. c <= Len(t) => t[c] = close
    <3>1. Agrees(t, c, b) /\ Len(b) = 1
      BY <1>1, <2>1, <2>4
    <3>2. c <= Len(t) => t[c + 1 - 1] = b[1]
      BY <2>4, <3>1 DEF Agrees
    <3>3. QED
      BY <1>1, <2>4, <3>2
  <2>6. p <= Len(t) => t[p] = open
    <3>1. p <= Len(t) => t[p + 1 - 1] = a[1]
      BY <1>1, <2>3, <2>4 DEF Agrees
    <3>2. QED
      BY <1>1, <2>4, <3>1
  <2>7. QED
    BY <2>2, <2>3, <2>4, <2>5, <2>6 DEF c
<1>9. FourParts(w, open, body, tail, close)
  BY <1>7, <1>8 DEF FourParts
<1>10. QED
  BY <1>2, <1>3, <1>7, <1>9 DEF w, body, tail

LEMMA NothingListed ==
  ASSUME NEW pretty, NEW level
  PROVE  /\ Body(<<>>, pretty, level) = <<>>
         /\ LastLine(<<>>, pretty, level) = <<>>
<1>1. Lines(<<>>, pretty, level) = <<>>
  BY DEF Lines
<1>2. FlattenSeq(<<>>) = <<>>
  <2>1. Len(<<>>) = 0
    OBVIOUS
  <2>2. QED
    BY <2>1, Zenon DEF FlattenSeq
<1>3. LastLine(<<>>, pretty, level) = <<>>
  BY DEF LastLine
<1>4. QED
  BY <1>1, <1>2, <1>3, Zenon DEF Body

\* The entries of what is written are laid out as the loops read them.
LEMMA ListedLaid ==
  ASSUME NEW S, White \subseteq S, Comma \in S, NEW entries, entries \in Seq(Seq(S)),
         NEW pretty \in BOOLEAN, NEW level \in Nat, NEW open \in S, NEW close \in S,
         NEW w, w = Listed(open, entries, close, pretty, level),
         NEW m, m = Len(entries), m # 0,
         NEW t, t \in Seq(S), NEW p \in Nat, p >= 1, Agrees(t, p, w)
  PROVE  \E start, first, stop :
           Laid(t, p, m, start, first, stop, entries, close, p + Len(w) - 1)
<1> DEFINE body == Body(entries, pretty, level)
           tail == LastLine(entries, pretty, level)
           seqs == Lines(entries, pretty, level)
           c == p + Len(w) - 1
           l == Len(NewLine(pretty, level + 1))
<1>1. m \in Nat /\ m >= 1 /\ \A i \in 1..m : entries[i] \in Seq(S) /\ Len(entries[i]) \in Nat
  <2>1. m \in Nat /\ m >= 1 /\ \A i \in 1..m : entries[i] \in Seq(S)
    BY TextIs
  <2>2. QED
    BY <2>1, TextIs
<1>2. /\ Len(w) = Len(body) + Len(tail) + 2
      /\ tail \in Seq(White) /\ Len(body) \in Nat /\ Len(tail) \in Nat
      /\ Agrees(t, p + 1, body)
      /\ Agrees(t, p + 1 + Len(body), tail)
      /\ p + 1 + Len(body) + Len(tail) <= Len(t) =>
           t[p + 1 + Len(body) + Len(tail)] = close
  <2>1. /\ Len(w) = Len(body) + Len(tail) + 2
        /\ tail \in Seq(White) /\ Len(body) \in Nat /\ Len(tail) \in Nat
        /\ FourParts(w, open, body, tail, close)
    <3>1. /\ tail \in Seq(White) /\ body \in Seq(S)
          /\ FourParts(w, open, body, tail, close)
      BY ListedIs, ZenonT(40)
    <3>2. QED
      BY <3>1, TextIs DEF FourParts
  <2> HIDE DEF body, tail
  <2>2. QED
    BY <2>1 DEF FourParts
<1>3. /\ seqs \in Seq(Seq(S)) /\ Len(seqs) = m
      /\ \A i \in 1..m : seqs[i] = Line(i, entries[i], pretty, level + 1)
  <2>1. /\ seqs \in Seq(Seq(S)) /\ Len(seqs) = Len(entries)
        /\ \A i \in 1..Len(entries) : seqs[i] = Line(i, entries[i], pretty, level + 1)
    BY LinesAre, ZenonT(40)
  <2>2. QED
    BY <2>1
<1>4. /\ c = p + 1 + Len(body) + Len(tail) /\ c \in Nat /\ (c <= Len(t) => t[c] = close)
      /\ p + 1 \in Nat /\ p + 1 + Len(body) \in Nat
      /\ p + 1 + Len(body) + Len(tail) - 1 = c - 1
  <2> HIDE DEF body, tail
  <2>1. c = p + 1 + Len(body) + Len(tail) /\ c \in Nat
    BY <1>2
  <2> HIDE DEF c
  <2>2. QED
    BY <1>2, <2>1
<1>5. Blank(t, p + 1 + Len(body), c - 1)
  <2> DEFINE a == p + 1 + Len(body)
  <2>1. a \in Nat /\ Agrees(t, a, tail) /\ a + Len(tail) - 1 = c - 1
    BY <1>2, <1>4
  <2> HIDE DEF a, tail
  <2>2. Blank(t, a, a + Len(tail) - 1)
    BY <1>2, <2>1, AgreesBlank
  <2>3. QED
    BY <2>1, <2>2 DEF a
<1> HIDE DEF c, seqs
<1>6. PICK pos : Placed(pos, m, p + 1, seqs, t) /\ pos[m + 1] = p + 1 + Len(body)
  <2>1. p + 1 \in Nat /\ Agrees(t, p + 1, FlattenSeq(seqs)) /\ body = FlattenSeq(seqs)
    BY <1>2, <1>4 DEF seqs, Body
  <2> HIDE DEF body
  <2>2. \E pos : Placed(pos, Len(seqs), p + 1, seqs, t)
                 /\ pos[Len(seqs) + 1] = p + 1 + Len(FlattenSeq(seqs))
    BY <1>3, <2>1, FlattenedPlaces
  <2>3. QED
    BY <1>3, <2>1, <2>2
<1> HIDE DEF body, tail
<1>7. /\ pos \in [1..(m + 1) -> Nat] /\ pos[1] = p + 1
      /\ \A i \in 1..m : pos[i + 1] = pos[i] + Len(seqs[i]) /\ Agrees(t, pos[i], seqs[i])
      /\ \A i \in 1..(m + 1) : p + 1 <= pos[i] /\ pos[i] <= pos[m + 1]
  BY <1>6 DEF Placed
<1> DEFINE A(i) == pos[i] + Before(i)
           B(i) == pos[i] + Before(i) + l
           start == [i \in 1..m |-> A(i)]
           first == [i \in 1..m |-> B(i)]
           stop == [i \in 1..m |-> pos[i + 1]]
<1>8. l \in Nat
  <2>1. level + 1 \in Nat
    OBVIOUS
  <2>2. QED
    BY <2>1, NewLineBlank, TextIs
<1> HIDE DEF l
<1>9. ASSUME NEW i \in 1..m
      PROVE  /\ Before(i) \in {0, 1} /\ (i > 1 => Before(i) = 1) /\ (i = 1 => Before(i) = 0)
             /\ pos[i + 1] = B(i) + Len(entries[i])
             /\ i > 1 /\ pos[i] <= Len(t) => t[pos[i]] = Comma
             /\ Blank(t, A(i), B(i) - 1)
             /\ Agrees(t, B(i), entries[i])
  <2> DEFINE entry == entries[i]
             a == pos[i]
             k == Before(i)
             line == Line(i, entry, pretty, level + 1)
  <2>1. /\ i \in Nat /\ entry \in Seq(S) /\ level + 1 \in Nat /\ a \in Nat
        /\ k = Before(i)
    <3>1. i \in 1..(m + 1) /\ i \in Nat
      BY <1>1
    <3>2. a \in Nat
      BY ONLY <1>7, <3>1
    <3>3. entry \in Seq(S) /\ level + 1 \in Nat
      BY ONLY <1>1, i \in 1..m, level \in Nat
    <3> HIDE DEF a, entry
    <3>4. QED
      BY <3>1, <3>2, <3>3
  <2>2. Agrees(t, a, line) /\ pos[i + 1] = a + Len(line)
    BY <1>3, <1>7
  <2> HIDE DEF entry, a, k
  <2>3. Len(line) = k + l + Len(entry) /\ LineLaid(line, i, k, l, entry)
    <3>1. l = Len(NewLine(pretty, level + 1))
      BY DEF l
    <3> DEFINE level1 == level + 1
    <3>2. level1 \in Nat /\ l = Len(NewLine(pretty, level1))
          /\ line = Line(i, entry, pretty, level1)
      BY <2>1, <3>1
    <3> HIDE DEF line, level1
    <3>3. QED
      BY ONLY <2>1, <3>2, LineIs, White \subseteq S, Comma \in S, pretty \in BOOLEAN
  <2> HIDE DEF line
  <2>4. /\ i > 1 /\ a <= Len(t) => t[a] = Comma
        /\ Blank(t, a + k, a + k + l - 1)
        /\ Agrees(t, a + k + l, entry)
    BY <2>1, <2>2, <2>3 DEF LineLaid
  <2>5. pos[i + 1] = a + k + l + Len(entry)
    <3>1. Len(entry) \in Nat
      BY <2>1, TextIs
    <3>2. k \in Nat
      BY <2>1 DEF Before
    <3>3. a + Len(line) = a + k + l + Len(entry)
      BY ONLY <1>8, <2>1, <2>3, <3>1, <3>2
    <3>4. QED
      BY <2>2, <3>3
  <2>6. k \in {0, 1} /\ (i > 1 => k = 1) /\ (i = 1 => k = 0)
    BY <2>1 DEF Before
  <2>7. B(i) = a + k + l /\ A(i) = a + k /\ B(i) - 1 = a + k + l - 1
    <3>1. B(i) = a + k + l /\ A(i) = a + k
      BY DEF a, k
    <3>2. a \in Nat /\ k \in Nat /\ l \in Nat
      BY <1>8, <2>1 DEF Before
    <3> HIDE DEF A
    <3>3. (a + k + l) - 1 = a + k + l - 1
      BY ONLY <3>2
    <3>4. QED
      BY <3>1, <3>3 DEF a, k
  <2> HIDE DEF A, B
  <2>8. Before(i) \in {0, 1} /\ (i > 1 => Before(i) = 1) /\ (i = 1 => Before(i) = 0)
    BY <2>6 DEF k
  <2>9. pos[i + 1] = B(i) + Len(entries[i]) /\ (i > 1 /\ pos[i] <= Len(t) => t[pos[i]] = Comma)
    BY <2>4, <2>5, <2>7 DEF a, entry
  <2>10. Blank(t, A(i), B(i) - 1) /\ Agrees(t, B(i), entries[i])
    <3>1. Agrees(t, B(i), entry)
      BY <2>4, <2>7
    <3>2. Blank(t, A(i), B(i) - 1)
      BY <2>4, <2>7, Zenon
    <3>3. QED
      BY <3>1, <3>2 DEF entry
  <2>11. QED
    BY <2>8, <2>9, <2>10
<1>10. ASSUME NEW i \in 1..m PROVE A(i) = pos[i] + Before(i) /\ B(i) = pos[i] + Before(i) + l
  OBVIOUS
<1> HIDE DEF A, B
<1>11. ASSUME NEW i \in 1..m
       PROVE  /\ i \in 1..(m + 1) /\ i + 1 \in 1..(m + 1) /\ pos[i] \in Nat /\ pos[i + 1] \in Nat
              /\ Len(entries[i]) \in Nat /\ Before(i) \in Nat /\ pos[i] >= 1 /\ pos[i + 1] <= c
              /\ start[i] = A(i) /\ first[i] = B(i) /\ stop[i] = pos[i + 1]
  <2>1. i \in 1..(m + 1) /\ i + 1 \in 1..(m + 1) /\ m + 1 \in 1..(m + 1)
    BY <1>1
  <2>2. pos[i] \in Nat /\ pos[i + 1] \in Nat /\ p + 1 <= pos[i] /\ pos[i + 1] <= pos[m + 1]
        /\ pos[m + 1] \in Nat
    BY <1>7, <2>1
  <2>3. pos[m + 1] <= c
    BY <1>2, <1>4, <1>6, <2>2
  <2>4. Before(i) \in Nat /\ Len(entries[i]) \in Nat
    BY <1>1, <1>9
  <2>5. pos[i] >= 1 /\ pos[i + 1] <= c
    <3> DEFINE a == pos[i]
               b == pos[i + 1]
               d == pos[m + 1]
    <3>1. a \in Nat /\ b \in Nat /\ d \in Nat /\ c \in Nat /\ p + 1 <= a /\ b <= d /\ d <= c
      BY <1>4, <2>2, <2>3
    <3> HIDE DEF a, b, d
    <3>2. a >= 1 /\ b <= c
      BY ONLY <3>1, p \in Nat
    <3>3. QED
      BY <3>2 DEF a, b
  <2>6. QED
    BY <2>1, <2>2, <2>4, <2>5
<1>12. /\ start \in [1..m -> Nat] /\ first \in [1..m -> Nat] /\ stop \in [1..m -> Nat]
  <2>1. \A i \in 1..m : A(i) \in Nat /\ B(i) \in Nat /\ pos[i + 1] \in Nat
    <3>1. ASSUME NEW i \in 1..m
          PROVE  A(i) \in Nat /\ B(i) \in Nat /\ pos[i + 1] \in Nat
      <4>1. /\ pos[i] \in Nat /\ Before(i) \in Nat /\ pos[i + 1] \in Nat
            /\ A(i) = pos[i] + Before(i) /\ B(i) = pos[i] + Before(i) + l
        BY <1>11, <1>10
      <4>2. QED
        BY ONLY <1>8, <4>1
    <3>2. QED
      BY <3>1
  <2>2. QED
    BY <2>1
<1> HIDE DEF start, first, stop
<1>13. start[1] = p + 1
  <2>1. 1 \in 1..m
    BY <1>1
  <2>2. start[1] = pos[1] + Before(1) /\ Before(1) = 0
    BY <1>9, <1>11, <1>10, <2>1
  <2>3. QED
    BY <1>7, <2>2
<1>14. ASSUME NEW i \in 1..m
       PROVE  /\ start[i] >= 1 /\ start[i] <= first[i] /\ first[i] <= stop[i]
              /\ stop[i] <= c /\ stop[i] = first[i] + Len(entries[i])
              /\ Blank(t, start[i], first[i] - 1)
              /\ Agrees(t, first[i], entries[i])
  <2>1. start[i] \in Nat /\ first[i] \in Nat /\ stop[i] \in Nat
    BY <1>12
  <2>2. /\ start[i] = pos[i] + Before(i) /\ first[i] = start[i] + l
        /\ stop[i] = first[i] + Len(entries[i]) /\ stop[i] <= c
    BY <1>9, <1>11, <1>10
  <2>3. Blank(t, start[i], first[i] - 1) /\ Agrees(t, first[i], entries[i])
    BY <1>9, <1>11
  <2>4. start[i] >= 1 /\ start[i] <= first[i] /\ first[i] <= stop[i]
    <3> DEFINE a == start[i]
               b == first[i]
               d == stop[i]
               e == Len(entries[i])
               x == pos[i]
               y == Before(i)
    <3>1. /\ a \in Nat /\ b \in Nat /\ d \in Nat /\ e \in Nat /\ x \in Nat /\ y \in Nat
          /\ x >= 1 /\ a = x + y /\ b = a + l /\ d = b + e /\ l \in Nat
      BY <1>8, <1>11, <2>1, <2>2
    <3> HIDE DEF a, b, d, e, x, y
    <3>2. a >= 1 /\ a <= b /\ b <= d
      BY ONLY <3>1
    <3>3. QED
      BY <3>2 DEF a, b, d
  <2>5. QED
    BY <2>2, <2>3, <2>4
<1>15. ASSUME NEW i \in 1..(m - 1)
       PROVE  start[i + 1] = stop[i] + 1 /\ (stop[i] <= Len(t) => t[stop[i]] = Comma)
  <2> DEFINE j == i + 1
  <2>1. i \in 1..m /\ j \in 1..m /\ j > 1
    BY <1>1
  <2>2. stop[i] = pos[j]
    BY <1>11, <2>1
  <2> HIDE DEF j
  <2>3. start[j] = pos[j] + Before(j) /\ Before(j) = 1
        /\ (pos[j] <= Len(t) => t[pos[j]] = Comma)
    BY <1>9, <1>11, <1>10, <2>1
  <2>4. QED
    BY <2>2, <2>3 DEF j
<1>16. Blank(t, stop[m], c - 1)
  <2>1. m \in 1..m
    BY <1>1
  <2>2. stop[m] = pos[m + 1]
    BY <1>11, <2>1
  <2>3. QED
    BY <1>5, <1>6, <2>2
<1>17. Laid(t, p, m, start, first, stop, entries, close, c)
  BY <1>4, <1>12, <1>13, <1>14, <1>15, <1>16 DEF Laid
<1>18. QED
  BY <1>17 DEF c

-----------------------------------------------------------------------------
(* Values that are read where they are written.                            *)

\* What should be read of a value that stands from p to before e: it, unless a string in it
\* has escapes, with the position behind it.  When it is cut short it is refused, or it is
\* a number and read as far as it goes.
ValueFine(t, p, e, x, plain) ==
  LET r == Parsed(t)[<<"value", p>>]
  IN  /\ e <= Len(t) + 1 /\ (e <= Len(t) => t[e] \notin Digits) =>
           r.next = e /\ (plain => r.value = x)
      /\ e > Len(t) + 1 => r.next \in {0, Len(t) + 1}

\* The writing w of x is read so wherever it stands.
ReadBack(S, w, x, plain) ==
  /\ w \in Seq(S) /\ Len(w) >= 1 /\ Starts(w[1])
  /\ \A t \in Seq(S) : \A p \in 1..(Len(t) + 1) :
       Agrees(t, p, w) => ValueFine(t, p, p + Len(w), x, plain)

\* An item of an array.
LEMMA ItemFine ==
  ASSUME NEW t, NEW p \in Nat, NEW e \in Nat, p < e, Len(t) \in Nat, NEW x, NEW plain,
         ValueFine(t, p, e, x, plain)
  PROVE  EntryFine(t, "items", p, p, e, Array(<<x>>), plain)
<1> DEFINE r == Parsed(t)[<<"value", p>>]
           n == Len(t)
           b == EntryAt(t, "items", p)
<1>1. /\ e <= n + 1 /\ (e <= n => t[e] \notin Digits) => r.next = e /\ (plain => r.value = x)
      /\ e > n + 1 => r.next \in {0, n + 1}
  BY DEF ValueFine
<1>2. b = IF Ok(r) THEN Read(Array(<<r.value>>), r.next) ELSE Failed
  BY DEF EntryAt, ItemAt
<1>3. b.next = r.next /\ (Ok(r) => b.value = Array(<<r.value>>)) /\ (Ok(r) <=> r.next # 0)
  BY <1>2, ReadOf, FailedIs DEF Ok
<1> HIDE DEF r, b
<1>4. /\ e <= n + 1 /\ (e <= n => t[e] \notin Digits) =>
           b.next = e /\ (plain => b.value = Array(<<x>>))
      /\ e > n + 1 => b.next \in {0, n + 1}
  <2>1. e # 0
    OBVIOUS
  <2>2. QED
    BY <1>1, <1>3, <2>1
<1>5. QED
  BY <1>4 DEF EntryFine, b

LEMMA ColonIs ==
  ASSUME NEW S, White \subseteq S, Between \in S, NEW pretty \in BOOLEAN
  PROVE  /\ Colon(pretty) \in Seq(S) /\ Len(Colon(pretty)) \in {1, 2}
         /\ Colon(pretty)[1] = Between
         /\ Len(Colon(pretty)) = 2 => Colon(pretty)[2] \in White
<1>1. Space \in White /\ Space \in S
  BY Zenon DEF White
<1>2. Colon(pretty) = IF pretty THEN <<Between, Space>> ELSE <<Between>>
  BY Zenon DEF Colon, Between
<1> DEFINE a == <<Between, Space>>
           b == <<Between>>
<1>3. /\ a \in Seq(S) /\ Len(a) = 2 /\ a[1] = Between /\ a[2] = Space
      /\ b \in Seq(S) /\ Len(b) = 1 /\ b[1] = Between
  BY <1>1
<1> HIDE DEF a, b
<1>4. Colon(pretty) = a \/ Colon(pretty) = b
  BY <1>2 DEF a, b
<1>5. QED
  BY <1>1, <1>3, <1>4

\* A key and its value, as they are written.
MemberText(key, pretty, w) == Quoted(key) \o Colon(pretty) \o w

MemberLaid(z, key, pretty, w) ==
  LET k == Len(Quoted(key))
      l == Len(Colon(pretty))
  IN  /\ Len(z) = k + l + Len(w) /\ k \in Nat /\ k >= 2 /\ l \in {1, 2} /\ z[1] = Quote
      /\ \A t : \A p \in Nat : Agrees(t, p, z) => /\ Agrees(t, p, Quoted(key))
                                               /\ Agrees(t, p + k, Colon(pretty))
                                               /\ Agrees(t, p + k + l, w)

LEMMA MemberIs ==
  ASSUME NEW S, Marks \subseteq S, White \subseteq S, Between \in S, NEW key \in Seq(S),
         NEW pretty \in BOOLEAN, NEW w \in Seq(S)
  PROVE  /\ MemberText(key, pretty, w) \in Seq(S)
         /\ MemberLaid(MemberText(key, pretty, w), key, pretty, w)
<1> DEFINE z == MemberText(key, pretty, w)
           k == Len(Quoted(key))
           l == Len(Colon(pretty))
           x == Quoted(key)
           y == Colon(pretty)
           u == x \o y
<1>1. x \in Seq(S) /\ Len(x) = k /\ k \in Nat /\ k >= 2 /\ x[1] = Quote
  <2>1. Len(Escaped(key)) \in Nat
    BY EscapedIs, TextIs
  <2>2. QED
    BY <2>1, QuotedIs
<1>2. y \in Seq(S) /\ Len(y) = l /\ l \in {1, 2}
  BY ColonIs
<1>3. z = u \o w
  BY Zenon DEF MemberText
<1> HIDE DEF x, y, z, k, l
<1>4. u \in Seq(S) /\ Len(u) = k + l /\ u[1] = Quote
  <2>1. /\ x \o y \in Seq(S) /\ Len(x \o y) = Len(x) + Len(y)
        /\ \A i \in 1..(Len(x) + Len(y)) : (x \o y)[i] = IF i <= Len(x) THEN x[i] ELSE y[i - Len(x)]
    BY <1>1, <1>2, JoinedTexts
  <2> HIDE DEF u
  <2>2. 1 \in 1..(Len(x) + Len(y)) /\ 1 <= Len(x)
    BY <1>1, <1>2
  <2>3. QED
    BY <1>1, <1>2, <2>1, <2>2 DEF u
<1> HIDE DEF u
<1>5. z \in Seq(S) /\ Len(z) = k + l + Len(w) /\ z[1] = Quote
  <2>1. /\ u \o w \in Seq(S) /\ Len(u \o w) = Len(u) + Len(w)
        /\ \A i \in 1..(Len(u) + Len(w)) : (u \o w)[i] = IF i <= Len(u) THEN u[i] ELSE w[i - Len(u)]
    <3>1. u \in Seq(S) /\ w \in Seq(S)
      BY <1>4
    <3>2. QED
      BY ONLY <3>1, JoinedTexts
  <2>2. 1 \in 1..(Len(u) + Len(w)) /\ 1 <= Len(u)
    BY <1>1, <1>2, <1>4, TextIs
  <2>3. QED
    BY <1>3, <1>4, <2>1, <2>2
<1>6. ASSUME NEW t, NEW p \in Nat, Agrees(t, p, z)
      PROVE  Agrees(t, p, x) /\ Agrees(t, p + k, y) /\ Agrees(t, p + k + l, w)
  <2>1. Agrees(t, p, u) /\ Agrees(t, p + Len(u), w)
    <3>1. u \in Seq(S) /\ w \in Seq(S) /\ Agrees(t, p, u \o w)
      BY <1>3, <1>4, <1>6
    <3>2. QED
      BY ONLY <3>1, AgreesCat, p \in Nat
  <2>2. Agrees(t, p, x) /\ Agrees(t, p + Len(x), y)
    <3>1. x \in Seq(S) /\ y \in Seq(S) /\ Agrees(t, p, x \o y)
      BY <1>1, <1>2, <2>1 DEF u
    <3>2. QED
      BY ONLY <3>1, AgreesCat, p \in Nat
  <2>3. p + Len(u) = p + k + l /\ p + Len(x) = p + k
    <3>1. k \in Nat /\ l \in Nat /\ Len(u) = k + l /\ Len(x) = k
      BY <1>1, <1>2, <1>4
    <3>2. QED
      BY ONLY <3>1, p \in Nat
  <2>4. QED
    BY <2>1, <2>2, <2>3
<1>7. QED
  BY <1>1, <1>2, <1>5, <1>6 DEF x, y, z, k, l, MemberLaid

\* A key and its value in an object.
LEMMA MemberFine ==
  ASSUME NEW S, Marks \subseteq S, White \subseteq S, Between \in S, NEW key \in Seq(S),
         NEW pretty \in BOOLEAN, NEW w, NEW x, NEW inner, ReadBack(S, w, x, inner),
         NEW plain, plain => inner /\ Plain(key),
         NEW t \in Seq(S), NEW p \in Nat, p >= 1, NEW z, z = MemberText(key, pretty, w),
         Agrees(t, p, z)
  PROVE  EntryFine(t, "members", p, p, p + Len(z), Object(<<key>>, <<x>>), plain)
<1> DEFINE n == Len(t)
           k == Len(Quoted(key))
           l == Len(Colon(pretty))
           o == Len(w)
           q == p + k
           b == q + l
           e == p + Len(z)
           r == EntryAt(t, "members", p)
           string == ParseString(t, p)
           item == Parsed(t)[<<"value", After(t, string.next)>>]
<1>1. /\ w \in Seq(S) /\ o \in Nat /\ o >= 1 /\ n \in Nat
      /\ \A a \in 1..(n + 1) : Agrees(t, a, w) => ValueFine(t, a, a + o, x, inner)
  BY TextIs DEF ReadBack
<1>2. /\ k \in Nat /\ k >= 2 /\ l \in {1, 2} /\ Len(z) = k + l + o
      /\ Agrees(t, p, Quoted(key)) /\ Agrees(t, p + k, Colon(pretty)) /\ Agrees(t, p + k + l, w)
  <2>1. w \in Seq(S)
    BY <1>1
  <2>2. MemberLaid(z, key, pretty, w)
    BY <2>1, MemberIs
  <2>3. QED
    BY <2>2 DEF MemberLaid
<1>3. q \in Nat /\ b \in Nat /\ e = b + o /\ e \in Nat /\ p < q /\ q < b /\ b < e
  <2> HIDE DEF k, l, o
  <2>1. QED
    BY <1>1, <1>2
<1>4. r = IF Ok(string) /\ Peek(t, string.next) = Between /\ Ok(item)
          THEN Read(Object(<<string.value.text>>, <<item.value>>), item.next) ELSE Failed
  <2>1. "members" # "items"
    OBVIOUS
  <2>2. QED
    BY <2>1, Zenon DEF EntryAt, MemberAt
<1>5. ASSUME p <= n + 1
      PROVE  /\ q <= n + 1 => string.next = q /\ (Plain(key) => string.value = Text(key))
             /\ q > n + 1 => string.next = 0
  <2>1. p \in 1..(Len(t) + 1) /\ q = p + Len(Quoted(key))
    BY <1>1, <1>5
  <2> HIDE DEF q
  <2>2. QED
    BY ONLY <1>2, <2>1, StringRead, Marks \subseteq S, key \in Seq(S), t \in Seq(S)
<1>6. Text(key).text = key
  BY DEF Text, Value
<1>7. ASSUME q <= n PROVE t[q] = Between
  <2>1. Colon(pretty)[1] = Between /\ 1 \in 1..Len(Colon(pretty))
    BY <1>2, ColonIs
  <2>2. q + 1 - 1 = q
    BY <1>3
  <2>3. Agrees(t, q, Colon(pretty))
    BY <1>2
  <2> HIDE DEF q
  <2>4. q + 1 - 1 <= Len(t) => t[q + 1 - 1] = Colon(pretty)[1]
    BY <2>1, <2>3 DEF Agrees
  <2>5. QED
    BY <1>7, <2>1, <2>2, <2>4
<1>8. ASSUME l = 2, q + 1 <= n PROVE t[q + 1] \in White
  <2>1. Colon(pretty)[2] \in White /\ 2 \in 1..Len(Colon(pretty))
    BY <1>2, <1>8, ColonIs
  <2>2. q + 2 - 1 = q + 1
    BY <1>3
  <2>3. Agrees(t, q, Colon(pretty))
    BY <1>2
  <2> HIDE DEF q
  <2>4. q + 2 - 1 <= Len(t) => t[q + 2 - 1] = Colon(pretty)[2]
    BY <2>1, <2>3 DEF Agrees
  <2>5. QED
    BY <1>8, <2>1, <2>2, <2>4
<1>9. Between # TheEnd /\ Between \notin White
  BY SymbolsDiffer, MarkersDiffer
<1>10. Agrees(t, b, w)
  BY <1>2
<1> HIDE DEF r, string, item, q, b, e, k, l, o
<1>11. ASSUME p <= n + 1, q > n PROVE r.next = 0 /\ e > n + 1
  <2>1. CASE q > n + 1
    <3>1. ~Ok(string)
      BY <1>5, <1>11, <2>1 DEF Ok
    <3>2. r = Failed
      BY <1>4, <3>1, Zenon
    <3>3. QED
      BY <1>1, <1>3, <2>1, <3>2, FailedIs
  <2>2. CASE q = n + 1
    <3>1. Peek(t, q) = TheEnd
      <4>1. q \in 1..(Len(t) + 1) /\ \A i \in q..Len(t) : t[i] \in White
        BY <1>1, <1>3, <2>2
      <4>2. QED
        BY <4>1, SkipToEnd DEF TheEnd
    <3>2. string.next = q
      BY <1>1, <1>3, <1>5, <1>11, <2>2
    <3>3. r = Failed
      BY <1>4, <1>9, <3>1, <3>2, Zenon
    <3>4. QED
      <4>1. r.next = 0
        BY <3>3, FailedIs
      <4>2. e > n + 1
        BY <1>1, <1>3, <2>2
      <4>3. QED
        BY <4>1, <4>2
  <2>3. q > n + 1 \/ q = n + 1
    BY <1>1, <1>3, <1>11
  <2>4. QED
    BY <2>1, <2>2, <2>3
<1>12. ASSUME p <= n + 1, q <= n
       PROVE  /\ r = IF Ok(item)
                     THEN Read(Object(<<string.value.text>>, <<item.value>>), item.next)
                     ELSE Failed
              /\ Plain(key) => string.value.text = key
              /\ b <= n + 1 => item = Parsed(t)[<<"value", b>>]
              /\ b > n + 1 => item.next = 0
  <2>1. string.next = q /\ (Plain(key) => string.value = Text(key)) /\ q <= n + 1
    BY <1>1, <1>3, <1>5, <1>12
  <2>2. Peek(t, q) = Between /\ After(t, q) = q + 1
    <3>1. /\ q \in 1..(Len(t) + 1) /\ q \in q..Len(t) /\ t[q] \notin White
          /\ \A i \in q..(q - 1) : t[i] \in White
      BY <1>1, <1>3, <1>7, <1>9, <1>12
    <3>2. Peek(t, q) = t[q] /\ After(t, q) = q + 1
      BY ONLY <3>1, SkipTo, t \in Seq(S)
    <3>3. QED
      BY <1>7, <1>12, <3>2
  <2>3. Ok(string)
    BY <1>3, <2>1 DEF Ok
  <2>4. item = Parsed(t)[<<"value", q + 1>>]
    BY <2>1, <2>2 DEF item
  <2>5. ASSUME b <= n + 1 PROVE item = Parsed(t)[<<"value", b>>]
    <3>1. b = q + 1 \/ (b = q + 2 /\ l = 2)
      BY <1>2, <1>3 DEF b
    <3>2. /\ q + 1 \in 1..(Len(t) + 1) /\ b \in (q + 1)..(Len(t) + 1)
          /\ \A i \in (q + 1)..(b - 1) : t[i] \in White
      <4>1. q + 1 \in 1..(Len(t) + 1) /\ b \in (q + 1)..(Len(t) + 1)
        BY <1>1, <1>3, <1>12, <2>5
      <4>2. ASSUME NEW i \in (q + 1)..(b - 1) PROVE t[i] \in White
        <5>1. i = q + 1 /\ l = 2 /\ q + 1 <= n
          BY <1>1, <1>3, <2>5, <3>1
        <5>2. QED
          BY <1>8, <5>1
      <4>3. QED
        BY <4>1, <4>2
    <3> DEFINE a == q + 1
    <3>3. /\ a \in 1..(Len(t) + 1) /\ b \in a..(Len(t) + 1)
          /\ \A i \in a..(b - 1) : t[i] \in White
      BY <3>2
    <3>4. item = Parsed(t)[<<"value", a>>]
      BY <2>4
    <3> HIDE DEF a
    <3>5. Parsed(t)[<<"value", a>>] = Parsed(t)[<<"value", b>>]
      BY ONLY <3>3, ValueSkips, t \in Seq(S)
    <3>6. QED
      BY <3>4, <3>5
  <2>6. ASSUME b > n + 1 PROVE item.next = 0
    <3>1. q + 1 = Len(t) + 1
      <4>1. b = q + l /\ l \in {1, 2} /\ n \in Nat /\ q \in Nat /\ q <= n /\ b > n + 1
        BY <1>1, <1>2, <1>3, <1>12, <2>6 DEF b
      <4> HIDE DEF n
      <4>2. q + 1 = n + 1
        BY ONLY <4>1
      <4>3. QED
        BY <4>2 DEF n
    <3>2. QED
      BY <2>4, <3>1, EndFails, KindsAre
  <2>7. r = IF Ok(item)
            THEN Read(Object(<<string.value.text>>, <<item.value>>), item.next) ELSE Failed
    BY <1>4, <2>1, <2>2, <2>3, Zenon
  <2>8. QED
    BY <1>6, <2>1, <2>5, <2>6, <2>7
<1>13. ASSUME p <= n + 1, q <= n
       PROVE  /\ e <= n + 1 /\ (e <= n => t[e] \notin Digits) =>
                   r.next = e /\ (plain => r.value = Object(<<key>>, <<x>>))
              /\ e > n + 1 => r.next \in {0, n + 1}
  <2>1. /\ r.next = item.next
        /\ Ok(item) => r.value = Object(<<string.value.text>>, <<item.value>>)
        /\ Ok(item) <=> item.next # 0
    BY <1>12, <1>13, ReadOf, FailedIs DEF Ok
  <2>2. CASE b > n + 1
    <3>1. item.next = 0 /\ e > n + 1
      BY <1>1, <1>3, <1>12, <1>13, <2>2
    <3>2. QED
      BY <1>1, <1>3, <2>1, <3>1
  <2>3. CASE b <= n + 1
    <3>1. item = Parsed(t)[<<"value", b>>] /\ b \in 1..(n + 1) /\ e = b + o
      BY <1>1, <1>3, <1>12, <1>13, <2>3
    <3>2. ValueFine(t, b, b + o, x, inner)
      BY <1>1, <1>10, <3>1
    <3>3. /\ e <= n + 1 /\ (e <= n => t[e] \notin Digits) =>
               item.next = e /\ (inner => item.value = x)
          /\ e > n + 1 => item.next \in {0, n + 1}
      BY <3>1, <3>2 DEF ValueFine
    <3>4. Plain(key) => string.value.text = key
      BY <1>12, <1>13
    <3>5. e # 0
      BY <1>3
    <3>6. QED
      BY <2>1, <3>3, <3>4, <3>5
  <2>4. QED
    BY <1>1, <1>3, <2>2, <2>3
<1>14. p <= n + 1 =>
         /\ e <= n + 1 /\ (e <= n => t[e] \notin Digits) =>
              r.next = e /\ (plain => r.value = Object(<<key>>, <<x>>))
         /\ e > n + 1 => r.next \in {0, n + 1}
  <2>1. q <= n \/ q > n
    BY <1>1, <1>3
  <2>2. ~(e <= n + 1 /\ e > n + 1)
    BY <1>1, <1>3
  <2>3. QED
    BY <1>11, <1>13, <2>1, <2>2
<1>15. QED
  BY <1>14 DEF EntryFine, r, e

\* What reading an array or object from p should give: it, with the position behind it, or
\* nothing when it is cut short.
ListFine(t, p, e, v, plain) ==
  LET r == Parsed(t)[<<"value", p>>]
  IN  /\ e <= Len(t) + 1 => r.next = e /\ (plain => r.value = v)
      /\ e > Len(t) + 1 => r.next = 0

OpenOf(kind)  == IF kind = "items" THEN OpenArray ELSE OpenObject
EmptyOf(kind) == IF kind = "items" THEN Array(<<>>) ELSE Object(<<>>, <<>>)

\* parse_value at the bracket of an array or object.
LEMMA OpenRule ==
  ASSUME NEW S, NEW t \in Seq(S), NEW p \in 1..Len(t), NEW kind \in Loops, t[p] = OpenOf(kind)
  PROVE  Parsed(t)[<<"value", p>>] =
           Inside(t, p + 1, CloseOf(kind), EmptyOf(kind), kind, Parsed(t))
<1>1. p \in 1..(Len(t) + 1) /\ p \in p..Len(t) /\ \A i \in p..(p - 1) : t[i] \in White
  BY TextIs
<1>2. OpenOf(kind) \in Marker
  BY MarkersDiffer DEF OpenOf
<1>3. t[p] \notin White
  BY <1>2, SymbolsDiffer
<1>4. Skip(t, p) = p /\ Peek(t, p) = OpenOf(kind)
  BY <1>1, <1>3, SkipTo
<1>5. Parsed(t)[<<"value", p>>] = ParseValue(t, p, Parsed(t))
  BY <1>1, PartsAre
<1>6. CASE kind = "items"
  <2>1. OpenOf(kind) = OpenArray /\ CloseOf(kind) = CloseArray /\ EmptyOf(kind) = Array(<<>>)
    BY <1>6 DEF OpenOf, CloseOf, EmptyOf
  <2>2. Peek(t, p) = OpenArray =>
          ParseValue(t, p, Parsed(t)) =
            Inside(t, Skip(t, p) + 1, CloseArray, Array(<<>>), "items", Parsed(t))
    BY ValueRules
  <2>3. QED
    BY ONLY <1>4, <1>5, <1>6, <2>1, <2>2, Zenon
<1>7. CASE kind = "members"
  <2>1. /\ OpenOf(kind) = OpenObject /\ CloseOf(kind) = CloseObject
        /\ EmptyOf(kind) = Object(<<>>, <<>>)
    BY <1>7 DEF OpenOf, CloseOf, EmptyOf
  <2>2. Peek(t, p) = OpenObject =>
          ParseValue(t, p, Parsed(t)) =
            Inside(t, Skip(t, p) + 1, CloseObject, Object(<<>>, <<>>), "members", Parsed(t))
    BY ValueRules
  <2>3. QED
    BY ONLY <1>4, <1>5, <1>7, <2>1, <2>2, Zenon
<1>8. QED
  BY <1>6, <1>7 DEF Loops

\* An entry that is read well, wherever it stands.
EntryBack(S, kind, w, x, plain) ==
  /\ w \in Seq(S) /\ Len(w) >= 1 /\ Starts(w[1])
  /\ \A t \in Seq(S) : \A a \in Nat :
       a >= 1 /\ Agrees(t, a, w) => EntryFine(t, kind, a, a, a + Len(w), x, plain)

\* An array or object without entries.
LEMMA EmptyFine ==
  ASSUME NEW S, White \subseteq S, Comma \in S, Marker \subseteq S, NEW kind \in Loops,
         NEW pretty \in BOOLEAN, NEW level \in Nat,
         NEW entries, entries = <<>>,
         NEW w, w = Listed(OpenOf(kind), entries, CloseOf(kind), pretty, level),
         NEW t \in Seq(S), NEW p \in 1..Len(t), Agrees(t, p, w), NEW plain
  PROVE  ListFine(t, p, p + Len(w), EmptyOf(kind), plain)
<1> DEFINE body == Body(entries, pretty, level)
           tail == LastLine(entries, pretty, level)
           e == p + Len(w)
           close == CloseOf(kind)
           open == OpenOf(kind)
           n == Len(t)
           r == Parsed(t)[<<"value", p>>]
<1>1. close \in S /\ open \in S /\ open \in Marker /\ close # TheEnd
  BY LoopsAre, MarkersDiffer DEF OpenOf
<1>2. body = <<>> /\ tail = <<>> /\ Len(<<>>) = 0
  BY NothingListed
<1>3. /\ Len(w) = Len(body) + Len(tail) + 2
      /\ p <= n => t[p] = open
      /\ p + 1 + Len(body) + Len(tail) <= n => t[p + 1 + Len(body) + Len(tail)] = close
  <2>1. p \in Nat /\ entries \in Seq(Seq(S))
    BY TextIs
  <2>2. /\ Len(w) = Len(body) + Len(tail) + 2
        /\ FourParts(w, open, body, tail, close)
    <3>1. FourParts(w, open, body, tail, close)
      BY <1>1, <2>1, ListedIs, Zenon
    <3>2. QED
      BY <3>1 DEF FourParts
  <2> HIDE DEF body, tail, open, close
  <2>3. QED
    BY <2>1, <2>2 DEF FourParts
<1>4. e = p + 2 /\ t[p] = open /\ (p + 1 <= n => t[p + 1] = close) /\ n \in Nat /\ p \in 1..n
  <2>1. n \in Nat /\ p \in Nat /\ p <= n
    BY TextIs
  <2>2. Len(body) = 0 /\ Len(tail) = 0
    BY <1>2
  <2> HIDE DEF body, tail, open, close
  <2>3. Len(w) = 2 /\ p + 1 + Len(body) + Len(tail) = p + 1
    BY <1>3, <2>1, <2>2
  <2>4. QED
    BY <1>3, <2>1, <2>3
<1>5. r = Inside(t, p + 1, close, EmptyOf(kind), kind, Parsed(t))
  BY <1>4, OpenRule
<1> HIDE DEF r, e
<1>6. CASE p + 1 <= n
  <2> DEFINE q == p + 1
  <2>1. q \in 1..(Len(t) + 1) /\ q \in q..Len(t) /\ \A i \in q..(q - 1) : t[i] \in White
    BY <1>4, <1>6
  <2>2. t[q] = close
    BY <1>4, <1>6
  <2>3. t[q] \notin White
    BY <2>2, LoopsAre
  <2> HIDE DEF q
  <2>4. Peek(t, q) = close /\ After(t, q) = q + 1
    BY <2>1, <2>2, <2>3, SkipTo
  <2>5. r = Read(EmptyOf(kind), q + 1)
    BY <1>5, <2>4 DEF Inside, q
  <2>6. r.next = p + 2 /\ r.value = EmptyOf(kind)
    BY <2>5, ReadOf DEF q
  <2>7. e = p + 2 /\ e <= n + 1 /\ ~(e > n + 1)
    BY <1>4, <1>6
  <2>8. QED
    BY <1>4, <2>6, <2>7 DEF ListFine, r, e
<1>7. CASE p + 1 > n
  <2> DEFINE q == Len(t) + 1
  <2>1. p + 1 = q /\ q \in 1..(Len(t) + 1) /\ \A i \in q..Len(t) : t[i] \in White
    BY <1>4, <1>7
  <2>2. Peek(t, q) # close
    BY <1>1, <2>1, SkipToEnd DEF TheEnd
  <2>3. Parsed(t)[<<kind, q>>].next = 0
    BY EndFails, LoopsAre
  <2> HIDE DEF q
  <2>4. r = Parsed(t)[<<kind, q>>]
    BY <1>5, <2>1, <2>2 DEF Inside
  <2>5. r.next = 0
    BY <2>3, <2>4
  <2>6. e > n + 1 /\ ~(e <= n + 1)
    BY <1>4, <1>7
  <2>7. QED
    BY <1>4, <2>5, <2>6 DEF ListFine, r, e
<1>8. QED
  BY <1>4, <1>6, <1>7

\* An array or object with entries.
LEMMA ListedFine ==
  ASSUME NEW S, White \subseteq S, Comma \in S, Marker \subseteq S, NEW kind \in Loops,
         NEW pretty \in BOOLEAN, NEW level \in Nat,
         NEW entries, entries \in Seq(Seq(S)),
         NEW w, w = Listed(OpenOf(kind), entries, CloseOf(kind), pretty, level),
         NEW t, t \in Seq(S), NEW p \in 1..Len(t), Agrees(t, p, w), NEW plain,
         NEW v, NEW X, NEW Y, ValueOver(v, X, Y),
         NEW m, m = Len(entries), m = Len(v.items), m # 0,
         \A i \in 1..m : EntryBack(S, kind, entries[i], One(v, i), plain)
  PROVE  ListFine(t, p, p + Len(w), v, plain)
<1> DEFINE close == CloseOf(kind)
           open == OpenOf(kind)
           n == Len(t)
           e == p + Len(w)
           c == p + Len(w) - 1
           q == p + 1
           r == Parsed(t)[<<"value", p>>]
           loop == Parsed(t)[<<kind, q>>]
<1>1. /\ close \in S /\ open \in S /\ close # TheEnd /\ close # Comma
      /\ close \in {CloseArray, CloseObject}
  BY LoopsAre, MarkersDiffer DEF OpenOf, CloseOf
<1>2. n \in Nat /\ p \in Nat /\ p >= 1 /\ p <= n /\ m \in Nat /\ m >= 1
  BY TextIs
<1>3. t[p] = open /\ Len(w) \in Nat
  <2> HIDE DEF open, close
  <2>1. FourParts(w, open, Body(entries, pretty, level), LastLine(entries, pretty, level), close)
        /\ w \in Seq(S)
    <3>1. w = Listed(open, entries, close, pretty, level)
      BY DEF open, close
    <3>2. close \in S /\ open \in S
      BY <1>1
    <3>3. QED
      BY ONLY <3>1, <3>2, ListedIs, White \subseteq S, Comma \in S, entries \in Seq(Seq(S)),
              pretty \in BOOLEAN, level \in Nat, ZenonT(40)
  <2>2. QED
    BY <1>2, <2>1, TextIs DEF FourParts
<1>4. r = Inside(t, q, close, EmptyOf(kind), kind, Parsed(t))
  BY <1>3, OpenRule
<1>5. PICK start, first, stop : Laid(t, p, m, start, first, stop, entries, close, c)
  <2>1. w = Listed(open, entries, close, pretty, level) /\ open \in S /\ close \in S
    BY <1>1
  <2>2. p \in Nat /\ p >= 1 /\ Agrees(t, p, w)
    BY <1>2
  <2> HIDE DEF open, close
  <2>3. QED
    BY <2>1, <2>2, ListedLaid, ZenonT(40)
<1>6. /\ first \in [1..m -> Nat] /\ stop \in [1..m -> Nat] /\ c \in Nat /\ start[1] = p + 1
      /\ \A i \in 1..m : /\ start[i] >= 1 /\ start[i] <= first[i]
                         /\ Blank(t, start[i], first[i] - 1)
                         /\ Agrees(t, first[i], entries[i])
                         /\ stop[i] = first[i] + Len(entries[i])
  BY <1>5 DEF Laid
<1>7. ASSUME NEW i \in 1..m
      PROVE  EntryFine(t, kind, first[i], first[i], stop[i], One(v, i), plain)
  <2>1. first[i] \in Nat /\ first[i] >= 1 /\ Agrees(t, first[i], entries[i])
        /\ stop[i] = first[i] + Len(entries[i])
    <3>1. first[i] \in Nat /\ start[i] >= 1 /\ start[i] <= first[i]
      BY <1>6
    <3>2. start[i] \in Nat
      BY <1>5 DEF Laid
    <3>3. QED
      BY <1>6, <3>1, <3>2
  <2>2. EntryBack(S, kind, entries[i], One(v, i), plain)
    OBVIOUS
  <2>3. QED
    BY <2>1, <2>2 DEF EntryBack
<1>8. LoopFine(t, kind, p + 1, c, v, plain)
  BY <1>5, <1>7, LoopRead
<1>9. q <= n + 1 /\ q \in 1..(n + 1)
  BY <1>2
<1>10. /\ c <= n => loop.next = c + 1 /\ (plain => loop.value = v)
       /\ c > n => loop.next = 0
  BY <1>8, <1>9 DEF LoopFine
<1>11. Peek(t, q) # close
  <2> DEFINE b == first[1]
  <2>0. 1 \in 1..m
    BY <1>2
  <2>1. /\ b \in Nat /\ q <= b /\ Blank(t, q, b - 1)
        /\ Agrees(t, b, entries[1])
    <3>1. start[1] = q /\ b \in Nat
      BY <1>6, <2>0
    <3>2. start[1] <= b /\ Blank(t, start[1], b - 1) /\ Agrees(t, b, entries[1])
      BY <1>6, <2>0
    <3> HIDE DEF b, q
    <3>3. QED
      BY <3>1, <3>2
  <2>2. Len(entries[1]) >= 1 /\ Starts(entries[1][1]) /\ entries[1] \in Seq(S)
    BY <2>1 DEF EntryBack
  <2> HIDE DEF b, q
  <2>3. CASE b <= n
    <3>1. t[b] = entries[1][1]
      <4>1. b + 1 - 1 = b /\ 1 \in 1..Len(entries[1])
        BY <2>1, <2>2, TextIs
      <4>2. b + 1 - 1 <= Len(t) => t[b + 1 - 1] = entries[1][1]
        BY <2>1, <4>1 DEF Agrees
      <4>3. QED
        BY <2>3, <4>1, <4>2
    <3>2. t[b] \notin White /\ t[b] # close
      BY <1>1, <2>2, <3>1, StartsAre
    <3>3. q \in 1..(Len(t) + 1) /\ b \in q..Len(t) /\ \A i \in q..(b - 1) : t[i] \in White
      BY <1>2, <1>9, <2>1, <2>3 DEF Blank
    <3>4. Peek(t, q) = t[b]
      BY <3>2, <3>3, SkipTo
    <3>5. QED
      BY <3>2, <3>4
  <2>4. CASE b > n
    <3>1. q \in 1..(Len(t) + 1) /\ \A i \in q..Len(t) : t[i] \in White
      BY <1>2, <1>9, <2>1, <2>4 DEF Blank
    <3>2. Peek(t, q) = TheEnd
      BY <3>1, SkipToEnd DEF TheEnd
    <3>3. QED
      BY <1>1, <3>2
  <2>5. QED
    BY <1>2, <2>1, <2>3, <2>4
<1>12. r = loop
  BY <1>4, <1>11 DEF Inside
<1>13. e = c + 1 /\ c \in Nat /\ e \in Nat
  BY <1>2, <1>3
<1> HIDE DEF r, loop, e, c
<1>14. /\ e <= n + 1 => r.next = e /\ (plain => r.value = v)
       /\ e > n + 1 => r.next = 0
  BY <1>2, <1>10, <1>12, <1>13
<1>15. QED
  BY <1>14 DEF ListFine, r, e

-----------------------------------------------------------------------------
(* What stringify_value writes of a value, when its items are read back.   *)

\* All that is written is made of S.
Spells(S) == /\ Words \subseteq S /\ Digits \subseteq S /\ White \subseteq S
             /\ Marks \subseteq S /\ Marker \subseteq S /\ Minus \in S

ItemTexts(written, v, level) ==
  [i \in DOMAIN v.items |-> written[<<v.items[i], level + 1>>]]
MemberTexts(written, pretty, v, level) ==
  [i \in DOMAIN v.items |->
     MemberText(v.keys[i], pretty, written[<<v.items[i], level + 1>>])]

LEMMA TypesDiffer ==
  /\ "number" \notin Words /\ "string" \notin Words /\ "array" \notin Words
  /\ "object" \notin Words /\ "number" # "string" /\ "number" # "array" /\ "number" # "object"
  /\ "string" # "array" /\ "string" # "object" /\ "array" # "object"
BY Zenon DEF Words

\* stringify_value by the type of the value.
LEMMA WrittenRules ==
  ASSUME NEW written, NEW pretty, NEW v, NEW level, NEW w,
         w = WrittenWith(written, pretty, v, level)
  PROVE  /\ v.type \in Words => w = <<v.type>>
         /\ v.type = "number" => w = v.text
         /\ v.type = "string" => w = Quoted(v.text)
         /\ v.type = "array" =>
              w = Listed(OpenArray, ItemTexts(written, v, level), CloseArray, pretty, level)
         /\ v.type = "object" =>
              w = Listed(OpenObject, MemberTexts(written, pretty, v, level), CloseObject, pretty,
                         level)
<1> DEFINE word == <<v.type>>
           string == Quoted(v.text)
           array == Listed(OpenArray, ItemTexts(written, v, level), CloseArray, pretty, level)
           object == Listed(OpenObject, MemberTexts(written, pretty, v, level), CloseObject,
                            pretty, level)
           p1 == v.type \in Words
           p2 == v.type = "number"
           p3 == v.type = "string"
           p4 == v.type = "array"
           p5 == v.type = "object"
           number == v.text
<1>1. w = CASE p1 -> word [] p2 -> number [] p3 -> string [] p4 -> array [] p5 -> object
  BY DEF WrittenWith, ItemTexts, MemberTexts, MemberText, OpenArray, OpenObject, CloseArray,
         CloseObject
<1>2. /\ ~(p1 /\ p2) /\ ~(p1 /\ p3) /\ ~(p1 /\ p4) /\ ~(p1 /\ p5) /\ ~(p2 /\ p3)
      /\ ~(p2 /\ p4) /\ ~(p2 /\ p5) /\ ~(p3 /\ p4) /\ ~(p3 /\ p5) /\ ~(p4 /\ p5)
  BY TypesDiffer
<1> HIDE DEF p1, p2, p3, p4, p5, word, string, array, object, number
<1>3. /\ p1 => w = word
      /\ p2 => w = number
      /\ p3 => w = string
      /\ p4 => w = array
      /\ p5 => w = object
  BY ONLY <1>1, <1>2, Zenon
<1>4. QED
  BY <1>3, Zenon DEF p1, p2, p3, p4, p5, word, string, array, object, number

\* What is read of a value that begins with this symbol, where it stands.
LEMMA ValueHere ==
  ASSUME NEW S, NEW t \in Seq(S), NEW p \in 1..Len(t), Starts(t[p])
  PROVE  /\ t[p] \in Words => Parsed(t)[<<"value", p>>] = Read(Word(t[p]), p + 1)
         /\ t[p] = Quote => Parsed(t)[<<"value", p>>] = ParseString(t, p)
         /\ t[p] \in NumberStart => Parsed(t)[<<"value", p>>] = ParseNumber(t, p)
<1>1. p \in 1..(Len(t) + 1) /\ p \in p..Len(t) /\ \A i \in p..(p - 1) : t[i] \in White
  BY TextIs
<1>2. t[p] \notin White
  BY StartsAre
<1>3. Skip(t, p) = p /\ Peek(t, p) = t[p]
  BY <1>1, <1>2, SkipTo
<1>4. Parsed(t)[<<"value", p>>] = ParseValue(t, p, Parsed(t))
  BY <1>1, PartsAre
<1> DEFINE f == Parsed(t)
<1>5. /\ Peek(t, p) \in Words => ParseValue(t, p, f) = Read(Word(Peek(t, p)), Skip(t, p) + 1)
      /\ Peek(t, p) = Quote => ParseValue(t, p, f) = ParseString(t, Skip(t, p))
      /\ Peek(t, p) \in NumberStart => ParseValue(t, p, f) = ParseNumber(t, Skip(t, p))
  BY ValueRules
<1>6. QED
  BY ONLY <1>3, <1>4, <1>5, Zenon

\* Where the text ends nothing is read, and every writing would go on.
LEMMA ValueAtEnd ==
  ASSUME NEW S, NEW t \in Seq(S), NEW p, p = Len(t) + 1, NEW e \in Nat, e > p, NEW x, NEW plain
  PROVE  ValueFine(t, p, e, x, plain) /\ ListFine(t, p, e, x, plain)
<1>1. Parsed(t)[<<"value", p>>].next = 0
  BY EndFails, KindsAre
<1>2. Len(t) \in Nat /\ e > Len(t) + 1 /\ ~(e <= Len(t) + 1)
  BY TextIs
<1>3. QED
  BY <1>1, <1>2 DEF ValueFine, ListFine

LEMMA WordBack ==
  ASSUME NEW S, NEW c \in S, c \in Words, NEW plain
  PROVE  ReadBack(S, <<c>>, Word(c), plain)
<1> DEFINE w == <<c>>
<1>1. w \in Seq(S) /\ Len(w) = 1 /\ w[1] = c
  BY Singleton
<1>2. Starts(c)
  BY DEF Starts
<1> HIDE DEF w
<1>3. ASSUME NEW t \in Seq(S), NEW p \in 1..(Len(t) + 1), Agrees(t, p, w)
      PROVE  ValueFine(t, p, p + Len(w), Word(c), plain)
  <2>1. Len(t) \in Nat /\ p \in Nat /\ p + Len(w) = p + 1 /\ p + 1 \in Nat
    BY <1>1, TextIs
  <2>2. CASE p = Len(t) + 1
    BY <2>1, <2>2, ValueAtEnd
  <2>3. CASE p <= Len(t)
    <3>1. t[p] = c
      <4>1. 1 \in 1..Len(w) /\ p + 1 - 1 = p
        BY <1>1, <2>1
      <4>2. p + 1 - 1 <= Len(t) => t[p + 1 - 1] = w[1]
        BY <1>3, <4>1 DEF Agrees
      <4>3. QED
        BY <1>1, <2>3, <4>1, <4>2
    <3>2. Parsed(t)[<<"value", p>>] = Read(Word(c), p + 1)
      <4>1. p \in 1..Len(t)
        BY <2>1, <2>3
      <4>2. QED
        BY <1>2, <3>1, <4>1, ValueHere
    <3>3. Parsed(t)[<<"value", p>>].next = p + 1 /\ Parsed(t)[<<"value", p>>].value = Word(c)
      BY <3>2, ReadOf
    <3>4. p + 1 <= Len(t) + 1 /\ ~(p + 1 > Len(t) + 1)
      BY <2>1, <2>3
    <3>5. QED
      BY <2>1, <3>3, <3>4 DEF ValueFine
  <2>4. QED
    BY <2>1, <2>2, <2>3
<1>4. QED
  BY <1>1, <1>2, <1>3 DEF ReadBack, w

LEMMA TextBack ==
  ASSUME NEW S, Spells(S), NEW s \in Seq(S), NEW plain, plain => Plain(s)
  PROVE  ReadBack(S, Quoted(s), Text(s), plain)
<1> DEFINE w == Quoted(s)
<1>1. w \in Seq(S) /\ Len(w) \in Nat /\ Len(w) >= 2 /\ w[1] = Quote /\ Marks \subseteq S
  <2>1. Marks \subseteq S
    BY DEF Spells
  <2>2. Len(Escaped(s)) \in Nat
    BY <2>1, EscapedIs, TextIs
  <2>3. QED
    BY <2>1, <2>2, QuotedIs
<1>2. Starts(Quote)
  BY DEF Starts
<1>3. ASSUME NEW t \in Seq(S), NEW p \in 1..(Len(t) + 1), Agrees(t, p, w), NEW e, e = p + Len(w)
      PROVE  ValueFine(t, p, e, Text(s), plain)
  <2>1. Len(t) \in Nat /\ p \in Nat /\ e \in Nat /\ e > p
    BY <1>1, <1>3, TextIs
  <2>2. CASE p = Len(t) + 1
    BY <2>1, <2>2, ValueAtEnd
  <2>3. CASE p <= Len(t)
    <3>1. t[p] = Quote
      <4>1. 1 \in 1..Len(w) /\ p + 1 - 1 = p
        BY <1>1, <2>1
      <4>2. p + 1 - 1 <= Len(t) => t[p + 1 - 1] = w[1]
        BY <1>3, <4>1 DEF Agrees
      <4>3. QED
        BY <1>1, <2>3, <4>1, <4>2
    <3>2. Parsed(t)[<<"value", p>>] = ParseString(t, p)
      <4>1. p \in 1..Len(t)
        BY <2>1, <2>3
      <4>2. QED
        BY <1>2, <3>1, <4>1, ValueHere
    <3>3. /\ e <= Len(t) + 1 => /\ ParseString(t, p).next = e
                                /\ Plain(s) => ParseString(t, p).value = Text(s)
          /\ e > Len(t) + 1 => ParseString(t, p).next = 0
      BY <1>1, <1>3, StringRead
    <3>4. QED
      BY <3>2, <3>3 DEF ValueFine
  <2>4. QED
    BY <2>1, <2>2, <2>3
<1>4. QED
  BY <1>1, <1>2, <1>3 DEF ReadBack

LEMMA NumberBack ==
  ASSUME NEW S, NEW s \in Seq(S), IsNumber(s), NEW plain
  PROVE  ReadBack(S, s, Number(s), plain)
<1>1. Len(s) \in Nat /\ Len(s) >= 1 /\ s[1] \in NumberStart
  <2>1. Sign(s[1]) + 1 <= Len(s) /\ s[1] \in NumberStart /\ Sign(s[1]) \in {0, 1}
    BY NumberIs, SignIs
  <2>2. QED
    BY <2>1, TextIs
<1>2. Starts(s[1])
  BY <1>1 DEF Starts
<1>3. ASSUME NEW t \in Seq(S), NEW p \in 1..(Len(t) + 1), Agrees(t, p, s), NEW e, e = p + Len(s)
      PROVE  ValueFine(t, p, e, Number(s), plain)
  <2>1. Len(t) \in Nat /\ p \in Nat /\ e \in Nat /\ e > p
    BY <1>1, <1>3, TextIs
  <2>2. CASE p = Len(t) + 1
    BY <2>1, <2>2, ValueAtEnd
  <2>3. CASE p <= Len(t)
    <3>1. t[p] = s[1]
      <4>1. 1 \in 1..Len(s) /\ p + 1 - 1 = p
        BY <1>1, <2>1
      <4>2. p + 1 - 1 <= Len(t) => t[p + 1 - 1] = s[1]
        BY <1>3, <4>1 DEF Agrees
      <4>3. QED
        BY <2>3, <4>1, <4>2
    <3>2. p \in 1..Len(t)
      BY <2>1, <2>3
    <3>3. Parsed(t)[<<"value", p>>] = ParseNumber(t, p)
      BY <1>1, <1>2, <3>1, <3>2, ValueHere
    <3>4. /\ e <= Len(t) + 1 /\ (e <= Len(t) => t[e] \notin Digits) =>
               ParseNumber(t, p) = Read(Number(s), e)
          /\ e > Len(t) + 1 => ParseNumber(t, p).next \in {0, Len(t) + 1}
      BY <1>3, <3>2, NumberRead
    <3>5. QED
      BY <3>3, <3>4, ReadOf DEF ValueFine
  <2>4. QED
    BY <2>1, <2>2, <2>3
<1>4. QED
  BY <1>1, <1>2, <1>3 DEF ReadBack

\* The writing w of the array or object v, wherever it stands, is read to its end, and is
\* refused when it is cut short.
ReadInWhole(S, w, v, plain) ==
  \A t \in Seq(S) : \A p \in 1..(Len(t) + 1) :
    Agrees(t, p, w) => ListFine(t, p, p + Len(w), v, plain)

\* When the entries of an array or object are read back, it is.
LEMMA ListedBack ==
  ASSUME NEW S, Spells(S), NEW kind \in Loops, NEW pretty \in BOOLEAN, NEW level \in Nat,
         NEW entries, entries \in Seq(Seq(S)),
         NEW w, w = Listed(OpenOf(kind), entries, CloseOf(kind), pretty, level),
         NEW v, NEW X, NEW Y, ValueOver(v, X, Y), Len(v.items) = Len(entries),
         v.items = <<>> => v = EmptyOf(kind), NEW plain,
         \A i \in 1..Len(entries) : EntryBack(S, kind, entries[i], One(v, i), plain)
  PROVE  ReadInWhole(S, w, v, plain) /\ ReadBack(S, w, v, plain)
<1> DEFINE open == OpenOf(kind)
           close == CloseOf(kind)
           m == Len(entries)
<1>1. /\ White \subseteq S /\ Comma \in S /\ Marker \subseteq S
      /\ open \in S /\ close \in S /\ Starts(open)
  <2>1. White \subseteq S /\ Comma \in S /\ Marker \subseteq S
    BY MarkersDiffer DEF Spells
  <2>2. open \in Marker /\ close \in Marker
    BY MarkersDiffer, LoopsAre DEF OpenOf
  <2>3. open = OpenArray \/ open = OpenObject
    BY DEF OpenOf
  <2>4. Starts(open)
    BY <2>3 DEF Starts
  <2>5. QED
    BY <2>1, <2>2, <2>4
<1>2. m \in Nat /\ (m = 0 => entries = <<>> /\ v.items = <<>>)
  <2>1. v.items \in Seq(Y)
    BY DEF ValueOver
  <2>2. QED
    BY <2>1, TextIs
<1>3. w \in Seq(S) /\ Len(w) \in Nat /\ Len(w) >= 2 /\ w[1] = open
  <2> DEFINE body == Body(entries, pretty, level)
             tail == LastLine(entries, pretty, level)
  <2> HIDE DEF open, close
  <2>1. w = Listed(open, entries, close, pretty, level)
    BY DEF open, close
  <2>2. w \in Seq(S) /\ body \in Seq(S) /\ tail \in Seq(White) /\ FourParts(w, open, body, tail, close)
    BY ONLY <1>1, <2>1, ListedIs, entries \in Seq(Seq(S)), pretty \in BOOLEAN, level \in Nat, Zenon
  <2> HIDE DEF body, tail
  <2>3. Len(w) \in Nat /\ Len(body) \in Nat /\ Len(tail) \in Nat
    BY <2>2, TextIs
  <2>4. Len(w) = Len(body) + Len(tail) + 2
    BY <2>2 DEF FourParts
  <2>5. Agrees(w, 1, w)
    BY <2>2, AgreesItself
  <2>6. 1 <= Len(w) => w[1] = open
    BY <2>2, <2>5 DEF FourParts
  <2>7. QED
    BY <2>2, <2>3, <2>4, <2>6
<1>4. ASSUME NEW t, t \in Seq(S), NEW p \in 1..(Len(t) + 1), Agrees(t, p, w)
      PROVE  ListFine(t, p, p + Len(w), v, plain)
  <2>1. Len(t) \in Nat /\ p \in Nat /\ p + Len(w) \in Nat /\ p + Len(w) > p
    BY <1>3, <1>4, TextIs
  <2>2. CASE p = Len(t) + 1
    BY <1>4, <2>1, <2>2, ValueAtEnd
  <2>3. CASE p <= Len(t)
    <3>1. p \in 1..Len(t)
      BY <2>1, <2>3
    <3>2. CASE m = 0
      <4>1. entries = <<>> /\ v = EmptyOf(kind)
        BY <1>2, <3>2
      <4>2. ListFine(t, p, p + Len(w), EmptyOf(kind), plain)
        BY ONLY <1>1, <1>4, <3>1, <4>1, EmptyFine, kind \in Loops, pretty \in BOOLEAN,
                level \in Nat, w = Listed(OpenOf(kind), entries, CloseOf(kind), pretty, level)
      <4>3. QED
        BY <4>1, <4>2
    <3>3. CASE m # 0
      <4>1. \A i \in 1..m : EntryBack(S, kind, entries[i], One(v, i), plain)
        OBVIOUS
      <4> HIDE DEF m
      <4>2. m = Len(entries) /\ m = Len(v.items)
        BY DEF m
      <4>3. QED
        BY ONLY <1>1, <1>4, <3>1, <3>3, <4>1, <4>2, ListedFine, kind \in Loops,
                pretty \in BOOLEAN, level \in Nat, entries \in Seq(Seq(S)), ValueOver(v, X, Y),
                w = Listed(OpenOf(kind), entries, CloseOf(kind), pretty, level)
    <3>4. QED
      BY <3>2, <3>3
  <2>4. p = Len(t) + 1 \/ p <= Len(t)
    BY <2>1
  <2>5. QED
    BY ONLY <2>2, <2>3, <2>4
<1>5. ReadInWhole(S, w, v, plain)
  BY <1>4 DEF ReadInWhole
<1>6. ASSUME NEW t \in Seq(S), NEW p \in 1..(Len(t) + 1), Agrees(t, p, w)
      PROVE  ValueFine(t, p, p + Len(w), v, plain)
  <2>1. ListFine(t, p, p + Len(w), v, plain)
    BY <1>4, <1>6
  <2>2. QED
    BY <2>1 DEF ListFine, ValueFine
<1>7. QED
  BY <1>1, <1>3, <1>5, <1>6 DEF ReadBack

\* A value whose parts are made of S and of values in D.
ValueOf(v, S, D) ==
  /\ v \in [type : Types, text : Seq(S), keys : Seq(Seq(S)), items : Seq(D)]
  /\ WellFormed(v)

LEMMA ValuesAre ==
  ASSUME NEW S, NEW D, NEW v, ValueOf(v, S, D)
  PROVE  /\ v.type \in Types /\ v.text \in Seq(S) /\ ValueOver(v, Seq(S), D)
         /\ Len(v.items) \in Nat /\ \A i \in 1..Len(v.items) : v.items[i] \in D
         /\ v.type \in Words => v = Word(v.type)
         /\ v.type = "number" => v = Number(v.text) /\ IsNumber(v.text)
         /\ v.type = "string" => v = Text(v.text)
         /\ v.type = "array" => /\ v = Array(v.items) /\ v.keys = <<>>
                                /\ \A i \in 1..Len(v.items) : One(v, i) = Array(<<v.items[i]>>)
         /\ v.type = "object" =>
              /\ v = Object(v.keys, v.items) /\ Len(v.keys) = Len(v.items)
              /\ \A i \in 1..Len(v.items) :
                   One(v, i) = Object(<<v.keys[i]>>, <<v.items[i]>>) /\ v.keys[i] \in Seq(S)
<1>1. /\ v.type \in Types /\ v.text \in Seq(S) /\ v.keys \in Seq(Seq(S)) /\ v.items \in Seq(D)
      /\ v = Value(v.type, v.text, v.keys, v.items)
  BY DEF ValueOf, Value
<1>2. /\ v.type = "number" => IsNumber(v.text)
      /\ v.type \notin {"number", "string"} => v.text = <<>>
      /\ v.type = "object" => Len(v.keys) = Len(v.items)
      /\ v.type # "object" => v.keys = <<>>
      /\ v.type \notin {"array", "object"} => v.items = <<>>
  BY DEF ValueOf, WellFormed
<1>3. ValueOver(v, Seq(S), D) /\ Len(v.items) \in Nat /\ \A i \in 1..Len(v.items) : v.items[i] \in D
  <2>1. v.keys # <<>> => Len(v.keys) = Len(v.items)
    BY <1>2
  <2>2. Len(v.items) \in Nat /\ \A i \in 1..Len(v.items) : v.items[i] \in D
    BY <1>1, TextIs
  <2>3. QED
    BY <1>1, <2>1, <2>2 DEF ValueOver
<1>4. v.type \in Words => v = Word(v.type)
  <2>1. ASSUME v.type \in Words PROVE v = Word(v.type)
    <3>1. v.text = <<>> /\ v.keys = <<>> /\ v.items = <<>>
      BY <1>2, <2>1, TypesDiffer
    <3>2. QED
      BY <1>1, <3>1, Zenon DEF Word
  <2>2. QED
    BY <2>1
<1>5. v.type = "number" => v = Number(v.text) /\ IsNumber(v.text)
  <2>1. ASSUME v.type = "number" PROVE v.keys = <<>> /\ v.items = <<>>
    BY <1>2, <2>1
  <2>2. QED
    BY <1>1, <1>2, <2>1, Zenon DEF Number
<1>6. v.type = "string" => v = Text(v.text)
  <2>1. ASSUME v.type = "string" PROVE v.keys = <<>> /\ v.items = <<>>
    BY <1>2, <2>1
  <2>2. QED
    BY <1>1, <2>1, Zenon DEF Text
<1>7. ASSUME v.type = "array"
      PROVE  /\ v = Array(v.items) /\ v.keys = <<>>
             /\ \A i \in 1..Len(v.items) : One(v, i) = Array(<<v.items[i]>>)
  <2>1. v.text = <<>> /\ v.keys = <<>>
    BY <1>2, <1>7
  <2>2. v = Array(v.items)
    BY <1>1, <1>7, <2>1, Zenon DEF Array
  <2>3. ASSUME NEW i PROVE One(v, i) = Array(<<v.items[i]>>)
    <3>1. (IF v.keys = <<>> THEN <<>> ELSE <<v.keys[i]>>) = <<>>
      BY <2>1
    <3>2. QED
      BY <1>7, <2>1, <3>1, Zenon DEF One, Array
  <2>4. QED
    BY <2>1, <2>2, <2>3
<1>8. ASSUME v.type = "object"
      PROVE  /\ v = Object(v.keys, v.items) /\ Len(v.keys) = Len(v.items)
             /\ \A i \in 1..Len(v.items) :
                  One(v, i) = Object(<<v.keys[i]>>, <<v.items[i]>>) /\ v.keys[i] \in Seq(S)
  <2>1. v.text = <<>> /\ Len(v.keys) = Len(v.items)
    BY <1>2, <1>8
  <2>2. v = Object(v.keys, v.items)
    BY <1>1, <1>8, <2>1, Zenon DEF Object
  <2>3. ASSUME NEW i \in 1..Len(v.items)
        PROVE  One(v, i) = Object(<<v.keys[i]>>, <<v.items[i]>>) /\ v.keys[i] \in Seq(S)
    <3>1. v.keys # <<>>
      <4>1. Len(v.keys) # 0 /\ Len(<<>>) = 0
        BY <1>3, <2>1
      <4>2. QED
        BY <4>1
    <3>2. (IF v.keys = <<>> THEN <<>> ELSE <<v.keys[i]>>) = <<v.keys[i]>>
      BY <3>1
    <3>3. v.keys[i] \in Seq(S)
      BY <1>1, <2>1, TextIs
    <3>4. QED
      BY <1>8, <2>1, <3>2, <3>3, Zenon DEF One, Object
  <2>4. QED
    BY <2>1, <2>2, <2>3
<1>9. QED
  BY <1>1, <1>3, <1>4, <1>5, <1>6, <1>7, <1>8

\* An item that is read back is so as an entry, and a member with its key is.
LEMMA ItemBack ==
  ASSUME NEW S, NEW w, NEW x, NEW inner, ReadBack(S, w, x, inner), NEW plain, plain => inner
  PROVE  EntryBack(S, "items", w, Array(<<x>>), plain)
<1>1. /\ w \in Seq(S) /\ Len(w) >= 1 /\ Len(w) \in Nat /\ Starts(w[1])
      /\ \A t \in Seq(S) : \A p \in 1..(Len(t) + 1) :
           Agrees(t, p, w) => ValueFine(t, p, p + Len(w), x, inner)
  BY TextIs DEF ReadBack
<1>2. ASSUME NEW t \in Seq(S), NEW a \in Nat, a >= 1, Agrees(t, a, w)
      PROVE  EntryFine(t, "items", a, a, a + Len(w), Array(<<x>>), plain)
  <2>1. Len(t) \in Nat /\ a + Len(w) \in Nat /\ a < a + Len(w)
    BY <1>1, TextIs
  <2>2. CASE a <= Len(t) + 1
    <3>1. a \in 1..(Len(t) + 1)
      BY <1>2, <2>1, <2>2
    <3>2. ValueFine(t, a, a + Len(w), x, inner)
      BY <1>1, <1>2, <3>1
    <3>3. ValueFine(t, a, a + Len(w), x, plain)
      BY <3>2 DEF ValueFine
    <3>4. QED
      BY <2>1, <3>3, ItemFine
  <2>3. CASE ~(a <= Len(t) + 1)
    BY <2>3 DEF EntryFine
  <2>4. QED
    BY <2>2, <2>3
<1>3. QED
  BY <1>1, <1>2 DEF EntryBack

LEMMA MemberBack ==
  ASSUME NEW S, Spells(S), NEW key \in Seq(S), NEW pretty \in BOOLEAN,
         NEW w, NEW x, NEW inner, ReadBack(S, w, x, inner), NEW plain, plain => inner /\ Plain(key)
  PROVE  EntryBack(S, "members", MemberText(key, pretty, w), Object(<<key>>, <<x>>), plain)
<1> DEFINE z == MemberText(key, pretty, w)
<1>1. Marks \subseteq S /\ White \subseteq S /\ Between \in S
  BY MarkersDiffer DEF Spells
<1>2. w \in Seq(S) /\ Len(w) \in Nat
  BY TextIs DEF ReadBack
<1>3. z \in Seq(S) /\ MemberLaid(z, key, pretty, w)
  BY <1>1, <1>2, MemberIs
<1> HIDE DEF z
<1>4. Len(z) >= 1 /\ z[1] = Quote
  BY <1>2, <1>3 DEF MemberLaid
<1>5. Starts(z[1])
  BY <1>4 DEF Starts
<1>6. ASSUME NEW t \in Seq(S), NEW a \in Nat, a >= 1, Agrees(t, a, z)
      PROVE  EntryFine(t, "members", a, a, a + Len(z), Object(<<key>>, <<x>>), plain)
  BY <1>1, <1>6, MemberFine DEF z
<1>7. QED
  BY <1>3, <1>4, <1>5, <1>6 DEF EntryBack, z

LEMMA ItemTextsAre ==
  ASSUME NEW S, NEW v, Len(v.items) \in Nat, DOMAIN v.items = 1..Len(v.items),
         NEW texts, texts = [i \in DOMAIN v.items |-> texts[i]],
         \A i \in 1..Len(v.items) : texts[i] \in Seq(S)
  PROVE  texts \in Seq(Seq(S)) /\ Len(texts) = Len(v.items)
<1> DEFINE m == Len(v.items)
<1>1. m \in Nat /\ texts = [i \in 1..m |-> texts[i]] /\ \A i \in 1..m : texts[i] \in Seq(S)
  OBVIOUS
<1> HIDE DEF m
<1>2. texts \in [1..m -> Seq(S)]
  BY <1>1
<1>3. texts \in Seq(Seq(S)) /\ Len(texts) = m
  BY <1>1, <1>2
<1>4. QED
  BY <1>3 DEF m

PlainOver(v, P) == /\ Plain(v.text)
                   /\ \A i \in 1..Len(v.keys) : Plain(v.keys[i])
                   /\ \A i \in 1..Len(v.items) : v.items[i] \in P

\* When the items of a value are read back as they are written, it is.
LEMMA LevelBack ==
  ASSUME NEW S, Spells(S), NEW D, NEW P, NEW v, ValueOf(v, S, D), NEW pretty \in BOOLEAN,
         NEW level \in Nat, NEW written,
         \A i \in 1..Len(v.items) :
           ReadBack(S, written[<<v.items[i], level + 1>>], v.items[i], v.items[i] \in P),
         NEW plain, plain => PlainOver(v, P),
         NEW w, w = WrittenWith(written, pretty, v, level)
  PROVE  /\ ReadBack(S, w, v, plain)
         /\ v.type \in {"array", "object"} => ReadInWhole(S, w, v, plain)
<1> DEFINE items == ItemTexts(written, v, level)
           members == MemberTexts(written, pretty, v, level)
           m == Len(v.items)
           item(i) == written[<<v.items[i], level + 1>>]
<1>1. /\ v.type \in Words => w = <<v.type>>
      /\ v.type = "number" => w = v.text
      /\ v.type = "string" => w = Quoted(v.text)
      /\ v.type = "array" => w = Listed(OpenArray, items, CloseArray, pretty, level)
      /\ v.type = "object" => w = Listed(OpenObject, members, CloseObject, pretty, level)
  BY WrittenRules
<1>2. /\ v.type \in Types /\ v.text \in Seq(S) /\ ValueOver(v, Seq(S), D)
      /\ m \in Nat /\ v.items \in Seq(D) /\ DOMAIN v.items = 1..m
      /\ v.type \in Words => v = Word(v.type)
      /\ v.type = "number" => v = Number(v.text) /\ IsNumber(v.text)
      /\ v.type = "string" => v = Text(v.text)
  <2>1. v.items \in Seq(D)
    BY ValuesAre DEF ValueOver
  <2>2. QED
    BY <2>1, ValuesAre, TextIs
<1>3. CASE v.type \in Words
  <2>1. v.type \in S
    BY <1>3 DEF Spells
  <2>2. ReadBack(S, <<v.type>>, Word(v.type), plain)
    BY <1>3, <2>1, WordBack
  <2>3. v.type \notin {"array", "object"}
    BY <1>3, TypesDiffer
  <2>4. QED
    BY <1>1, <1>2, <1>3, <2>2, <2>3
<1>4. CASE v.type = "number"
  <2>1. ReadBack(S, v.text, Number(v.text), plain)
    BY <1>2, <1>4, NumberBack
  <2>2. QED
    BY <1>1, <1>2, <1>4, <2>1
<1>5. CASE v.type = "string"
  <2>1. plain => Plain(v.text)
    BY DEF PlainOver
  <2>2. ReadBack(S, Quoted(v.text), Text(v.text), plain)
    BY <1>2, <2>1, TextBack
  <2>3. QED
    BY <1>1, <1>2, <1>5, <2>2
<1> HIDE DEF m
<1>6. ASSUME NEW i \in 1..m
      PROVE  ReadBack(S, item(i), v.items[i], v.items[i] \in P) /\ item(i) \in Seq(S)
             /\ (plain => v.items[i] \in P)
  <2>1. ReadBack(S, item(i), v.items[i], v.items[i] \in P)
    BY DEF m
  <2>2. plain => v.items[i] \in P
    BY DEF PlainOver, m
  <2>3. QED
    BY <2>1, <2>2 DEF ReadBack
<1>7. CASE v.type = "array"
  <2>1. v = Array(v.items) /\ v.keys = <<>> /\ \A i \in 1..m : One(v, i) = Array(<<v.items[i]>>)
    BY <1>7, ValuesAre DEF m
  <2>2. items = [i \in DOMAIN v.items |-> item(i)]
    BY DEF ItemTexts
  <2>3. \A i \in 1..m : items[i] = item(i)
    BY <1>2, <2>2
  <2> HIDE DEF items, item
  <2>4. items \in Seq(Seq(S)) /\ Len(items) = m
    <3>1. items = [i \in DOMAIN v.items |-> items[i]] /\ \A i \in 1..m : items[i] \in Seq(S)
      BY <1>2, <1>6, <2>2, <2>3
    <3>2. QED
      BY <1>2, <3>1, ItemTextsAre DEF m
  <2>5. ASSUME NEW i \in 1..m PROVE EntryBack(S, "items", items[i], One(v, i), plain)
    <3>1. EntryBack(S, "items", item(i), Array(<<v.items[i]>>), plain)
      BY <1>6, ItemBack
    <3>2. QED
      BY <2>1, <2>3, <3>1
  <2> DEFINE kind == "items"
  <2>6. /\ kind \in Loops /\ OpenOf(kind) = OpenArray /\ CloseOf(kind) = CloseArray
        /\ EmptyOf(kind) = Array(<<>>)
    BY DEF OpenOf, CloseOf, EmptyOf, Loops
  <2>7. \A i \in 1..m : EntryBack(S, kind, items[i], One(v, i), plain)
    BY <2>5
  <2>8. w = Listed(OpenOf(kind), items, CloseOf(kind), pretty, level)
    BY <1>1, <1>7, <2>6
  <2> HIDE DEF kind
  <2>9. v.items = <<>> => v = EmptyOf(kind)
    BY <2>1, <2>6
  <2>10. ReadInWhole(S, w, v, plain) /\ ReadBack(S, w, v, plain)
    BY ONLY <1>2, <2>4, <2>6, <2>7, <2>8, <2>9, ListedBack, Spells(S), pretty \in BOOLEAN,
            level \in Nat DEF m
  <2>11. QED
    BY <2>10
<1>8. CASE v.type = "object"
  <2>1. /\ v = Object(v.keys, v.items) /\ Len(v.keys) = m
        /\ \A i \in 1..m :
             One(v, i) = Object(<<v.keys[i]>>, <<v.items[i]>>) /\ v.keys[i] \in Seq(S)
    BY <1>8, ValuesAre DEF m
  <2>2. members = [i \in DOMAIN v.items |-> MemberText(v.keys[i], pretty, item(i))]
    BY DEF MemberTexts
  <2>3. \A i \in 1..m : members[i] = MemberText(v.keys[i], pretty, item(i))
    BY <1>2, <2>2
  <2> HIDE DEF members, item
  <2>4. ASSUME NEW i \in 1..m PROVE EntryBack(S, "members", members[i], One(v, i), plain)
    <3> DEFINE key == v.keys[i]
    <3>1. key \in Seq(S) /\ (plain => v.items[i] \in P /\ Plain(key))
      BY <1>6, <2>1 DEF PlainOver
    <3> HIDE DEF key
    <3>2. EntryBack(S, "members", MemberText(key, pretty, item(i)),
                    Object(<<key>>, <<v.items[i]>>), plain)
      BY <1>6, <3>1, MemberBack
    <3>3. QED
      BY <2>1, <2>3, <3>2 DEF key
  <2>5. members \in Seq(Seq(S)) /\ Len(members) = m
    <3>1. /\ members = [i \in DOMAIN v.items |-> members[i]]
          /\ \A i \in 1..m : members[i] \in Seq(S)
      BY <1>2, <2>2, <2>4 DEF EntryBack
    <3>2. QED
      BY <1>2, <3>1, ItemTextsAre DEF m
  <2> DEFINE kind == "members"
  <2>6. /\ kind \in Loops /\ OpenOf(kind) = OpenObject /\ CloseOf(kind) = CloseObject
        /\ EmptyOf(kind) = Object(<<>>, <<>>)
    BY DEF OpenOf, CloseOf, EmptyOf, Loops
  <2>7. \A i \in 1..m : EntryBack(S, kind, members[i], One(v, i), plain)
    BY <2>4
  <2>8. w = Listed(OpenOf(kind), members, CloseOf(kind), pretty, level)
    BY <1>1, <1>8, <2>6
  <2> HIDE DEF kind
  <2>9. v.items = <<>> => v = EmptyOf(kind)
    <3>1. ASSUME v.items = <<>> PROVE v.keys = <<>>
      <4>1. Len(v.keys) = 0 /\ v.keys \in Seq(Seq(S))
        BY <1>2, <2>1, <3>1 DEF m, ValueOver
      <4>2. QED
        BY <4>1
    <3>2. QED
      BY <2>1, <2>6, <3>1
  <2>10. ReadInWhole(S, w, v, plain) /\ ReadBack(S, w, v, plain)
    BY ONLY <1>2, <2>5, <2>6, <2>7, <2>8, <2>9, ListedBack, Spells(S), pretty \in BOOLEAN,
            level \in Nat DEF m
  <2>11. QED
    BY <2>10
<1>9. v.type \in Words \/ v.type \in {"number", "string", "array", "object"}
  BY <1>2 DEF Types
<1>10. QED
  BY <1>3, <1>4, <1>5, <1>7, <1>8, <1>9

-----------------------------------------------------------------------------
(* Documents, level by level.                                              *)

LevelOf(T, D, n) ==
  IF n = 0 THEN {}
  ELSE {v \in [type : Types, text : T, keys : Seq(T), items : Seq(D)] : WellFormed(v)}
Levels(f, T, k) == f = [n \in 0..k |-> LevelOf(T, f[n - 1], n)]

\* A function that DocumentsOf is exists, and each level is made of the one below.
LEMMA DocumentsAre ==
  ASSUME NEW T
  PROVE  Levels(DocumentsOf(T), T, DepthBound)
<1> DEFINE U == {i \in 1..(DepthBound + 1) : \E f : Levels(f, T, i - 1)}
           L(D, n) == LevelOf(T, D, n)
<1>1. DepthBound \in Nat /\ DepthBound >= 2
  BY DepthAssumption
<1>2. \A D : L(D, 0) = {}
  BY DEF LevelOf
<1> HIDE DEF L
<1>3. 1 \in U
  <2> DEFINE g == [n \in 0..0 |-> {}]
  <2>1. \A n \in 0..0 : g[n] = L(g[n - 1], n)
    BY <1>2
  <2>2. g = [n \in 0..0 |-> g[n]]
    OBVIOUS
  <2> HIDE DEF g
  <2>3. g = [n \in 0..0 |-> L(g[n - 1], n)]
    BY <2>1, <2>2
  <2>4. Levels(g, T, 1 - 1)
    BY <2>3 DEF Levels, L
  <2>5. QED
    BY <1>1, <2>4
<1>4. ASSUME NEW i \in 2..(DepthBound + 1), i - 1 \in U PROVE i \in U
  <2> DEFINE k == i - 1
  <2>1. PICK f : Levels(f, T, k - 1)
    BY <1>4
  <2>2. k \in Nat /\ k >= 1 /\ k - 1 \in Nat
    BY <1>1
  <2> HIDE DEF k
  <2>3. \A n \in 0..(k - 1) : f[n] = L(f[n - 1], n)
    <3>1. f = [n \in 0..(k - 1) |-> L(f[n - 1], n)]
      BY <2>1 DEF Levels, L
    <3>2. QED
      BY <3>1
  <2> DEFINE h == [n \in 0..k |-> IF n = k THEN L(f[k - 1], k) ELSE f[n]]
  <2>4. \A n \in 0..(k - 1) : h[n] = f[n]
    BY <2>2
  <2>5. h[k] = L(f[k - 1], k) /\ h = [n \in 0..k |-> h[n]]
    BY <2>2
  <2> HIDE DEF h
  <2>6. ASSUME NEW n \in 0..k PROVE h[n] = L(h[n - 1], n)
    <3>1. CASE n = k
      <4>1. k - 1 \in 0..(k - 1)
        BY <2>2
      <4>2. QED
        BY <2>4, <2>5, <3>1, <4>1
    <3>2. CASE n = 0
      <4>1. n \in 0..(k - 1)
        BY <2>2, <3>2
      <4>2. h[n] = L(f[n - 1], n)
        BY <2>3, <2>4, <4>1
      <4>3. QED
        BY <1>2, <3>2, <4>2
    <3>3. CASE n # k /\ n # 0
      <4>1. n \in 0..(k - 1) /\ n - 1 \in 0..(k - 1)
        BY <2>2, <3>3
      <4>2. QED
        BY <2>3, <2>4, <4>1
    <3>4. QED
      BY <3>1, <3>2, <3>3
  <2>7. h = [n \in 0..k |-> L(h[n - 1], n)]
    BY <2>5, <2>6
  <2>8. Levels(h, T, i - 1)
    BY <2>7 DEF Levels, L, k
  <2>9. QED
    BY <1>1, <2>8
<1>5. PICK f : Levels(f, T, DepthBound)
  <2> DEFINE n == DepthBound + 1
  <2>1. n \in Nat /\ n \in 1..n
    BY <1>1
  <2> HIDE DEF U
  <2>2. \A i \in 2..n : i - 1 \in U => i \in U
    BY <1>4
  <2> HIDE DEF n
  <2>3. n \in U
    BY ONLY <1>3, <2>1, <2>2, Upwards
  <2>4. \E f : Levels(f, T, n - 1)
    BY <2>3 DEF U
  <2>5. n - 1 = DepthBound
    BY <1>1 DEF n
  <2>6. QED
    BY <2>4, <2>5
<1> DEFINE docs == CHOOSE d : Levels(d, T, DepthBound)
<1>6. Levels(docs, T, DepthBound)
  BY <1>5
<1>7. DocumentsOf(T) = docs
  BY DEF DocumentsOf, Levels, LevelOf
<1>8. QED
  BY <1>6, <1>7

LEMMA DocumentLevels ==
  ASSUME NEW T, NEW n \in 0..DepthBound
  PROVE  /\ DocumentsOf(T)[0] = {}
         /\ n >= 1 => DocumentsOf(T)[n] =
              {v \in [type : Types, text : T, keys : Seq(T), items : Seq(DocumentsOf(T)[n - 1])] :
                 WellFormed(v)}
<1> DEFINE f == DocumentsOf(T)
           L(D, k) == LevelOf(T, D, k)
<1>1. f = [k \in 0..DepthBound |-> L(f[k - 1], k)]
  BY DocumentsAre DEF Levels
<1>2. DepthBound \in Nat
  BY DepthAssumption
<1> HIDE DEF f, L
<1>3. \A k \in 0..DepthBound : f[k] = L(f[k - 1], k)
  BY <1>1
<1>4. f[0] = {}
  <2>1. 0 \in 0..DepthBound
    BY <1>2
  <2>2. L(f[0 - 1], 0) = {}
    BY DEF L, LevelOf
  <2>3. QED
    BY <1>3, <2>1, <2>2
<1>5. ASSUME n >= 1 PROVE f[n] = {v \in [type : Types, text : T, keys : Seq(T), items : Seq(f[n - 1])] :
                                    WellFormed(v)}
  <2>1. n # 0
    BY <1>5
  <2>2. f[n] = L(f[n - 1], n)
    BY <1>3
  <2>3. QED
    BY <2>1, <2>2, Zenon DEF L, LevelOf
<1>6. QED
  BY <1>4, <1>5 DEF f

\* What is written on a level, given what is written on the one below.
LayerOf(pretty, g, n) ==
  [part \in Documents[n] \X Nat |-> WrittenWith(g, pretty, part[1], part[2])]
Layers(f, pretty, k) == f = [n \in 0..k |-> LayerOf(pretty, f[n - 1], n)]

\* A function that Written is exists, and is this one.
LEMMA WrittenLayers ==
  ASSUME NEW pretty
  PROVE  Layers(Written(pretty), pretty, DepthBound)
<1> DEFINE U == {i \in 1..(DepthBound + 1) : \E f : Layers(f, pretty, i - 1)}
           L(g, n) == LayerOf(pretty, g, n)
<1>1. DepthBound \in Nat /\ DepthBound >= 2
  BY DepthAssumption
<1>2. ASSUME NEW g, NEW h PROVE L(g, 0) = L(h, 0)
  <2>1. Documents[0] = {}
    <3>1. 0 \in 0..DepthBound
      BY <1>1
    <3>2. QED
      BY <3>1, DocumentLevels DEF Documents
  <2> DEFINE A == Documents[0] \X Nat
             x(part) == WrittenWith(g, pretty, part[1], part[2])
             y(part) == WrittenWith(h, pretty, part[1], part[2])
  <2>2. A = {}
    BY <2>1
  <2> HIDE DEF A, x, y
  <2>3. [part \in A |-> x(part)] = [part \in A |-> y(part)]
    BY <2>2
  <2>4. QED
    BY <2>3 DEF LayerOf, A, x, y
<1> HIDE DEF L
<1>3. 1 \in U
  <2> DEFINE g == [n \in 0..0 |-> L(<<>>, 0)]
  <2>1. \A n \in 0..0 : g[n] = L(g[n - 1], n)
    <3>1. ASSUME NEW n \in 0..0 PROVE g[n] = L(g[n - 1], n)
      <4>1. n = 0 /\ g[n] = L(<<>>, 0)
        OBVIOUS
      <4> HIDE DEF g
      <4>2. L(g[n - 1], 0) = L(<<>>, 0)
        BY <1>2
      <4>3. QED
        BY <4>1, <4>2
    <3>2. QED
      BY <3>1
  <2>2. g = [n \in 0..0 |-> g[n]]
    OBVIOUS
  <2> HIDE DEF g
  <2>3. g = [n \in 0..0 |-> L(g[n - 1], n)]
    BY <2>1, <2>2
  <2>4. Layers(g, pretty, 1 - 1)
    BY <2>3 DEF Layers, L
  <2>5. QED
    BY <1>1, <2>4
<1>4. ASSUME NEW i \in 2..(DepthBound + 1), i - 1 \in U PROVE i \in U
  <2> DEFINE k == i - 1
  <2>1. PICK f : Layers(f, pretty, k - 1)
    BY <1>4
  <2>2. k \in Nat /\ k >= 1 /\ k - 1 \in Nat
    BY <1>1
  <2> HIDE DEF k
  <2>3. \A n \in 0..(k - 1) : f[n] = L(f[n - 1], n)
    <3>1. f = [n \in 0..(k - 1) |-> L(f[n - 1], n)]
      BY <2>1 DEF Layers, L
    <3>2. QED
      BY <3>1
  <2> DEFINE h == [n \in 0..k |-> IF n = k THEN L(f[k - 1], k) ELSE f[n]]
  <2>4. \A n \in 0..(k - 1) : h[n] = f[n]
    BY <2>2
  <2>5. h[k] = L(f[k - 1], k) /\ h = [n \in 0..k |-> h[n]]
    BY <2>2
  <2> HIDE DEF h
  <2>6. ASSUME NEW n \in 0..k PROVE h[n] = L(h[n - 1], n)
    <3>1. CASE n = k
      <4>1. k - 1 \in 0..(k - 1)
        BY <2>2
      <4>2. QED
        BY <2>4, <2>5, <3>1, <4>1
    <3>2. CASE n = 0
      <4>1. n \in 0..(k - 1)
        BY <2>2, <3>2
      <4>2. h[n] = L(f[n - 1], n)
        BY <2>3, <2>4, <4>1
      <4>3. L(f[n - 1], n) = L(h[n - 1], n)
        BY <1>2, <3>2
      <4>4. QED
        BY <4>2, <4>3
    <3>3. CASE n # k /\ n # 0
      <4>1. n \in 0..(k - 1) /\ n - 1 \in 0..(k - 1)
        BY <2>2, <3>3
      <4>2. QED
        BY <2>3, <2>4, <4>1
    <3>4. QED
      BY <3>1, <3>2, <3>3
  <2>7. h = [n \in 0..k |-> L(h[n - 1], n)]
    BY <2>5, <2>6
  <2>8. Layers(h, pretty, i - 1)
    BY <2>7 DEF Layers, L, k
  <2>9. QED
    BY <1>1, <2>8
<1>5. PICK f : Layers(f, pretty, DepthBound)
  <2> DEFINE n == DepthBound + 1
  <2>1. n \in Nat /\ n \in 1..n
    BY <1>1
  <2> HIDE DEF U
  <2>2. \A i \in 2..n : i - 1 \in U => i \in U
    BY <1>4
  <2> HIDE DEF n
  <2>3. n \in U
    BY ONLY <1>3, <2>1, <2>2, Upwards
  <2>4. \E f : Layers(f, pretty, n - 1)
    BY <2>3 DEF U
  <2>5. n - 1 = DepthBound
    BY <1>1 DEF n
  <2>6. QED
    BY <2>4, <2>5
<1> DEFINE written == CHOOSE d : Layers(d, pretty, DepthBound)
<1>6. Layers(written, pretty, DepthBound)
  BY <1>5
<1>7. Written(pretty) = written
  BY DEF Written, Layers, LayerOf
<1>8. QED
  BY <1>6, <1>7

LEMMA WrittenIs ==
  ASSUME NEW pretty, NEW n \in 0..DepthBound, NEW v \in Documents[n], NEW level \in Nat
  PROVE  Written(pretty)[n][<<v, level>>] = WrittenWith(Written(pretty)[n - 1], pretty, v, level)
<1> DEFINE f == Written(pretty)
           L(g, k) == LayerOf(pretty, g, k)
           W(g, part) == WrittenWith(g, pretty, part[1], part[2])
<1>1. f = [k \in 0..DepthBound |-> L(f[k - 1], k)]
  BY WrittenLayers DEF Layers
<1> HIDE DEF f, L
<1>2. f[n] = L(f[n - 1], n)
  BY <1>1
<1> HIDE DEF W
<1>3. L(f[n - 1], n) = [part \in Documents[n] \X Nat |-> W(f[n - 1], part)]
  BY DEF L, LayerOf, W
<1>4. f[n][<<v, level>>] = W(f[n - 1], <<v, level>>)
  BY <1>2, <1>3
<1>5. W(f[n - 1], <<v, level>>) = WrittenWith(f[n - 1], pretty, v, level)
  BY DEF W
<1>6. QED
  BY <1>4, <1>5 DEF f

\* The symbols that documents are written with.
Symbol == Character \cup Words \cup Digits \cup White \cup Marks \cup Marker \cup {Minus}

\* A value of some level is made of strings and of values of the level below, and one
\* without characters that are escaped has no such parts.
LEMMA DocumentIs ==
  ASSUME NEW n \in 1..DepthBound, NEW v \in Documents[n]
  PROVE  /\ ValueOf(v, Symbol, Documents[n - 1]) /\ n - 1 \in 0..DepthBound
         /\ v \in PlainDocuments[n] => PlainOver(v, PlainDocuments[n - 1])
<1> DEFINE C == Seq(Character)
           D == Documents[n - 1]
           T == {s \in Seq(Character) : Plain(s)}
           P == PlainDocuments[n - 1]
<1>1. n \in 0..DepthBound /\ n >= 1 /\ n - 1 \in 0..DepthBound
  BY DepthAssumption
<1>2. Documents[n] = {u \in [type : Types, text : C, keys : Seq(C), items : Seq(D)] : WellFormed(u)}
  BY <1>1, DocumentLevels DEF Documents
<1>3. PlainDocuments[n] =
        {u \in [type : Types, text : T, keys : Seq(T), items : Seq(P)] : WellFormed(u)}
  BY <1>1, DocumentLevels DEF PlainDocuments
<1> HIDE DEF D, P, T
<1>4. /\ v \in [type : Types, text : C, keys : Seq(C), items : Seq(D)] /\ WellFormed(v)
      /\ v.text \in C /\ v.keys \in Seq(C)
  BY <1>2
<1>5. ValueOf(v, Symbol, D)
  <2>1. Character \subseteq Symbol
    BY DEF Symbol
  <2>2. v.text \in Seq(Symbol)
    BY <1>4, <2>1, WiderSeq
  <2>3. Seq(Character) \subseteq Seq(Symbol)
    BY <2>1, WiderSeq
  <2>4. v.keys \in Seq(Seq(Symbol))
    BY <1>4, <2>3, WiderSeq
  <2>5. QED
    BY <1>4, <2>2, <2>4 DEF ValueOf
<1>6. ASSUME v \in PlainDocuments[n] PROVE PlainOver(v, P)
  <2>1. v.text \in T /\ v.keys \in Seq(T) /\ v.items \in Seq(P)
    BY <1>3, <1>6
  <2>2. /\ \A i \in 1..Len(v.keys) : v.keys[i] \in T
        /\ \A i \in 1..Len(v.items) : v.items[i] \in P
    BY <2>1, TextIs
  <2>3. \A s \in T : Plain(s)
    BY DEF T
  <2>4. QED
    BY <2>1, <2>2, <2>3 DEF PlainOver
<1>7. QED
  BY <1>1, <1>5, <1>6 DEF D, P

WrittenFine(n) ==
  \A v \in Documents[n] : \A level \in Nat : \A pretty \in BOOLEAN :
    /\ ReadBack(Symbol, Written(pretty)[n][<<v, level>>], v, v \in PlainDocuments[n])
    /\ v.type \in {"array", "object"} =>
         ReadInWhole(Symbol, Written(pretty)[n][<<v, level>>], v, v \in PlainDocuments[n])

LEMMA SymbolsSpell == Spells(Symbol)
BY DEF Spells, Symbol

(***************************************************************************)
(* Whatever document stringify_value writes, on whatever level and in      *)
(* whatever text, compact or pretty: parse_value reads it to its end       *)
(* (unless digits go on behind a number), as the same document when it has *)
(* no escapes; and an array or object of which only a part is there is     *)
(* refused.                                                                *)
(***************************************************************************)
THEOREM WritingIsRead == \A n \in 1..DepthBound : WrittenFine(n)
<1> DEFINE U == {n \in 0..DepthBound : WrittenFine(n)}
<1>1. DepthBound \in Nat
  BY DepthAssumption
<1>2. ASSUME NEW n \in 1..DepthBound, n - 1 \in U PROVE n \in U
  <2>1. ASSUME NEW v \in Documents[n], NEW level \in Nat, NEW pretty \in BOOLEAN,
               NEW w, w = Written(pretty)[n][<<v, level>>],
               NEW plain, plain = (v \in PlainDocuments[n])
        PROVE  /\ ReadBack(Symbol, w, v, plain)
               /\ v.type \in {"array", "object"} => ReadInWhole(Symbol, w, v, plain)
    <3> DEFINE D == Documents[n - 1]
               P == PlainDocuments[n - 1]
               written == Written(pretty)[n - 1]
    <3>1. ValueOf(v, Symbol, D) /\ (plain => PlainOver(v, P))
      BY <2>1, DocumentIs
    <3>2. w = WrittenWith(written, pretty, v, level)
      <4>1. n \in 0..DepthBound
        BY <1>1
      <4>2. QED
        BY <2>1, <4>1, WrittenIs
    <3>3. ASSUME NEW i \in 1..Len(v.items)
          PROVE  ReadBack(Symbol, written[<<v.items[i], level + 1>>], v.items[i], v.items[i] \in P)
      <4>1. v.items[i] \in D /\ level + 1 \in Nat
        BY <3>1, ValuesAre
      <4>2. WrittenFine(n - 1)
        BY <1>2
      <4>3. QED
        BY <4>1, <4>2 DEF WrittenFine
    <3> HIDE DEF D, P, written
    <3>4. QED
      BY ONLY <3>1, <3>2, <3>3, LevelBack, SymbolsSpell, pretty \in BOOLEAN, level \in Nat
  <2>2. WrittenFine(n)
    BY <2>1 DEF WrittenFine
  <2>3. QED
    BY <2>2
<1>3. 0 \in U
  <2>1. 0 \in 0..DepthBound
    BY <1>1
  <2>2. Documents[0] = {}
    BY <2>1, DocumentLevels DEF Documents
  <2>3. QED
    BY <2>1, <2>2 DEF WrittenFine
<1>4. \A n \in 1..DepthBound : n \in U
  <2>1. CASE DepthBound >= 1
    <3>1. 1 \in U
      <4>1. 1 \in 1..DepthBound /\ 1 - 1 = 0
        BY <1>1, <2>1
      <4>2. QED
        BY <1>2, <1>3, <4>1
    <3>2. \A n \in 2..DepthBound : n - 1 \in U => n \in U
      BY <1>2
    <3> HIDE DEF U
    <3>3. QED
      BY ONLY <1>1, <3>1, <3>2, Upwards
  <2>2. QED
    BY <2>1, DepthAssumption
<1>5. QED
  BY <1>4

LEMMA CutAgrees ==
  ASSUME NEW S, NEW w \in Seq(S), NEW k \in 0..Len(w)
  PROVE  /\ SubSeq(w, 1, k) \in Seq(S) /\ Len(SubSeq(w, 1, k)) = k
         /\ Agrees(SubSeq(w, 1, k), 1, w)
<1> DEFINE t == SubSeq(w, 1, k)
<1>1. Len(w) \in Nat /\ k \in Nat /\ k <= Len(w)
  BY TextIs
<1>2. t \in Seq(S) /\ Len(t) = k /\ \A i \in 1..k : t[i] = w[1 + i - 1]
  BY <1>1, PartIs
<1> HIDE DEF t
<1>3. ASSUME NEW i \in 1..Len(w), 1 + i - 1 <= Len(t) PROVE t[1 + i - 1] = w[i]
  <2>1. i \in 1..k /\ 1 + i - 1 = i
    BY <1>1, <1>2, <1>3
  <2>2. QED
    BY <1>2, <2>1
<1>4. Agrees(t, 1, w)
  BY <1>3 DEF Agrees
<1>5. QED
  BY <1>2, <1>4 DEF t

\* What a whole writing, and a part of one, is read as.
LEMMA WritingParsed ==
  ASSUME NEW v \in Documents[DepthBound], NEW pretty \in BOOLEAN,
         NEW w, w = Written(pretty)[DepthBound][<<v, 0>>]
  PROVE  /\ w \in Seq(Symbol) /\ Parse(w).next = Len(w) + 1
         /\ v \in PlainDocuments[DepthBound] => Parse(w).value = v
         /\ v.type \in {"array", "object"} =>
              \A k \in 0..(Len(w) - 1) : ~Ok(Parse(SubSeq(w, 1, k)))
<1> DEFINE plain == v \in PlainDocuments[DepthBound]
<1>1. /\ ReadBack(Symbol, w, v, plain)
      /\ v.type \in {"array", "object"} => ReadInWhole(Symbol, w, v, plain)
  <2>1. DepthBound \in 1..DepthBound /\ 0 \in Nat
    BY DepthAssumption
  <2>2. QED
    BY <2>1, WritingIsRead DEF WrittenFine
<1> HIDE DEF plain
<1>2. w \in Seq(Symbol) /\ Len(w) \in Nat
  BY <1>1, TextIs DEF ReadBack
<1>3. Parse(w).next = Len(w) + 1 /\ (plain => Parse(w).value = v)
  <2>1. Agrees(w, 1, w) /\ 1 \in 1..(Len(w) + 1)
    BY <1>2, AgreesItself
  <2>2. ValueFine(w, 1, 1 + Len(w), v, plain)
    BY <1>1, <1>2, <2>1 DEF ReadBack
  <2>3. 1 + Len(w) <= Len(w) + 1 /\ ~(1 + Len(w) <= Len(w)) /\ 1 + Len(w) = Len(w) + 1
    BY <1>2
  <2>4. QED
    BY <2>2, <2>3 DEF ValueFine, Parse
<1>4. ASSUME v.type \in {"array", "object"}, NEW k \in 0..(Len(w) - 1)
      PROVE  ~Ok(Parse(SubSeq(w, 1, k)))
  <2> DEFINE t == SubSeq(w, 1, k)
  <2>1. t \in Seq(Symbol) /\ Len(t) = k /\ Agrees(t, 1, w)
    <3>1. k \in 0..Len(w)
      BY <1>2
    <3>2. QED
      BY <1>2, <3>1, CutAgrees
  <2> HIDE DEF t
  <2>2. 1 \in 1..(Len(t) + 1) /\ 1 + Len(w) > Len(t) + 1
    BY <1>2, <2>1
  <2>3. ListFine(t, 1, 1 + Len(w), v, plain)
    BY <1>1, <1>4, <2>1, <2>2 DEF ReadInWhole
  <2>4. Parse(t).next = 0
    BY <2>2, <2>3 DEF ListFine, Parse
  <2>5. QED
    BY <2>4 DEF Ok, t
<1>5. QED
  BY <1>2, <1>3, <1>4 DEF plain

-----------------------------------------------------------------------------
(* Keys and what is set under them.                                        *)

\* The first place of a key, which At chooses.
FirstAt(o, k, i) == /\ i \in DOMAIN o.keys /\ o.keys[i] = k
                    /\ \A j \in 1..(i - 1) : o.keys[j] # k

LEMMA AtIs ==
  ASSUME NEW o, NEW S, o.keys \in Seq(S), NEW k
  PROVE  /\ Has(o, k) => FirstAt(o, k, At(o, k))
         /\ \A i : FirstAt(o, k, i) => i = At(o, k)
<1>1. DOMAIN o.keys = 1..Len(o.keys) /\ Len(o.keys) \in Nat
  BY TextIs
<1>2. At(o, k) = CHOOSE i \in DOMAIN o.keys : o.keys[i] = k /\ \A j \in 1..(i - 1) : o.keys[j] # k
  BY DEF At
<1>3. ASSUME NEW i, FirstAt(o, k, i), NEW h, FirstAt(o, k, h) PROVE i = h
  <2>1. i \in 1..Len(o.keys) /\ h \in 1..Len(o.keys)
    BY <1>1, <1>3 DEF FirstAt
  <2>2. ~(i \in 1..(h - 1)) /\ ~(h \in 1..(i - 1))
    BY <1>3 DEF FirstAt
  <2>3. QED
    BY <1>1, <2>1, <2>2
<1>4. ASSUME NEW i, FirstAt(o, k, i) PROVE FirstAt(o, k, At(o, k))
  BY <1>2, <1>4, Zenon DEF FirstAt
<1>5. ASSUME Has(o, k) PROVE \E i : FirstAt(o, k, i)
  <2> DEFINE T == {i \in 1..Len(o.keys) : o.keys[i] = k}
  <2>1. T \in SUBSET Nat /\ T # {}
    BY <1>1, <1>5 DEF Has
  <2>2. PICK i \in T : \A j \in T : i <= j
    BY <2>1, Least
  <2>3. \A j \in 1..(i - 1) : o.keys[j] # k
    <3>1. ASSUME NEW j \in 1..(i - 1), o.keys[j] = k PROVE FALSE
      <4>1. j \in T /\ ~(i <= j)
        BY <1>1, <3>1
      <4>2. QED
        BY <2>2, <4>1
    <3>2. QED
      BY <3>1
  <2>4. FirstAt(o, k, i)
    BY <1>1, <2>3 DEF FirstAt
  <2>5. QED
    BY <2>4
<1>6. QED
  BY <1>3, <1>4, <1>5

\* An object: as many keys as items, none of them twice.
ObjectOf(o, S, D) ==
  /\ o = Object(o.keys, o.items) /\ o.keys \in Seq(S) /\ o.items \in Seq(D)
  /\ Len(o.keys) = Len(o.items)
KeysDiffer(o) == \A i, j \in DOMAIN o.keys : o.keys[i] = o.keys[j] => i = j

LEMMA ObjectIs ==
  ASSUME NEW ks, NEW vs
  PROVE  Object(ks, vs).keys = ks /\ Object(ks, vs).items = vs
BY DEF Object, Value

\* The two ways of setting a key.
With(s, x) == Append(s, x)

LEMMA WithKeyThere ==
  ASSUME NEW S, NEW D, NEW o, ObjectOf(o, S, D), NEW k, NEW v, Has(o, k)
  PROVE  WithKey(o, k, v) = Object(o.keys, [o.items EXCEPT ![At(o, k)] = v])
<1>1. o = Value("object", <<>>, o.keys, o.items)
  BY DEF ObjectOf, Object
<1>2. [o EXCEPT !.items[At(o, k)] = v] =
        Value("object", <<>>, o.keys, [o.items EXCEPT ![At(o, k)] = v])
  BY <1>1 DEF Value
<1>3. QED
  BY <1>2, Zenon DEF WithKey, Object

LEMMA WithKeyNew ==
  ASSUME NEW S, NEW D, NEW o, ObjectOf(o, S, D), NEW k, NEW v, ~Has(o, k)
  PROVE  WithKey(o, k, v) = Object(With(o.keys, k), With(o.items, v))
<1> DEFINE ks == With(o.keys, k)
           vs == With(o.items, v)
<1> HIDE DEF ks, vs
<1>1. Changed(o, ks, vs) = Value("object", <<>>, ks, vs)
  <2>1. o = Value("object", <<>>, o.keys, o.items)
    BY DEF ObjectOf, Object
  <2>2. QED
    BY <2>1, ValueChanged
<1>2. WithKey(o, k, v) = Changed(o, ks, vs)
  BY Zenon DEF WithKey, Changed, ks, vs, With
<1>3. QED
  BY <1>1, <1>2 DEF Object, ks, vs

\* Setting a key gives an object that has this value there, and is otherwise the same.
LEMMA SetKey ==
  ASSUME NEW S, NEW D, NEW o, ObjectOf(o, S, D), NEW k \in S, NEW v \in D,
         NEW r, r = WithKey(o, k, v)
  PROVE  /\ ObjectOf(r, S, D) /\ (KeysDiffer(o) => KeysDiffer(r))
         /\ Member(r, k) = v
         /\ \A other : other # k => /\ Has(r, other) = Has(o, other)
                                    /\ Has(o, other) => Member(r, other) = Member(o, other)
<1> DEFINE m == Len(o.keys)
<1>1. /\ o.keys \in Seq(S) /\ o.items \in Seq(D) /\ Len(o.items) = m /\ m \in Nat
      /\ DOMAIN o.keys = 1..m /\ o.items \in [1..m -> D] /\ DOMAIN o.items = 1..m
  BY TextIs DEF ObjectOf
<1> HIDE DEF m
<1>2. CASE Has(o, k)
  <2> DEFINE a == At(o, k)
             vs == [o.items EXCEPT ![a] = v]
  <2>1. a \in 1..m /\ o.keys[a] = k
    BY <1>1, <1>2, AtIs DEF FirstAt
  <2>2. r = Object(o.keys, vs)
    BY <1>2, WithKeyThere
  <2> HIDE DEF a
  <2>3. vs \in [1..m -> D] /\ vs[a] = v /\ \A i \in 1..m : i # a => vs[i] = o.items[i]
    BY <1>1, <2>1
  <2>4. vs \in Seq(D) /\ Len(vs) = m
    BY <1>1, <2>3
  <2> HIDE DEF vs
  <2>5. r.keys = o.keys /\ r.items = vs
    BY <2>2, ObjectIs
  <2>6. ObjectOf(r, S, D)
    BY <1>1, <2>2, <2>4, <2>5 DEF ObjectOf, m
  <2>7. \A x : At(r, x) = At(o, x) /\ Has(r, x) = Has(o, x)
    BY <2>5, Zenon DEF At, Has
  <2>8. Member(r, k) = v
    BY <2>3, <2>5, <2>7 DEF Member, a
  <2>9. ASSUME NEW x, x # k, Has(o, x) PROVE Member(r, x) = Member(o, x)
    <3>1. At(o, x) \in 1..m /\ o.keys[At(o, x)] = x
      BY <1>1, <2>9, AtIs DEF FirstAt
    <3>2. At(o, x) # a
      BY <2>1, <2>9, <3>1
    <3>3. QED
      BY <2>3, <2>5, <2>7, <3>1, <3>2 DEF Member
  <2>10. KeysDiffer(o) => KeysDiffer(r)
    BY <2>5 DEF KeysDiffer
  <2>11. QED
    BY <2>6, <2>7, <2>8, <2>9, <2>10
<1>3. CASE ~Has(o, k)
  <2> DEFINE ks == With(o.keys, k)
             vs == With(o.items, v)
  <2>1. r = Object(ks, vs)
    BY <1>3, WithKeyNew
  <2>2. /\ ks \in Seq(S) /\ Len(ks) = m + 1 /\ ks[m + 1] = k
        /\ \A i \in 1..m : ks[i] = o.keys[i]
    BY <1>1 DEF m, With
  <2>3. /\ vs \in Seq(D) /\ Len(vs) = m + 1 /\ vs[m + 1] = v
        /\ \A i \in 1..m : vs[i] = o.items[i]
    BY <1>1 DEF With
  <2> HIDE DEF ks, vs
  <2>4. r.keys = ks /\ r.items = vs /\ DOMAIN r.keys = 1..(m + 1)
    BY <2>1, <2>2, ObjectIs, TextIs
  <2>5. ObjectOf(r, S, D)
    BY <2>1, <2>2, <2>3, <2>4 DEF ObjectOf
  <2>6. \A i \in 1..m : o.keys[i] # k
    BY <1>1, <1>3 DEF Has
  <2>7. Member(r, k) = v
    <3>1. FirstAt(r, k, m + 1)
      <4>1. m + 1 \in 1..(m + 1) /\ (m + 1) - 1 = m
        BY <1>1
      <4>2. \A j \in 1..m : ks[j] # k
        BY <2>2, <2>6
      <4>3. \A j \in 1..((m + 1) - 1) : r.keys[j] # k
        BY <2>4, <4>1, <4>2
      <4>4. QED
        BY <2>2, <2>4, <4>1, <4>3, Zenon DEF FirstAt
    <3>2. At(r, k) = m + 1
      BY <2>2, <2>4, <3>1, AtIs
    <3>3. QED
      BY <2>3, <2>4, <3>2 DEF Member
  <2>8. ASSUME NEW x, x # k
        PROVE  /\ Has(r, x) = Has(o, x)
               /\ Has(o, x) => Member(r, x) = Member(o, x)
    <3>1. ASSUME Has(o, x) PROVE Has(r, x) /\ Member(r, x) = Member(o, x)
      <4> DEFINE a == At(o, x)
      <4>1. a \in 1..m /\ o.keys[a] = x /\ \A j \in 1..(a - 1) : o.keys[j] # x
        BY <1>1, <3>1, AtIs DEF FirstAt
      <4> HIDE DEF a
      <4>2. a \in 1..(m + 1) /\ ks[a] = x /\ \A j \in 1..(a - 1) : ks[j] # x
        <5>1. \A j \in 1..(a - 1) : j \in 1..m
          BY <1>1, <4>1
        <5>2. QED
          BY <1>1, <2>2, <4>1, <5>1
      <4>3. FirstAt(r, x, a)
        BY <2>4, <4>2 DEF FirstAt
      <4>4. At(r, x) = a
        BY <2>2, <2>4, <4>3, AtIs
      <4>5. Has(r, x)
        BY <2>4, <4>2 DEF Has
      <4>6. QED
        BY <2>3, <2>4, <4>1, <4>4, <4>5 DEF Member, a
    <3>2. ASSUME Has(r, x) PROVE Has(o, x)
      <4>1. PICK i \in 1..(m + 1) : ks[i] = x
        BY <2>4, <3>2 DEF Has
      <4>2. i \in 1..m
        BY <1>1, <2>2, <2>8, <4>1
      <4>3. QED
        BY <1>1, <2>2, <4>1, <4>2 DEF Has
    <3>3. Has(r, x) = Has(o, x)
      BY <3>1, <3>2 DEF Has
    <3>4. QED
      BY <3>1, <3>3
  <2>9. ASSUME KeysDiffer(o) PROVE KeysDiffer(r)
    <3>1. ASSUME NEW i \in 1..(m + 1), NEW j \in 1..(m + 1), ks[i] = ks[j] PROVE i = j
      <4>1. /\ i \in 1..m \/ i = m + 1
            /\ j \in 1..m \/ j = m + 1
        BY <1>1
      <4>2. \A a, b \in 1..m : o.keys[a] = o.keys[b] => a = b
        BY <1>1, <2>9 DEF KeysDiffer
      <4>3. QED
        BY <2>2, <2>6, <3>1, <4>1, <4>2
    <3>2. QED
      BY <2>4, <3>1 DEF KeysDiffer
  <2>10. QED
    BY <2>5, <2>7, <2>8, <2>9
<1>4. QED
  BY <1>2, <1>3

-----------------------------------------------------------------------------
(* The documents of the program.                                           *)

\* A level has the values of the levels below it.
LEMMA DocumentsGrow ==
  ASSUME NEW n \in 1..DepthBound
  PROVE  Documents[n - 1] \subseteq Documents[n]
<1> DEFINE C == Seq(Character)
           U == {i \in 1..DepthBound : Documents[i - 1] \subseteq Documents[i]}
<1>1. DepthBound \in Nat /\ DepthBound >= 2
  BY DepthAssumption
<1>2. 1 \in U
  <2>1. Documents[0] = {} /\ 1 \in 1..DepthBound /\ 1 - 1 = 0
    BY <1>1, DocumentLevels DEF Documents
  <2>2. QED
    BY <2>1
<1>3. ASSUME NEW i \in 2..DepthBound, i - 1 \in U PROVE i \in U
  <2> DEFINE j == i - 1
             A == Documents[j - 1]
             B == Documents[j]
  <2>1. i \in 0..DepthBound /\ i >= 1 /\ j \in 0..DepthBound /\ j >= 1 /\ i \in 1..DepthBound
    BY <1>1
  <2>2. A \subseteq B
    BY <1>3
  <2>3. /\ Documents[i] =
             {u \in [type : Types, text : C, keys : Seq(C), items : Seq(B)] : WellFormed(u)}
        /\ Documents[j] =
             {u \in [type : Types, text : C, keys : Seq(C), items : Seq(A)] : WellFormed(u)}
    BY <2>1, DocumentLevels DEF Documents
  <2> HIDE DEF A, j
  <2>4. \A s \in Seq(A) : s \in Seq(B)
    BY <2>2, WiderSeq
  <2>5. Documents[j] \subseteq Documents[i]
    <3> HIDE DEF B
    <3>1. ASSUME NEW u \in Documents[j] PROVE u \in Documents[i]
      <4>1. /\ u \in [type : Types, text : C, keys : Seq(C), items : Seq(A)]
            /\ u.items \in Seq(A) /\ WellFormed(u)
        BY <2>3
      <4>2. u \in [type : Types, text : C, keys : Seq(C), items : Seq(B)]
        BY <2>4, <4>1
      <4>3. QED
        BY <2>3, <4>1, <4>2
    <3>2. QED
      BY <3>1
  <2>6. QED
    BY <2>1, <2>5 DEF j
<1>4. n \in U
  <2>1. \A i \in 2..DepthBound : i - 1 \in U => i \in U
    BY <1>3
  <2> HIDE DEF U
  <2>2. QED
    BY ONLY <1>1, <1>2, <2>1, Upwards, n \in 1..DepthBound
<1>5. QED
  BY <1>4

LEMMA FirstLevel ==
  ASSUME NEW n \in 1..DepthBound
  PROVE  Documents[1] \subseteq Documents[n]
<1> DEFINE U == {i \in 1..DepthBound : Documents[1] \subseteq Documents[i]}
<1>1. DepthBound \in Nat /\ DepthBound >= 2
  BY DepthAssumption
<1>2. 1 \in U
  BY <1>1
<1>3. \A i \in 2..DepthBound : i - 1 \in U => i \in U
  <2>1. ASSUME NEW i \in 2..DepthBound, i - 1 \in U PROVE i \in U
    <3>1. i \in 1..DepthBound
      BY <1>1
    <3>2. Documents[i - 1] \subseteq Documents[i]
      BY <3>1, DocumentsGrow
    <3>3. QED
      BY <2>1, <3>1, <3>2
  <2>2. QED
    BY <2>1
<1> HIDE DEF U
<1>4. n \in U
  BY ONLY <1>1, <1>2, <1>3, Upwards, n \in 1..DepthBound
<1>5. QED
  BY <1>4 DEF U

\* What a document of some level consists of, and what is one.
LEMMA LevelIs ==
  ASSUME NEW n \in 1..DepthBound
  PROVE  /\ \A v \in Documents[n] :
              /\ v.type = "array" => v = Array(v.items) /\ v.items \in Seq(Documents[n - 1])
              /\ v.type = "object" => ObjectOf(v, Seq(Character), Documents[n - 1])
              /\ v.type # "object" => v.keys = <<>>
         /\ \A vs \in Seq(Documents[n - 1]) : Array(vs) \in Documents[n]
         /\ \A o : o.type = "object" /\ ObjectOf(o, Seq(Character), Documents[n - 1]) =>
              o \in Documents[n]
         /\ Word("null") \in Documents[n]
<1> DEFINE C == Seq(Character)
           D == Documents[n - 1]
           R == [type : Types, text : C, keys : Seq(C), items : Seq(D)]
<1>1. Documents[n] = {v \in R : WellFormed(v)}
  <2>1. n \in 0..DepthBound /\ n >= 1
    BY DepthAssumption
  <2>2. QED
    BY <2>1, DocumentLevels DEF Documents
<1> HIDE DEF D
<1>2. ASSUME NEW v \in Documents[n]
      PROVE  /\ v.type = "array" => v = Array(v.items) /\ v.items \in Seq(D)
             /\ v.type = "object" => ObjectOf(v, C, D)
             /\ v.type # "object" => v.keys = <<>>
  <2>1. /\ v.type \in Types /\ v.text \in C /\ v.keys \in Seq(C) /\ v.items \in Seq(D)
        /\ v = Value(v.type, v.text, v.keys, v.items)
    BY <1>1 DEF Value
  <2>2. /\ v.type = "object" => Len(v.keys) = Len(v.items)
        /\ v.type # "object" => v.keys = <<>>
        /\ v.type \in {"array", "object"} => v.text = <<>>
    BY <1>1 DEF WellFormed
  <2>3. ASSUME v.type = "array" PROVE v = Array(v.items)
    <3>1. v.text = <<>> /\ v.keys = <<>>
      BY <2>2, <2>3
    <3>2. QED
      BY <2>1, <2>3, <3>1, Zenon DEF Array
  <2>4. ASSUME v.type = "object" PROVE v = Object(v.keys, v.items)
    <3>1. v.text = <<>>
      BY <2>2, <2>4
    <3>2. QED
      BY <2>1, <2>4, <3>1, Zenon DEF Object
  <2>5. QED
    BY <2>1, <2>2, <2>3, <2>4 DEF ObjectOf
<1>3. <<>> \in C /\ <<>> \in Seq(C) /\ <<>> \in Seq(D)
  OBVIOUS
<1>4. ASSUME NEW vs \in Seq(D) PROVE Array(vs) \in Documents[n]
  <2>1. Array(vs) \in R
    BY <1>3 DEF Array, Value, Types
  <2>2. WellFormed(Array(vs))
    BY DEF Array, Value, WellFormed
  <2>3. QED
    BY <1>1, <2>1, <2>2
<1>5. ASSUME NEW o, o.type = "object", ObjectOf(o, C, D) PROVE o \in Documents[n]
  <2> DEFINE ks == o.keys
             vs == o.items
  <2>1. ks \in Seq(C) /\ vs \in Seq(D) /\ Len(ks) = Len(vs) /\ o = Object(ks, vs)
    BY <1>5 DEF ObjectOf
  <2> HIDE DEF ks, vs
  <2>2. Object(ks, vs) \in R
    BY <1>3, <2>1 DEF Object, Value, Types
  <2>3. WellFormed(Object(ks, vs))
    BY <2>1 DEF Object, Value, WellFormed
  <2>4. QED
    BY <1>1, <2>1, <2>2, <2>3
<1>6. Word("null") \in Documents[n]
  <2>1. Word("null") \in R
    BY <1>3 DEF Word, Value, Types, Words
  <2>2. WellFormed(Word("null"))
    BY DEF Word, Value, WellFormed
  <2>3. QED
    BY <1>1, <2>1, <2>2
<1>7. QED
  BY <1>2, <1>4, <1>5, <1>6 DEF D

\* What the program has written, compact or pretty.
Writings(v) == {Stringify(v), StringifyPretty(v)}

DocInv ==
  /\ state \in States
  /\ doc \in Documents[DepthBound]
  /\ KeysDiffer(doc)
  /\ state = "written" => text \in Writings(doc)
  /\ state = "cut" => \E w \in Writings(doc) : \E k \in 0..(Len(w) - 1) : text = SubSeq(w, 1, k)

LEMMA EmptiesAre ==
  ASSUME NEW D
  PROVE  /\ <<>> \in Seq(D)
         /\ Array(<<>>).items = <<>> /\ Array(<<>>).type = "array"
         /\ ObjectOf(Object(<<>>, <<>>), Seq(Character), D) /\ KeysDiffer(Object(<<>>, <<>>))
         /\ Object(<<>>, <<>>).type = "object" /\ Word("null").keys = <<>>
<1>1. <<>> \in Seq(D) /\ <<>> \in Seq(Seq(Character)) /\ DOMAIN <<>> = {}
  OBVIOUS
<1>2. ObjectOf(Object(<<>>, <<>>), Seq(Character), D)
  BY <1>1, ObjectIs DEF ObjectOf
<1>3. KeysDiffer(Object(<<>>, <<>>))
  BY <1>1, ObjectIs DEF KeysDiffer
<1>4. /\ Array(<<>>).items = <<>> /\ Array(<<>>).type = "array"
      /\ Object(<<>>, <<>>).type = "object" /\ Word("null").keys = <<>>
  BY DEF Array, Object, Word, Value
<1>5. QED
  BY <1>1, <1>2, <1>3, <1>4

\* The documents that a step builds: an item more, a key that is set, or a level more.
LEMMA AppendedIs ==
  ASSUME NEW n \in 1..DepthBound, NEW a \in Documents[n], a.type = "array",
         NEW v \in Documents[n - 1]
  PROVE  Appended(a, v) \in Documents[n] /\ KeysDiffer(Appended(a, v))
<1> DEFINE vs == a.items
           wt == Append(vs, v)
<1>1. a = Array(vs) /\ vs \in Seq(Documents[n - 1])
  BY LevelIs
<1>2. wt \in Seq(Documents[n - 1])
  <2> DEFINE D == Documents[n - 1]
  <2>1. vs \in Seq(D) /\ v \in D
    BY <1>1
  <2> HIDE DEF D, vs
  <2>2. Append(vs, v) \in Seq(D)
    BY <2>1
  <2>3. QED
    BY <2>2, Zenon DEF D
<1> HIDE DEF wt
<1>3. [a EXCEPT !.items = wt] = Array(wt)
  BY <1>1 DEF Array, Value
<1>4. Appended(a, v) = Array(wt)
  BY <1>3, Zenon DEF Appended, wt
<1>5. KeysDiffer(Array(wt))
  <2>1. Array(wt).keys = <<>> /\ DOMAIN <<>> = {}
    BY DEF Array, Value
  <2>2. QED
    BY <2>1 DEF KeysDiffer
<1>6. QED
  BY <1>2, <1>4, <1>5, LevelIs

LEMMA WithKeyStays ==
  ASSUME NEW n \in 1..DepthBound, NEW o, o.type = "object",
         ObjectOf(o, Seq(Character), Documents[n - 1]), KeysDiffer(o),
         NEW k \in Seq(Character), NEW v \in Documents[n - 1]
  PROVE  WithKey(o, k, v) \in Documents[n] /\ KeysDiffer(WithKey(o, k, v))
<1> DEFINE r == WithKey(o, k, v)
           D == Documents[n - 1]
<1> HIDE DEF D
<1>1. ObjectOf(r, Seq(Character), D) /\ KeysDiffer(r)
  BY SetKey DEF D
<1>2. r.type = "object"
  <2>1. r = Object(r.keys, r.items)
    BY <1>1 DEF ObjectOf
  <2> DEFINE ks == r.keys
             vs == r.items
  <2> HIDE DEF r, ks, vs
  <2>2. Object(ks, vs).type = "object"
    BY DEF Object, Value
  <2>3. QED
    BY <2>1, <2>2 DEF ks, vs
<1> HIDE DEF r
<1>3. r \in Documents[n]
  BY <1>1, <1>2, LevelIs DEF D
<1>4. QED
  BY <1>1, <1>3 DEF r

LEMMA BuiltIs ==
  ASSUME doc \in Documents[DepthBound], KeysDiffer(doc), NEW d \in Extensions
  PROVE  d \in Documents[DepthBound] /\ KeysDiffer(d)
<1> DEFINE n == DepthBound
           D == Documents[n - 1]
<1>1. n \in 1..DepthBound /\ n - 1 \in 1..DepthBound
  BY DepthAssumption
<1>2. Leaves \subseteq D /\ Keys \subseteq Seq(Character)
  BY <1>1, FirstLevel, DocumentsAssumption
<1> HIDE DEF n, D
<1>3. \/ doc.type = "array" /\ \E v \in Leaves : d = Appended(doc, v)
      \/ doc.type = "object" /\ \E k \in Keys, v \in Leaves : d = WithKey(doc, k, v)
      \/ doc \in D /\ d = Appended(Array(<<>>), doc)
      \/ doc \in D /\ \E k \in Keys : d = WithKey(Object(<<>>, <<>>), k, doc)
  BY DEF Extensions, D, n
<1>4. /\ Array(<<>>) \in Documents[n] /\ Array(<<>>).type = "array"
      /\ ObjectOf(Object(<<>>, <<>>), Seq(Character), D) /\ KeysDiffer(Object(<<>>, <<>>))
      /\ Object(<<>>, <<>>).type = "object" /\ doc \in Documents[n]
      /\ doc.type = "object" => ObjectOf(doc, Seq(Character), D)
  BY <1>1, EmptiesAre, LevelIs DEF D, n
<1>5. CASE doc.type = "array" /\ \E v \in Leaves : d = Appended(doc, v)
  BY <1>1, <1>2, <1>4, <1>5, AppendedIs DEF D, n
<1>6. CASE doc.type = "object" /\ \E k \in Keys, v \in Leaves : d = WithKey(doc, k, v)
  BY <1>1, <1>2, <1>4, <1>6, WithKeyStays DEF D, n
<1>7. CASE doc \in D /\ d = Appended(Array(<<>>), doc)
  BY <1>1, <1>4, <1>7, AppendedIs DEF D, n
<1>8. CASE doc \in D /\ \E k \in Keys : d = WithKey(Object(<<>>, <<>>), k, doc)
  BY <1>1, <1>2, <1>4, <1>8, WithKeyStays DEF D, n
<1>9. QED
  BY <1>3, <1>5, <1>6, <1>7, <1>8

LEMMA DocInvInit == DocInit => DocInv
<1> SUFFICES ASSUME DocInit PROVE DocInv
  OBVIOUS
<1> DEFINE n == DepthBound
<1>1. n \in 1..DepthBound /\ 1 \in 1..DepthBound
  BY DepthAssumption
<1>2. state \in {"typing", "building"}
      /\ doc \in Leaves \cup {Word("null"), Array(<<>>), Object(<<>>, <<>>)}
  BY DEF DocInit
<1>3. Leaves \subseteq Documents[n]
  BY <1>1, FirstLevel, DocumentsAssumption
<1>4. /\ {Word("null"), Array(<<>>), Object(<<>>, <<>>)} \subseteq Documents[n]
      /\ Word("null").keys = <<>> /\ KeysDiffer(Object(<<>>, <<>>))
  BY <1>1, EmptiesAre, LevelIs
<1>5. doc \in Documents[DepthBound]
  BY <1>2, <1>3, <1>4
<1>6. KeysDiffer(doc)
  <2>1. ASSUME doc.keys = <<>> PROVE KeysDiffer(doc)
    <3>1. DOMAIN <<>> = {}
      OBVIOUS
    <3>2. QED
      BY <2>1, <3>1 DEF KeysDiffer
  <2>2. doc \in Leaves => doc.keys = <<>>
    <3>1. ASSUME doc \in Documents[1] PROVE doc.keys = <<>>
      <4>1. CASE doc.type = "object"
        <5>1. ObjectOf(doc, Seq(Character), Documents[0])
          BY <1>1, <3>1, <4>1, LevelIs
        <5>2. Documents[0] = {}
          BY <1>1, DocumentLevels DEF Documents
        <5>3. doc.items \in Seq({}) /\ Len(doc.keys) = Len(doc.items)
              /\ doc.keys \in Seq(Seq(Character))
          BY <5>1, <5>2 DEF ObjectOf
        <5>4. Len(doc.items) = 0
          <6>1. Len(doc.items) \in Nat /\ \A i \in 1..Len(doc.items) : doc.items[i] \in {}
            BY <5>3, TextIs
          <6>2. QED
            BY <6>1
        <5>5. QED
          BY <5>3, <5>4
      <4>2. CASE doc.type # "object"
        BY <1>1, <3>1, <4>2, LevelIs
      <4>3. QED
        BY <4>1, <4>2
    <3>2. QED
      BY <3>1, DocumentsAssumption
  <2>3. doc = Array(<<>>) => doc.keys = <<>>
    BY DEF Array, Value
  <2>4. QED
    BY <1>2, <1>4, <2>1, <2>2, <2>3
<1>7. QED
  BY <1>2, <1>5, <1>6 DEF DocInv, States

LEMMA DocInvNext == DocInv /\ [DocNext]_docVars => DocInv'
<1> SUFFICES ASSUME DocInv, [DocNext]_docVars PROVE DocInv'
  OBVIOUS
<1>1. ASSUME NEW c \in Alphabet, Type(c) PROVE DocInv'
  <2>1. state = "typing" /\ UNCHANGED <<doc, state>>
    BY <1>1 DEF Type
  <2>2. QED
    BY <2>1 DEF DocInv
<1>2. ASSUME Build PROVE DocInv'
  <2>1. state = "building" /\ doc' \in Extensions /\ state' = state
    BY <1>2 DEF Build
  <2>2. doc' \in Documents[DepthBound] /\ KeysDiffer(doc')
    BY <2>1, BuiltIs DEF DocInv
  <2>3. KeysDiffer(doc)'
    BY <2>2 DEF KeysDiffer
  <2>4. QED
    BY <2>1, <2>2, <2>3 DEF DocInv
<1>3. ASSUME Write PROVE DocInv'
  <2>1. state' = "written" /\ doc' = doc /\ text' \in Writings(doc)
    BY <1>3 DEF Write, Writings
  <2>2. (text \in Writings(doc))'
    BY <2>1 DEF Writings
  <2>3. KeysDiffer(doc)'
    BY <2>1 DEF DocInv, KeysDiffer
  <2>4. QED
    BY <2>1, <2>2, <2>3 DEF DocInv, States
<1>4. ASSUME CutShort PROVE DocInv'
  <2>1. PICK k \in 0..(Len(text) - 1) : text' = SubSeq(text, 1, k)
    BY <1>4 DEF CutShort
  <2>2. state = "written" /\ state' = "cut" /\ doc' = doc
    BY <1>4 DEF CutShort
  <2>3. text \in Writings(doc)
    BY <2>2 DEF DocInv
  <2>4. \E w \in Writings(doc) : \E j \in 0..(Len(w) - 1) : text' = SubSeq(w, 1, j)
    BY <2>1, <2>3
  <2>5. (\E w \in Writings(doc) : \E j \in 0..(Len(w) - 1) : text = SubSeq(w, 1, j))'
    BY <2>2, <2>4 DEF Writings
  <2>6. KeysDiffer(doc)'
    BY <2>2 DEF DocInv, KeysDiffer
  <2>7. QED
    BY <2>2, <2>5, <2>6 DEF DocInv, States
<1>5. ASSUME UNCHANGED docVars PROVE DocInv'
  BY <1>5 DEF DocInv, docVars, KeysDiffer, Writings
<1>6. QED
  BY <1>1, <1>2, <1>3, <1>4, <1>5 DEF DocNext

LEMMA DocInvAlways == DocSpec => []DocInv
<1>1. DocInit => DocInv
  BY DocInvInit
<1>2. DocInv /\ [DocNext]_docVars => DocInv'
  BY DocInvNext
<1>3. QED
  BY <1>1, <1>2, PTL DEF DocSpec

-----------------------------------------------------------------------------
(* The properties of the run "json".                                       *)

\* What is written of a document is Written of one of the two kinds.
LEMMA WritingOf ==
  ASSUME NEW v, NEW w \in Writings(v)
  PROVE  \E pretty \in BOOLEAN : w = Written(pretty)[DepthBound][<<v, 0>>]
<1>1. CASE w = Stringify(v)
  <2>1. FALSE \in BOOLEAN /\ w = Written(FALSE)[DepthBound][<<v, 0>>]
    BY <1>1 DEF Stringify
  <2>2. QED
    BY <2>1
<1>2. CASE w = StringifyPretty(v)
  <2>1. TRUE \in BOOLEAN /\ w = Written(TRUE)[DepthBound][<<v, 0>>]
    BY <1>2 DEF StringifyPretty
  <2>2. QED
    BY <2>1
<1>3. QED
  BY <1>1, <1>2 DEF Writings

(***************************************************************************)
(* Whatever program of json_array_append and json_object_set has built a   *)
(* document, and however json_stringify or json_stringify_pretty wrote it, *)
(* json_parse reads the text to its last symbol, and reads that document   *)
(* when no string in it has a character that is escaped.                   *)
(***************************************************************************)
THEOREM RoundTripAlways == DocSpec => []RoundTrip
<1>1. DocInv => RoundTrip
  <2> SUFFICES ASSUME DocInv, state = "written"
               PROVE  /\ Parse(text).next = Len(text) + 1
                      /\ doc \in PlainDocuments[DepthBound] => Parse(text).value = doc
    BY DEF RoundTrip
  <2>1. doc \in Documents[DepthBound] /\ text \in Writings(doc)
    BY DEF DocInv
  <2>2. PICK pretty \in BOOLEAN : text = Written(pretty)[DepthBound][<<doc, 0>>]
    BY <2>1, WritingOf
  <2>3. QED
    BY <2>1, <2>2, WritingParsed
<1>2. QED
  BY <1>1, DocInvAlways, PTL

(***************************************************************************)
(* A crash while an array or object is written leaves a text that          *)
(* json_parse refuses, at whatever symbol the text ends.                   *)
(***************************************************************************)
THEOREM CutIsRefusedAlways == DocSpec => []CutIsRefused
<1>1. DocInv => CutIsRefused
  <2> SUFFICES ASSUME DocInv, state = "cut", doc.type \in {"array", "object"}
               PROVE  ~Ok(Parse(text))
    BY DEF CutIsRefused
  <2>1. doc \in Documents[DepthBound]
    BY DEF DocInv
  <2>2. PICK w \in Writings(doc) : \E k \in 0..(Len(w) - 1) : text = SubSeq(w, 1, k)
    BY DEF DocInv
  <2>3. PICK k \in 0..(Len(w) - 1) : text = SubSeq(w, 1, k)
    BY <2>2
  <2>4. PICK pretty \in BOOLEAN : w = Written(pretty)[DepthBound][<<doc, 0>>]
    BY <2>2, WritingOf
  <2>5. ~Ok(Parse(SubSeq(w, 1, k)))
    BY <2>1, <2>3, <2>4, WritingParsed
  <2>6. QED
    BY <2>3, <2>5
<1>2. QED
  BY <1>1, DocInvAlways, PTL

(***************************************************************************)
(* In every document that is built no key comes twice, and json_object_set *)
(* changes what json_object_get finds under its own key only.              *)
(***************************************************************************)
THEOREM SetThenGetAlways == DocSpec => []SetThenGet
<1>1. DocInv => SetThenGet
  <2> DEFINE D == Documents[DepthBound - 1]
  <2> SUFFICES ASSUME DocInv, doc.type = "object"
               PROVE  /\ \A i, j \in DOMAIN doc.keys : doc.keys[i] = doc.keys[j] => i = j
                      /\ \A k \in Keys, v \in Leaves :
                           LET set == WithKey(doc, k, v)
                           IN  /\ Member(set, k) = v
                               /\ \A other \in Keys \ {k} :
                                    /\ Has(set, other) = Has(doc, other)
                                    /\ Has(doc, other) => Member(set, other) = Member(doc, other)
    BY DEF SetThenGet
  <2>1. DepthBound \in 1..DepthBound /\ DepthBound - 1 \in 1..DepthBound
    BY DepthAssumption
  <2>2. doc \in Documents[DepthBound] /\ KeysDiffer(doc)
    BY DEF DocInv
  <2>3. Leaves \subseteq D /\ Keys \subseteq Seq(Character)
    <3>1. Documents[1] \subseteq D
      BY <2>1, FirstLevel
    <3>2. QED
      BY <3>1, DocumentsAssumption
  <2>4. ObjectOf(doc, Seq(Character), D)
    BY <2>1, <2>2, LevelIs
  <2> HIDE DEF D
  <2>5. ASSUME NEW k \in Keys, NEW v \in Leaves
        PROVE  /\ Member(WithKey(doc, k, v), k) = v
               /\ \A other \in Keys \ {k} :
                    /\ Has(WithKey(doc, k, v), other) = Has(doc, other)
                    /\ Has(doc, other) => Member(WithKey(doc, k, v), other) = Member(doc, other)
    <3>1. k \in Seq(Character) /\ v \in D
      BY <2>3
    <3>2. /\ Member(WithKey(doc, k, v), k) = v
          /\ \A other : other # k =>
               /\ Has(WithKey(doc, k, v), other) = Has(doc, other)
               /\ Has(doc, other) => Member(WithKey(doc, k, v), other) = Member(doc, other)
      BY <2>4, <3>1, SetKey
    <3>3. QED
      BY <3>2
  <2>6. \A i, j \in DOMAIN doc.keys : doc.keys[i] = doc.keys[j] => i = j
    BY <2>2 DEF KeysDiffer
  <2>7. QED
    BY <2>5, <2>6
<1>2. QED
  BY <1>1, DocInvAlways, PTL

-----------------------------------------------------------------------------
(* The grammar: which stretches of a text are what.                        *)

Stretches(t) == Kinds \X (1..(Len(t) + 1)) \X (1..(Len(t) + 1))

\* The stretch of the symbols from c to before d, without the blanks around it.
IsCore(t, c, d, is) ==
  \/ d = c + 1 /\ t[c] \in Words
  \/ IsNumber(SubSeq(t, c, d - 1))
  \/ IsString(t, c, d)
  \/ \E kind \in Loops : /\ Enclosed(t, c, d, OpenOf(kind), CloseOf(kind))
                         /\ Blanks(t, c + 1, d - 1) \/ is[<<kind, c + 1, d - 1>>]

LEMMA ValueIsCore ==
  ASSUME NEW t, NEW i, NEW j, NEW is
  PROVE  IsValue(t, i, j, is) <=>
           \E c, d \in i..j : c < d /\ Blanks(t, i, c) /\ Blanks(t, d, j) /\ IsCore(t, c, d, is)
<1> DEFINE word(c, d) == d = c + 1 /\ t[c] \in Words
           number(c, d) == IsNumber(SubSeq(t, c, d - 1))
           array(c, d) == /\ Enclosed(t, c, d, OpenArray, CloseArray)
                          /\ Blanks(t, c + 1, d - 1) \/ is[<<"items", c + 1, d - 1>>]
           object(c, d) == /\ Enclosed(t, c, d, OpenObject, CloseObject)
                           /\ Blanks(t, c + 1, d - 1) \/ is[<<"members", c + 1, d - 1>>]
           core(c, d) == word(c, d) \/ number(c, d) \/ IsString(t, c, d) \/ array(c, d) \/ object(c, d)
<1>1. IsValue(t, i, j, is) <=>
        \E c, d \in i..j : c < d /\ Blanks(t, i, c) /\ Blanks(t, d, j) /\ core(c, d)
  BY Zenon DEF IsValue, OpenArray, CloseArray, OpenObject, CloseObject
<1>2. ASSUME NEW c, NEW d PROVE IsCore(t, c, d, is) <=> core(c, d)
  <2> DEFINE of(kind) == /\ Enclosed(t, c, d, OpenOf(kind), CloseOf(kind))
                         /\ Blanks(t, c + 1, d - 1) \/ is[<<kind, c + 1, d - 1>>]
  <2>1. /\ OpenOf("items") = OpenArray /\ CloseOf("items") = CloseArray
        /\ OpenOf("members") = OpenObject /\ CloseOf("members") = CloseObject
    BY DEF OpenOf, CloseOf
  <2>2. (of("items") <=> array(c, d)) /\ (of("members") <=> object(c, d))
    BY <2>1, Zenon
  <2>3. (\E kind \in Loops : of(kind)) <=> of("items") \/ of("members")
    <3> HIDE DEF of
    <3>1. QED
      BY DEF Loops
  <2>4. IsCore(t, c, d, is) <=>
          word(c, d) \/ number(c, d) \/ IsString(t, c, d) \/ \E kind \in Loops : of(kind)
    BY Zenon DEF IsCore
  <2> HIDE DEF of, word, number, array, object
  <2>5. QED
    BY <2>2, <2>3, <2>4
<1> HIDE DEF core
<1>3. QED
  BY <1>1, <1>2, Zenon

\* The rules are about larger stretches the more smaller ones are known.
LEMMA PartGrows ==
  ASSUME NEW S, NEW t \in Seq(S), NEW f, NEW g, NEW part \in Stretches(t),
         \A x \in Stretches(t) : f[x] => g[x], IsPart(t, part, f)
  PROVE  IsPart(t, part, g)
<1> DEFINE n == Len(t)
           P == 1..(n + 1)
<1>1. n \in Nat
  BY TextIs
<1>2. PICK kind \in Kinds, i \in P, j \in P : part = <<kind, i, j>>
  BY DEF Stretches
<1>3. /\ IsPart(t, part, f) <=> IF kind = "value" THEN IsValue(t, i, j, f) ELSE AreEntries(t, kind, i, j, f)
      /\ IsPart(t, part, g) <=> IF kind = "value" THEN IsValue(t, i, j, g) ELSE AreEntries(t, kind, i, j, g)
  BY <1>2, Zenon DEF IsPart
<1>4. \A k \in Kinds, a \in P, b \in P : f[<<k, a, b>>] => g[<<k, a, b>>]
  BY DEF Stretches
<1>5. ASSUME IsValue(t, i, j, f) PROVE IsValue(t, i, j, g)
  <2>1. PICK c \in i..j, d \in i..j : c < d /\ Blanks(t, i, c) /\ Blanks(t, d, j) /\ IsCore(t, c, d, f)
    BY <1>5, ValueIsCore, Zenon
  <2>2. ASSUME NEW k \in Loops, Enclosed(t, c, d, OpenOf(k), CloseOf(k)), f[<<k, c + 1, d - 1>>]
        PROVE  g[<<k, c + 1, d - 1>>]
    <3>1. k \in Kinds /\ c + 1 \in P /\ d - 1 \in P
      BY <1>1, <2>2, LoopsAre DEF Enclosed
    <3>2. QED
      BY <1>4, <2>2, <3>1
  <2>3. IsCore(t, c, d, g)
    BY <2>1, <2>2, Zenon DEF IsCore
  <2>4. QED
    BY <2>1, <2>3, ValueIsCore, Zenon
<1>6. ASSUME NEW k, NEW b \in i..j, IsEntry(t, k, i, b, f) PROVE IsEntry(t, k, i, b, g)
  <2>0. b \in P
    BY <1>1
  <2>1. CASE k = "items" /\ f[<<"value", i, b>>]
    <3>1. g[<<"value", i, b>>]
      BY <1>4, <2>0, <2>1, KindsAre
    <3>2. QED
      BY <2>1, <3>1 DEF IsEntry
  <2>2. CASE k = "members" /\ \E m \in i..(b - 1) : t[m] = ":" /\ IsKey(t, i, m) /\ f[<<"value", m + 1, b>>]
    <3>1. PICK m \in i..(b - 1) : t[m] = ":" /\ IsKey(t, i, m) /\ f[<<"value", m + 1, b>>]
      BY <2>2, Zenon
    <3>2. m + 1 \in P
      BY <1>1
    <3>3. g[<<"value", m + 1, b>>]
      BY <1>4, <2>0, <3>1, <3>2, KindsAre
    <3>4. QED
      BY <2>2, <3>1, <3>3, Zenon DEF IsEntry
  <2>3. QED
    BY <1>6, <2>1, <2>2, Zenon DEF IsEntry
<1>7. ASSUME AreEntries(t, kind, i, j, f) PROVE AreEntries(t, kind, i, j, g)
  <2>1. CASE IsEntry(t, kind, i, j, f)
    <3>1. j \in i..j \/ j < i
      BY <1>1
    <3>2. CASE j \in i..j
      BY <1>6, <2>1, <3>2, Zenon DEF AreEntries
    <3>3. CASE j < i
      <4>1. CASE kind = "items" /\ f[<<"value", i, j>>]
        <5>1. g[<<"value", i, j>>]
          BY <1>4, <4>1, KindsAre
        <5>2. IsEntry(t, kind, i, j, g)
          BY <4>1, <5>1, Zenon DEF IsEntry
        <5>3. QED
          BY <5>2, Zenon DEF AreEntries
      <4>2. CASE kind # "items"
        <5>1. i..(j - 1) = {}
          BY <1>1, <3>3
        <5>2. QED
          BY <2>1, <4>2, <5>1, Zenon DEF IsEntry
      <4>3. QED
        BY <2>1, <4>1, <4>2, Zenon DEF IsEntry
    <3>4. QED
      BY <3>1, <3>2, <3>3
  <2>2. CASE \E k \in i..(j - 1) : t[k] = "," /\ IsEntry(t, kind, i, k, f) /\ f[<<kind, k + 1, j>>]
    <3>1. PICK k \in i..(j - 1) : t[k] = "," /\ IsEntry(t, kind, i, k, f) /\ f[<<kind, k + 1, j>>]
      BY <2>2, Zenon
    <3>2. k \in i..j /\ k + 1 \in P
      BY <1>1
    <3>3. g[<<kind, k + 1, j>>]
      BY <1>4, <3>1, <3>2, Zenon
    <3>4. QED
      BY <1>6, <3>1, <3>2, <3>3, Zenon DEF AreEntries
  <2>3. QED
    BY <1>7, <2>1, <2>2, Zenon DEF AreEntries
<1>8. QED
  BY <1>3, <1>5, <1>7

\* The function that Grammar takes its value from exists: the least set of stretches that
\* the rules lead to.
LEMMA GrammarIs ==
  ASSUME NEW S, NEW t \in Seq(S)
  PROVE  \A part \in Stretches(t) : Grammar(t)[part] <=> IsPart(t, part, Grammar(t))
<1> DEFINE U == Stretches(t)
           Of(H) == [x \in U |-> x \in H]
           Rule(x, H) == IsPart(t, x, Of(H))
           Closed(H) == \A x \in U : Rule(x, H) => x \in H
           G == {x \in U : \A H \in SUBSET U : Closed(H) => x \in H}
<1>1. ASSUME NEW H, NEW K, H \subseteq K, NEW x \in U, Rule(x, H) PROVE Rule(x, K)
  <2> DEFINE f == Of(H)
             g == Of(K)
  <2>1. \A y \in U : f[y] => g[y]
    <3> HIDE DEF U
    <3>1. \A y \in U : (f[y] <=> y \in H) /\ (g[y] <=> y \in K)
      OBVIOUS
    <3> HIDE DEF f, g
    <3>2. QED
      BY <1>1, <3>1
  <2>2. IsPart(t, x, f)
    BY <1>1
  <2> HIDE DEF f, g
  <2>3. IsPart(t, x, g)
    BY <2>1, <2>2, PartGrows DEF U
  <2>4. QED
    BY <2>3 DEF g
<1> HIDE DEF Rule, U
<1>2. ASSUME NEW x \in U, Rule(x, G) PROVE x \in G
  <2>1. ASSUME NEW H \in SUBSET U, Closed(H) PROVE x \in H
    <3>1. G \subseteq H
      BY <2>1
    <3>2. Rule(x, H)
      BY <1>1, <1>2, <3>1
    <3>3. QED
      BY <2>1, <3>2
  <2>2. QED
    BY <2>1
<1>3. ASSUME NEW x \in G PROVE Rule(x, G)
  <2> DEFINE H == {y \in U : Rule(y, G)}
  <2>1. H \in SUBSET U /\ H \subseteq G
    BY <1>2
  <2>2. Closed(H)
    <3>1. ASSUME NEW y \in U, Rule(y, H) PROVE y \in H
      <4>1. Rule(y, G)
        BY <1>1, <2>1, <3>1
      <4>2. QED
        BY <4>1
    <3>2. QED
      BY <3>1
  <2>3. x \in H
    BY <2>1, <2>2
  <2>4. QED
    BY <2>3
<1>4. \A x \in U : x \in G <=> Rule(x, G)
  BY <1>2, <1>3
<1> DEFINE e(x) == IsPart(t, x, Of(G))
<1>5. Of(G) = [x \in U |-> e(x)]
  <2>1. ASSUME NEW x \in U PROVE (x \in G) = e(x)
    <3>1. x \in G <=> IsPart(t, x, Of(G))
      BY <1>4 DEF Rule
    <3>2. IsPart(t, x, Of(G)) \in BOOLEAN
      BY Zenon DEF IsPart, IsValue, AreEntries
    <3> HIDE DEF G
    <3>3. QED
      BY <3>1, <3>2
  <2> HIDE DEF G, e
  <2>2. QED
    BY <2>1
<1> DEFINE is == CHOOSE f : f = [x \in U |-> IsPart(t, x, f)]
<1>6. is = [x \in U |-> IsPart(t, x, is)]
  <2>1. \E f : f = [x \in U |-> IsPart(t, x, f)]
    BY <1>5
  <2>2. QED
    BY <2>1
<1>7. Grammar(t) = is
  BY DEF Grammar, U, Stretches
<1> HIDE DEF is
<1>8. \A x \in U : is[x] = IsPart(t, x, is)
  <2> DEFINE d(x) == IsPart(t, x, is)
  <2>1. is = [x \in U |-> d(x)]
    BY <1>6
  <2> HIDE DEF d
  <2>2. \A x \in U : is[x] = d(x)
    BY <2>1
  <2>3. QED
    BY <2>2 DEF d
<1>9. QED
  BY <1>7, <1>8, Zenon DEF U

\* Its rules, by the kind of a stretch.
LEMMA GrammarRules ==
  ASSUME NEW S, NEW t \in Seq(S), NEW i \in 1..(Len(t) + 1), NEW j \in 1..(Len(t) + 1)
  PROVE  /\ Grammar(t)[<<"value", i, j>>] <=>
              \E c, d \in i..j : /\ c < d /\ Blanks(t, i, c) /\ Blanks(t, d, j)
                                 /\ IsCore(t, c, d, Grammar(t))
         /\ \A kind \in Loops :
              Grammar(t)[<<kind, i, j>>] <=>
                \/ IsEntry(t, kind, i, j, Grammar(t))
                \/ \E k \in i..(j - 1) : /\ t[k] = Comma /\ IsEntry(t, kind, i, k, Grammar(t))
                                         /\ Grammar(t)[<<kind, k + 1, j>>]
<1> DEFINE is == Grammar(t)
<1>1. \A kind \in Kinds : is[<<kind, i, j>>] <=> IsPart(t, <<kind, i, j>>, is)
  BY GrammarIs DEF Stretches
<1>2. ASSUME NEW kind
      PROVE  IsPart(t, <<kind, i, j>>, is) <=> IF kind = "value" THEN IsValue(t, i, j, is)
                                               ELSE AreEntries(t, kind, i, j, is)
  BY Zenon DEF IsPart
<1>3. is[<<"value", i, j>>] <=> IsValue(t, i, j, is)
  BY <1>1, <1>2, KindsAre, Zenon
<1>4. ASSUME NEW kind \in Loops PROVE is[<<kind, i, j>>] <=> AreEntries(t, kind, i, j, is)
  <2>1. kind # "value" /\ kind \in Kinds
    BY LoopsAre DEF Loops
  <2>2. QED
    BY <1>1, <1>2, <2>1, Zenon
<1>5. \A kind : AreEntries(t, kind, i, j, is) <=>
        \/ IsEntry(t, kind, i, j, is)
        \/ \E k \in i..(j - 1) : t[k] = Comma /\ IsEntry(t, kind, i, k, is) /\ is[<<kind, k + 1, j>>]
  BY Zenon DEF AreEntries, Comma
<1> HIDE DEF is
<1>6. QED
  <2>1. is[<<"value", i, j>>] <=>
          \E c, d \in i..j : c < d /\ Blanks(t, i, c) /\ Blanks(t, d, j) /\ IsCore(t, c, d, is)
    BY <1>3, ValueIsCore, Zenon
  <2>2. \A kind \in Loops :
          is[<<kind, i, j>>] <=>
            \/ IsEntry(t, kind, i, j, is)
            \/ \E k \in i..(j - 1) : t[k] = Comma /\ IsEntry(t, kind, i, k, is) /\ is[<<kind, k + 1, j>>]
    BY <1>4, <1>5, Zenon
  <2>3. QED
    BY <2>1, <2>2, Zenon DEF is

\* The quote that ends a string, from the characters one after another.
Width(c) == IF c = "\\" THEN 2 ELSE 1

LEMMA ScanSteps ==
  ASSUME NEW S, NEW t \in Seq(S)
  PROVE  /\ \A p \in {Len(t) + 1, Len(t) + 2} : Scan(t, p).quote = p
         /\ \A p \in 1..Len(t) :
              Scan(t, p).quote = IF t[p] = Quote THEN p ELSE Scan(t, p + Width(t[p])).quote
<1> DEFINE n == Len(t)
<1>1. PICK f : ScannedBy(f, t) /\ \A i \in 1..(n + 2) : Scan(t, i) = f[i]
  BY ScanIs
<1>2. n \in Nat
  BY TextIs
<1>3. ASSUME NEW p \in 1..n
      PROVE  f[p].quote = IF t[p] = Quote THEN p ELSE f[p + Width(t[p])].quote
  <2> DEFINE a == t[p] = Quote
             b == t[p] = "\\"
             y == f[p + 2].quote
             x == f[p + 1].quote
             q == f[p].quote
  <2>1. q = CASE a -> p [] b -> y [] OTHER -> x
    BY <1>1, Zenon DEF ScannedBy
  <2>2. ~(a /\ b)
    BY SymbolsDiffer, Zenon
  <2>3. /\ b => f[p + Width(t[p])].quote = y
        /\ ~b => f[p + Width(t[p])].quote = x
    BY Zenon DEF Width
  <2> HIDE DEF a, b, x, y, q
  <2>4. (a => q = p) /\ (~a /\ b => q = y) /\ (~a /\ ~b => q = x)
    BY ONLY <2>1, <2>2, Zenon
  <2>5. QED
    BY <2>3, <2>4, Zenon DEF a, q
<1>4. \A p \in 1..n : Scan(t, p) = f[p] /\ Scan(t, p + Width(t[p])) = f[p + Width(t[p])]
  <2>1. \A p \in 1..n : Width(t[p]) \in {1, 2}
    BY DEF Width
  <2>2. \A p \in 1..n : p \in 1..(n + 2) /\ p + Width(t[p]) \in 1..(n + 2)
    BY <1>2, <2>1
  <2>3. QED
    BY <1>1, <2>2
<1>5. \A p \in {n + 1, n + 2} : Scan(t, p).quote = p
  <2>1. n + 1 \in 1..(n + 2) /\ n + 2 \in 1..(n + 2)
    BY <1>2
  <2>2. QED
    BY <1>1, <2>1 DEF ScannedBy
<1>6. QED
  BY <1>3, <1>4, <1>5, Zenon DEF n

\* It is a quote when it is found.
LEMMA ScanEnds ==
  ASSUME NEW S, NEW t \in Seq(S), NEW p \in 1..(Len(t) + 2), Scan(t, p).quote <= Len(t)
  PROVE  t[Scan(t, p).quote] = Quote
<1> DEFINE n == Len(t)
           q(i) == Scan(t, i).quote
           T == {i \in 1..(n + 2) : q(i) <= n => t[q(i)] = Quote}
<1>1. n \in Nat
  BY TextIs
<1>2. /\ q(n + 1) = n + 1 /\ q(n + 2) = n + 2
      /\ \A i \in 1..n : q(i) = IF t[i] = Quote THEN i ELSE q(i + Width(t[i]))
  BY ScanSteps
<1> HIDE DEF n, q
<1>3. n + 1 \in T /\ n + 2 \in T
  BY <1>1, <1>2
<1>4. ASSUME NEW i \in 1..n, i + 1 \in T, i + 2 \in T PROVE i \in T
  <2>1. i \in 1..(n + 2)
    BY <1>1
  <2>2. Width(t[i]) = 1 \/ Width(t[i]) = 2
    BY DEF Width
  <2>3. q(i) <= n => t[q(i)] = Quote
    <3>1. CASE t[i] = Quote
      BY <1>2, <3>1
    <3>2. CASE t[i] # Quote
      BY <1>2, <1>4, <2>2, <3>2
    <3>3. QED
      BY <3>1, <3>2
  <2>4. QED
    BY <2>1, <2>3
<1> HIDE DEF T
<1>5. \A i \in 1..(n + 2) : i \in T
  BY ONLY <1>1, <1>3, <1>4, Downwards
<1>6. p \in T
  BY <1>5 DEF n
<1>7. QED
  BY <1>6 DEF T, n, q

\* A string ends where the scan finds its quote, and nowhere else.
LEMMA StringIs ==
  ASSUME NEW S, NEW t \in Seq(S), NEW i \in 1..Len(t), NEW j \in 1..(Len(t) + 1)
  PROVE  IsString(t, i, j) <=> t[i] = Quote /\ Scan(t, i + 1).quote = j - 1
<1> DEFINE n == Len(t)
           m == j - 1
           q(k) == Scan(t, k).quote
           Places(P) == /\ {i + 1, m} \subseteq P
                        /\ \A k \in P \ {m} : t[k] # Quote /\ k + Width(t[k]) \in P
<1>1. n \in Nat /\ i \in 1..n /\ m \in 0..n
  BY TextIs
<1>2. \A k \in 1..n : q(k) = IF t[k] = Quote THEN k ELSE q(k + Width(t[k]))
  BY ScanSteps
<1>3. IsString(t, i, j) <=>
        i + 1 < j /\ t[i] = Quote /\ t[m] = Quote /\ \E P \in SUBSET ((i + 1)..m) : Places(P)
  BY Zenon DEF IsString, Enclosed, Width
<1>4. \A k \in 1..n : Width(t[k]) = 1 \/ Width(t[k]) = 2
  BY DEF Width
<1>5. i + 1 < j <=> i < m
  BY <1>1
<1>6. /\ \A k \in 1..(n + 2) : q(k) \in Nat /\ q(k) >= k
      /\ q(i + 1) <= n => t[q(i + 1)] = Quote
  <2>1. i + 1 \in 1..(n + 2)
    BY <1>1
  <2>2. QED
    BY <2>1, QuoteIsBehind, ScanEnds
<1> HIDE DEF n, m, q
<1>7. ASSUME i < m, t[m] = Quote, NEW P \in SUBSET ((i + 1)..m), Places(P) PROVE q(i + 1) = m
  <2> DEFINE T == {k \in 1..(m + 2) : k \in P => q(k) = m}
  <2>1. m + 1 \in T /\ m + 2 \in T
    BY <1>1
  <2>2. ASSUME NEW k \in 1..m, k + 1 \in T, k + 2 \in T PROVE k \in T
    <3>1. k \in 1..(m + 2) /\ k \in 1..n
      BY <1>1
    <3>2. ASSUME k \in P PROVE q(k) = m
      <4>1. CASE k = m
        BY <1>2, <1>7, <3>1, <4>1
      <4>2. CASE k # m
        <5>1. t[k] # Quote /\ k + Width(t[k]) \in P
          BY <1>7, <3>2, <4>2
        <5>2. q(k) = q(k + Width(t[k]))
          BY <1>2, <3>1, <5>1
        <5>3. k + Width(t[k]) \in T
          BY <1>4, <2>2, <3>1
        <5>4. QED
          BY <5>1, <5>2, <5>3
      <4>3. QED
        BY <4>1, <4>2
    <3>3. QED
      BY <3>1, <3>2
  <2> HIDE DEF T
  <2>0. m \in Nat
    BY <1>1
  <2>3. \A k \in 1..(m + 2) : k \in T
    BY ONLY <2>0, <2>1, <2>2, Downwards
  <2>4. i + 1 \in T /\ i + 1 \in P
    BY <1>1, <1>7, <2>3
  <2>5. QED
    BY <2>4 DEF T
<1>8. ASSUME q(i + 1) = m
      PROVE  i < m /\ t[m] = Quote /\ \E P \in SUBSET ((i + 1)..m) : Places(P)
  <2>1. i < m /\ t[m] = Quote
    BY <1>1, <1>6, <1>8
  <2> DEFINE P == {k \in (i + 1)..m : q(k) = m}
  <2>2. m \in P
    <3>1. m \in 1..n /\ m \in (i + 1)..m
      BY <1>1, <2>1
    <3>2. QED
      BY <1>2, <2>1, <3>1
  <2>3. i + 1 \in P
    BY <1>1, <1>8, <2>1
  <2>4. ASSUME NEW k \in P \ {m} PROVE t[k] # Quote /\ k + Width(t[k]) \in P
    <3>1. k \in 1..n /\ k \in (i + 1)..m /\ q(k) = m /\ k # m
      BY <1>1
    <3>2. t[k] # Quote /\ q(k + Width(t[k])) = m
      BY <1>2, <3>1
    <3>3. k + Width(t[k]) \in 1..(n + 2) /\ k + Width(t[k]) >= i + 1
      BY <1>1, <1>4, <3>1
    <3>4. k + Width(t[k]) <= m
      BY <1>6, <3>2, <3>3
    <3>5. k + Width(t[k]) \in (i + 1)..m
      BY <1>1, <3>3, <3>4
    <3>6. QED
      BY <3>2, <3>5
  <2>5. Places(P) /\ P \in SUBSET ((i + 1)..m)
    BY <2>2, <2>3, <2>4
  <2> HIDE DEF P
  <2>6. QED
    BY <2>1, <2>5
<1> HIDE DEF Places
<1>9. QED
  BY <1>3, <1>5, <1>7, <1>8 DEF q, m

\* A number from c to before d.
LEMMA NumberStretch ==
  ASSUME NEW S, NEW t \in Seq(S), NEW c \in 1..Len(t), NEW d \in (c + 1)..(Len(t) + 1)
  PROVE  IsNumber(SubSeq(t, c, d - 1)) <=>
           c + Sign(t[c]) < d /\ \A k \in (c + Sign(t[c]))..(d - 1) : t[k] \in Digits
<1> DEFINE n == Len(t)
           m == d - 1
           u == SubSeq(t, c, m)
           z == Sign(u[1])
<1>1. n \in Nat /\ c \in 1..n /\ m \in Nat /\ c <= m /\ m <= n /\ d = m + 1
      /\ \A i \in 1..n : t[i] \in S
  BY TextIs
<1>2. \A i \in c..m : t[i] \in S
  BY <1>1
<1>3. c \in Int /\ m \in Int
  BY <1>1
<1> HIDE DEF m, n
<1>4. /\ u \in Seq(S) /\ Len(u) = IF c <= m THEN m - c + 1 ELSE 0
      /\ \A i \in 1..(m - c + 1) : u[i] = t[c + i - 1]
  BY ONLY <1>2, <1>3, SubSeqProperties
<1> HIDE DEF u
<1>5. IsNumber(u) <=> u # <<>> /\ Sign(u[1]) + 1 <= Len(u)
                      /\ \A i \in (Sign(u[1]) + 1)..Len(u) : u[i] \in Digits
  <2> DEFINE first == IF u[1] = Minus THEN 2 ELSE 1
  <2>1. IsNumber(u) <=> u # <<>> /\ first <= Len(u) /\ \A i \in first..Len(u) : u[i] \in Digits
    BY Zenon DEF IsNumber, Minus
  <2>2. first = Sign(u[1]) + 1
    BY DEF Sign
  <2> HIDE DEF first
  <2>3. QED
    BY <2>1, <2>2
<1>6. Len(u) = m - c + 1 /\ u # <<>>
  BY <1>1, <1>4
<1>7. u[1] = t[c]
  <2>1. 1 \in 1..(m - c + 1) /\ c + 1 - 1 = c
    BY <1>1
  <2>2. QED
    BY <1>4, <2>1
<1>8. z \in {0, 1} /\ z = Sign(t[c])
  BY <1>7, SignIs
<1> HIDE DEF z
<1>9. /\ z + 1 <= Len(u) <=> c + z < d
  BY <1>1, <1>6, <1>8
<1>10. ASSUME \A i \in (z + 1)..Len(u) : u[i] \in Digits, NEW k \in (c + z)..m
       PROVE  t[k] \in Digits
  <2> DEFINE i == k - c + 1
  <2>1. i \in (z + 1)..Len(u) /\ i \in 1..(m - c + 1) /\ c + i - 1 = k
    BY <1>1, <1>6, <1>8
  <2> HIDE DEF i
  <2>2. QED
    BY <1>4, <1>10, <2>1
<1>11. ASSUME \A k \in (c + z)..m : t[k] \in Digits, NEW i \in (z + 1)..Len(u)
       PROVE  u[i] \in Digits
  <2> DEFINE k == c + i - 1
  <2>1. k \in (c + z)..m /\ i \in 1..(m - c + 1)
    BY <1>1, <1>6, <1>8
  <2> HIDE DEF k
  <2>2. t[k] \in Digits /\ u[i] = t[k]
    BY <1>4, <1>11, <2>1 DEF k
  <2>3. QED
    BY <2>2
<1>12. IsNumber(u) <=> c + z < d /\ \A k \in (c + z)..m : t[k] \in Digits
  BY <1>5, <1>6, <1>9, <1>10, <1>11 DEF z
<1>13. QED
  BY <1>8, <1>12 DEF u, m

\* parse_number reads a number, and the longest that begins there.
LEMMA NumberFound ==
  ASSUME NEW S, NEW t \in Seq(S), NEW c \in 1..Len(t), Ok(ParseNumber(t, c))
  PROVE  /\ ParseNumber(t, c).next \in (c + 1)..(Len(t) + 1)
         /\ IsNumber(SubSeq(t, c, ParseNumber(t, c).next - 1))
<1> DEFINE n == Len(t)
           first == c + Sign(t[c])
           end == Past(t, first, Digits)
<1>1. n \in Nat /\ c \in 1..n /\ first \in c..(c + 1) /\ first \in 1..(Len(t) + 1)
  BY TextIs, SignIs
<1>2. ParseNumber(t, c) = IF end > first THEN Read(Number(SubSeq(t, c, end - 1)), end) ELSE Failed
  BY <1>1, NumberRule
<1>3. end \in first..(n + 1) /\ \A k \in first..(end - 1) : t[k] \in Digits
  BY <1>1, PastIs
<1> HIDE DEF end
<1>4. end > first /\ ParseNumber(t, c).next = end
  BY <1>2, FailedIs, ReadOf
<1>5. end \in (c + 1)..(Len(t) + 1)
  BY <1>1, <1>3, <1>4
<1>6. IsNumber(SubSeq(t, c, end - 1))
  BY <1>3, <1>4, <1>5, NumberStretch
<1>7. QED
  BY <1>4, <1>5, <1>6

LEMMA NumberTaken ==
  ASSUME NEW S, NEW t \in Seq(S), NEW c \in 1..Len(t), NEW d \in (c + 1)..(Len(t) + 1),
         IsNumber(SubSeq(t, c, d - 1))
  PROVE  /\ t[c] \in NumberStart
         /\ ParseNumber(t, c).next >= d
         /\ ParseNumber(t, c).next > d => d <= Len(t) /\ t[d] \in Digits
<1> DEFINE n == Len(t)
           first == c + Sign(t[c])
           end == Past(t, first, Digits)
<1>1. n \in Nat /\ c \in 1..n /\ first \in c..(c + 1) /\ first \in 1..(Len(t) + 1)
  BY TextIs, SignIs
<1>2. ParseNumber(t, c) = IF end > first THEN Read(Number(SubSeq(t, c, end - 1)), end) ELSE Failed
  BY <1>1, NumberRule
<1>3. /\ end \in first..(n + 1) /\ \A k \in first..(end - 1) : t[k] \in Digits
      /\ end <= n => t[end] \notin Digits
  BY <1>1, PastIs
<1>4. first < d /\ \A k \in first..(d - 1) : t[k] \in Digits
  BY NumberStretch
<1>5. t[c] \in NumberStart
  <2>1. CASE Sign(t[c]) = 1
    BY <2>1, SignIs, Zenon DEF NumberStart, Minus
  <2>2. CASE Sign(t[c]) = 0
    <3>1. c \in first..(d - 1)
      BY <1>1, <2>2
    <3>2. QED
      BY <1>4, <3>1, Zenon DEF NumberStart
  <2>3. QED
    BY <2>1, <2>2, SignIs
<1> HIDE DEF end, first, n
<1>6. ~(end < d)
  <2>1. ASSUME end < d PROVE FALSE
    <3>1. end \in first..(d - 1) /\ end <= n
      BY <1>1, <1>3, <2>1 DEF n
    <3>2. QED
      BY <1>3, <1>4, <3>1
  <2>2. QED
    BY <2>1
<1>7. end >= d /\ end > first
  BY <1>1, <1>3, <1>4, <1>6
<1>8. ParseNumber(t, c).next = end
  BY <1>2, <1>7, ReadOf
<1>9. ASSUME end > d PROVE d <= Len(t) /\ t[d] \in Digits
  <2>1. d \in first..(end - 1) /\ d <= n
    BY <1>1, <1>3, <1>4, <1>9
  <2>2. QED
    BY <1>3, <2>1 DEF n
<1>10. QED
  BY <1>5, <1>7, <1>8, <1>9

\* The first symbol of a value is one that values begin with.
LEMMA CoreStarts ==
  ASSUME NEW S, NEW t \in Seq(S), NEW c \in 1..Len(t), NEW d \in (c + 1)..(Len(t) + 1), NEW is,
         IsCore(t, c, d, is)
  PROVE  Starts(t[c]) /\ t[c] \notin White
<1>1. ASSUME IsNumber(SubSeq(t, c, d - 1)) PROVE Starts(t[c])
  BY <1>1, NumberTaken, Zenon DEF Starts
<1>2. ASSUME IsString(t, c, d) PROVE Starts(t[c])
  BY <1>2, Zenon DEF IsString, Enclosed, Starts
<1>3. ASSUME NEW kind \in Loops, Enclosed(t, c, d, OpenOf(kind), CloseOf(kind))
      PROVE  Starts(t[c])
  <2>1. t[c] = OpenArray \/ t[c] = OpenObject
    BY <1>3 DEF Enclosed, OpenOf
  <2>2. QED
    BY <2>1, Zenon DEF Starts
<1>4. Starts(t[c])
  BY <1>1, <1>2, <1>3, Zenon DEF IsCore, Starts
<1>5. QED
  BY <1>4, StartsAre

LEMMA BlanksJoin ==
  ASSUME NEW t, NEW i \in Nat, NEW j \in Nat, NEW k \in Nat, Blanks(t, i, j), Blanks(t, j, k)
  PROVE  Blanks(t, i, k)
<1>1. i <= j /\ j <= k /\ \A m \in i..(k - 1) : m \in i..(j - 1) \/ m \in j..(k - 1)
  BY DEF Blanks
<1>2. i <= k
  BY <1>1
<1>3. QED
  BY <1>1, <1>2 DEF Blanks

\* The reader skips the blanks.
LEMMA SkipBlanks ==
  ASSUME NEW S, NEW t \in Seq(S), NEW p \in 1..(Len(t) + 1)
  PROVE  /\ Skip(t, p) \in p..(Len(t) + 1) /\ Blanks(t, p, Skip(t, p))
         /\ \A c \in p..Len(t) :
              Blanks(t, p, c) /\ t[c] \notin White =>
                Skip(t, p) = c /\ Peek(t, p) = t[c] /\ After(t, p) = c + 1
<1>1. Len(t) \in Nat
  BY TextIs
<1>2. Skip(t, p) \in p..(Len(t) + 1) /\ Blanks(t, p, Skip(t, p))
  BY <1>1, SkipIs DEF Blanks
<1>3. ASSUME NEW c \in p..Len(t), Blanks(t, p, c), t[c] \notin White
      PROVE  Skip(t, p) = c /\ Peek(t, p) = t[c] /\ After(t, p) = c + 1
  BY <1>3, SkipTo DEF Blanks
<1>4. QED
  BY <1>2, <1>3

\* Blanks behind a value belong to it.
LEMMA ValueWidens ==
  ASSUME NEW S, NEW t \in Seq(S), NEW i \in 1..(Len(t) + 1), NEW j \in 1..(Len(t) + 1),
         NEW k \in 1..(Len(t) + 1), Grammar(t)[<<"value", i, j>>], Blanks(t, j, k)
  PROVE  Grammar(t)[<<"value", i, k>>]
<1>1. PICK c \in i..j, d \in i..j : /\ c < d /\ Blanks(t, i, c) /\ Blanks(t, d, j)
                                    /\ IsCore(t, c, d, Grammar(t))
  BY GrammarRules
<1>2. Len(t) \in Nat /\ j <= k /\ c \in Nat /\ d \in Nat /\ j \in Nat /\ k \in Nat
  BY TextIs DEF Blanks
<1>3. c \in i..k /\ d \in i..k /\ Blanks(t, d, k)
  BY <1>1, <1>2, BlanksJoin
<1>4. QED
  BY <1>1, <1>3, GrammarRules

\* Every value has a symbol, and so has every entry, and they begin as values do.
LEMMA ValueBegins ==
  ASSUME NEW S, NEW t \in Seq(S), NEW i \in 1..(Len(t) + 1), NEW j \in 1..(Len(t) + 1),
         Grammar(t)[<<"value", i, j>>]
  PROVE  i < j /\ Starts(Peek(t, i))
<1>1. PICK c \in i..j, d \in i..j : /\ c < d /\ Blanks(t, i, c) /\ Blanks(t, d, j)
                                    /\ IsCore(t, c, d, Grammar(t))
  BY GrammarRules
<1>2. c \in i..Len(t) /\ c \in 1..Len(t) /\ d \in (c + 1)..(Len(t) + 1) /\ i < j
  BY <1>1, TextIs
<1>3. Starts(t[c]) /\ t[c] \notin White
  BY <1>1, <1>2, CoreStarts
<1>4. Peek(t, i) = t[c]
  BY <1>1, <1>2, <1>3, SkipBlanks
<1>5. QED
  BY <1>2, <1>3, <1>4

\* parse_string reads a string, to its end.
LEMMA StringRule ==
  ASSUME NEW S, NEW t \in Seq(S), NEW p \in 1..(Len(t) + 1)
  PROVE  LET quote == Scan(t, Skip(t, p) + 1).quote
         IN  ParseString(t, p).next = IF Peek(t, p) = Quote /\ quote <= Len(t) THEN quote + 1 ELSE 0
<1> DEFINE start == Skip(t, p) + 1
           quote == Scan(t, start).quote
           fine == Peek(t, p) = Quote /\ quote <= Len(t)
<1>1. ParseString(t, p) = IF fine THEN Read(Text(Content(t, start)), quote + 1) ELSE Failed
  BY Zenon DEF ParseString, After
<1> HIDE DEF fine, quote, start
<1>2. ParseString(t, p).next = IF fine THEN quote + 1 ELSE 0
  BY <1>1, ReadOf, FailedIs
<1>3. QED
  BY <1>2, Zenon DEF fine, quote, start

LEMMA StringFound ==
  ASSUME NEW S, NEW t \in Seq(S), NEW p \in 1..(Len(t) + 1), Ok(ParseString(t, p))
  PROVE  /\ Peek(t, p) = Quote
         /\ Skip(t, p) \in p..Len(t) /\ Blanks(t, p, Skip(t, p))
         /\ ParseString(t, p).next \in (Skip(t, p) + 1)..(Len(t) + 1)
         /\ IsString(t, Skip(t, p), ParseString(t, p).next)
<1> DEFINE n == Len(t)
           c == Skip(t, p)
           quote == Scan(t, c + 1).quote
           j == quote + 1
<1>1. Peek(t, p) = Quote /\ quote <= n /\ ParseString(t, p).next = j
  BY StringRule DEF Ok
<1>2. n \in Nat /\ c \in p..n /\ Blanks(t, p, c) /\ t[c] = Quote
  <2>1. Peek(t, p) # TheEnd
    BY <1>1, SymbolsDiffer
  <2>2. QED
    BY <1>1, <2>1, Seen, SkipBlanks, TextIs
<1>3. quote \in Nat /\ quote >= c + 1
  <2>1. c + 1 \in 1..(Len(t) + 2)
    BY <1>2
  <2>2. QED
    BY <2>1, QuoteIsBehind
<1> HIDE DEF quote
<1>4. j \in 1..(Len(t) + 1) /\ c \in 1..Len(t) /\ quote = j - 1 /\ j \in (c + 1)..(n + 1)
  BY <1>1, <1>2, <1>3
<1> HIDE DEF j
<1>5. IsString(t, c, j)
  BY <1>2, <1>4, StringIs DEF quote
<1>6. QED
  BY <1>1, <1>2, <1>4, <1>5

LEMMA StringTaken ==
  ASSUME NEW S, NEW t \in Seq(S), NEW p \in 1..(Len(t) + 1), NEW c \in p..Len(t),
         NEW d \in (c + 1)..(Len(t) + 1), Blanks(t, p, c), IsString(t, c, d)
  PROVE  Peek(t, p) = Quote /\ ParseString(t, p).next = d
<1>1. Len(t) \in Nat /\ c \in 1..Len(t) /\ d \in 1..(Len(t) + 1) /\ d - 1 <= Len(t) /\ d - 1 + 1 = d
  BY TextIs
<1>2. t[c] = Quote /\ Scan(t, c + 1).quote = d - 1
  BY <1>1, StringIs
<1>3. Skip(t, p) = c /\ Peek(t, p) = Quote
  BY <1>2, SkipBlanks, SymbolsDiffer
<1>4. QED
  BY <1>1, <1>2, <1>3, StringRule

-----------------------------------------------------------------------------
(* The reader against the grammar: what it finds, and what it takes.       *)

\* Where the reader stops when it has read up to j: there, or before blanks that end there,
\* or behind it in the middle of a number.
Reaches(t, r, j) == /\ r.next \in 1..(Len(t) + 1)
                    /\ r.next <= j => Blanks(t, r.next, j)
                    /\ r.next > j => j <= Len(t) /\ t[j] \in Digits

LEMMA ReachesMark ==
  ASSUME NEW S, NEW t \in Seq(S), NEW r, NEW j \in 1..Len(t), Reaches(t, r, j), t[j] \in Marker
  PROVE  /\ r.next \in 1..(Len(t) + 1) /\ Ok(r)
         /\ Peek(t, r.next) = t[j] /\ After(t, r.next) = j + 1
<1>1. t[j] \notin White /\ t[j] \notin Digits
  <2>1. \A c \in Digits : c \in NumberStart
    BY Zenon DEF NumberStart
  <2>2. QED
    BY <2>1, SymbolsDiffer
<1>2. r.next \in 1..(Len(t) + 1) /\ Len(t) \in Nat
  BY TextIs DEF Reaches
<1>3. r.next <= j
  BY <1>1, <1>2 DEF Reaches
<1>4. j \in r.next..Len(t) /\ Blanks(t, r.next, j)
  BY <1>2, <1>3 DEF Reaches
<1>5. Peek(t, r.next) = t[j] /\ After(t, r.next) = j + 1
  BY <1>1, <1>2, <1>4, SkipBlanks
<1>6. QED
  BY <1>2, <1>5 DEF Ok

\* What the reader finds is what the grammar says, and the other way.
ValueFound(t, i) == LET r == Parsed(t)[<<"value", i>>]
                    IN  Ok(r) => Grammar(t)[<<"value", i, r.next>>]
ValueTaken(t, i) == \A j \in 1..(Len(t) + 1) :
                      Grammar(t)[<<"value", i, j>>] => Reaches(t, Parsed(t)[<<"value", i>>], j)

LEMMA EntryRule ==
  ASSUME NEW t, NEW p
  PROVE  /\ EntryAt(t, "items", p).next = Parsed(t)[<<"value", p>>].next
         /\ EntryAt(t, "members", p).next =
              LET key == ParseString(t, p)
              IN  IF Ok(key) /\ Peek(t, key.next) = Between
                  THEN Parsed(t)[<<"value", After(t, key.next)>>].next ELSE 0
<1>1. EntryAt(t, "items", p) = ItemAt(t, p) /\ EntryAt(t, "members", p) = MemberAt(t, p)
  BY DEF EntryAt
<1>2. ItemAt(t, p).next = Parsed(t)[<<"value", p>>].next
  <2> DEFINE item == Parsed(t)[<<"value", p>>]
  <2>1. ItemAt(t, p) = IF Ok(item) THEN Read(Array(<<item.value>>), item.next) ELSE Failed
    BY DEF ItemAt
  <2> HIDE DEF item
  <2>2. ItemAt(t, p).next = item.next
    BY <2>1, ReadOf, FailedIs DEF Ok
  <2>3. QED
    BY <2>2 DEF item
<1>3. MemberAt(t, p).next =
        LET key == ParseString(t, p)
        IN  IF Ok(key) /\ Peek(t, key.next) = Between
            THEN Parsed(t)[<<"value", After(t, key.next)>>].next ELSE 0
  <2> DEFINE key == ParseString(t, p)
             item == Parsed(t)[<<"value", After(t, key.next)>>]
             fine == Ok(key) /\ Peek(t, key.next) = Between
             e == Object(<<key.value.text>>, <<item.value>>)
  <2>1. MemberAt(t, p) = IF fine /\ Ok(item) THEN Read(e, item.next) ELSE Failed
    BY Zenon DEF MemberAt
  <2> HIDE DEF item, fine, e
  <2>2. MemberAt(t, p).next = IF fine THEN item.next ELSE 0
    BY <2>1, ReadOf, FailedIs DEF Ok
  <2>3. QED
    BY <2>2, Zenon DEF fine, item
<1>4. QED
  BY <1>1, <1>2, <1>3, Zenon

LEMMA ReadAdvances ==
  ASSUME NEW S, NEW t \in Seq(S), NEW kind \in Kinds, NEW q \in 1..(Len(t) + 1)
  PROVE  \/ Parsed(t)[<<kind, q>>].next = 0
         \/ Parsed(t)[<<kind, q>>].next \in (q + 1)..(Len(t) + 1)
<1>1. Advances(t, q, Parsed(t)[<<kind, q>>])
  BY PartsAre
<1>2. QED
  BY <1>1 DEF Advances

LEMMA EntryFound ==
  ASSUME NEW S, NEW t \in Seq(S), NEW i \in 1..(Len(t) + 1), NEW kind \in Loops,
         \A q \in i..(Len(t) + 1) : ValueFound(t, q), Ok(EntryAt(t, kind, i))
  PROVE  LET e == EntryAt(t, kind, i).next
         IN  e \in (i + 1)..(Len(t) + 1) /\ IsEntry(t, kind, i, e, Grammar(t))
<1> DEFINE n == Len(t)
           e == EntryAt(t, kind, i).next
<1>1. n \in Nat /\ i \in i..(n + 1) /\ i \in 1..(n + 1) /\ e # 0
  BY TextIs DEF Ok
<1>2. \A q \in 1..(n + 1) : Parsed(t)[<<"value", q>>].next = 0
                            \/ Parsed(t)[<<"value", q>>].next \in (q + 1)..(n + 1)
  BY ReadAdvances, KindsAre
<1>3. CASE kind = "items"
  <2>1. e = Parsed(t)[<<"value", i>>].next
    BY <1>3, EntryRule
  <2> HIDE DEF e
  <2>2. Grammar(t)[<<"value", i, e>>]
    BY <1>1, <2>1 DEF ValueFound, Ok
  <2>3. e \in (i + 1)..(n + 1)
    BY <1>1, <1>2, <2>1
  <2>4. IsEntry(t, kind, i, e, Grammar(t))
    BY <1>3, <2>2, Zenon DEF IsEntry
  <2>5. QED
    BY <2>3, <2>4 DEF e
<1>4. CASE kind = "members"
  <2> DEFINE d == ParseString(t, i).next
             r == After(t, d)
             c == Skip(t, i)
             k == Skip(t, d)
  <2>1. /\ e = IF Ok(ParseString(t, i)) /\ Peek(t, d) = Between
               THEN Parsed(t)[<<"value", r>>].next ELSE 0
    BY <1>4, EntryRule, Zenon
  <2> HIDE DEF e
  <2>2. Ok(ParseString(t, i)) /\ Peek(t, d) = Between /\ e = Parsed(t)[<<"value", r>>].next
    BY <1>1, <2>1
  <2>3. /\ c \in i..n /\ Blanks(t, i, c) /\ d \in (c + 1)..(n + 1) /\ IsString(t, c, d)
    BY <2>2, StringFound
  <2>4. d \in 1..(Len(t) + 1) /\ Between # TheEnd
    BY <1>1, <2>3, SymbolsDiffer, MarkersDiffer
  <2>5. /\ k \in d..n /\ t[k] = Between /\ r = k + 1 /\ r \in (d + 1)..(n + 1)
        /\ Blanks(t, d, k)
    BY <2>2, <2>4, Seen, SkipBlanks
  <2> HIDE DEF c, d, k, r
  <2>6. c \in i..k /\ d \in i..k /\ r \in i..(n + 1) /\ r \in 1..(n + 1)
    BY <1>1, <2>3, <2>5
  <2>7. IsKey(t, i, k)
    BY <2>3, <2>5, <2>6, Zenon DEF IsKey
  <2>8. e \in (r + 1)..(n + 1)
    BY <1>1, <1>2, <2>2, <2>6
  <2>9. Grammar(t)[<<"value", k + 1, e>>]
    BY <1>1, <2>2, <2>5, <2>6 DEF ValueFound, Ok
  <2>10. k \in i..(e - 1) /\ e \in (i + 1)..(n + 1)
    BY <1>1, <2>3, <2>5, <2>8
  <2>11. IsEntry(t, kind, i, e, Grammar(t))
    BY <1>4, <2>5, <2>7, <2>9, <2>10, Zenon DEF IsEntry, Between
  <2>12. QED
    BY <2>10, <2>11 DEF e
<1>5. QED
  BY <1>3, <1>4 DEF Loops

LEMMA EntryWidens ==
  ASSUME NEW S, NEW t \in Seq(S), NEW i \in 1..(Len(t) + 1), NEW j \in 1..(Len(t) + 1),
         NEW k \in 1..(Len(t) + 1), NEW kind, IsEntry(t, kind, i, j, Grammar(t)), Blanks(t, j, k)
  PROVE  IsEntry(t, kind, i, k, Grammar(t))
<1>1. CASE kind = "items" /\ Grammar(t)[<<"value", i, j>>]
  <2>1. Grammar(t)[<<"value", i, k>>]
    BY <1>1, ValueWidens
  <2>2. QED
    BY <1>1, <2>1, Zenon DEF IsEntry
<1>2. CASE /\ kind = "members"
           /\ \E m \in i..(j - 1) : t[m] = ":" /\ IsKey(t, i, m) /\ Grammar(t)[<<"value", m + 1, j>>]
  <2>1. PICK m \in i..(j - 1) : t[m] = ":" /\ IsKey(t, i, m) /\ Grammar(t)[<<"value", m + 1, j>>]
    BY <1>2, Zenon
  <2>2. m + 1 \in 1..(Len(t) + 1) /\ m \in i..(k - 1)
    BY TextIs DEF Blanks
  <2>3. Grammar(t)[<<"value", m + 1, k>>]
    BY <2>1, <2>2, ValueWidens
  <2>4. QED
    BY <1>2, <2>1, <2>2, <2>3, Zenon DEF IsEntry
<1>3. QED
  BY <1>1, <1>2, Zenon DEF IsEntry

LEMMA EntryTaken ==
  ASSUME NEW S, NEW t \in Seq(S), NEW i \in 1..(Len(t) + 1), NEW j \in 1..(Len(t) + 1),
         NEW kind \in Loops, \A q \in i..(Len(t) + 1) : ValueTaken(t, q),
         IsEntry(t, kind, i, j, Grammar(t))
  PROVE  i < j /\ Starts(Peek(t, i)) /\ Reaches(t, EntryAt(t, kind, i), j)
<1> DEFINE n == Len(t)
<1>1. n \in Nat /\ i \in i..(n + 1)
  BY TextIs
<1>2. CASE kind = "items" /\ Grammar(t)[<<"value", i, j>>]
  <2>1. i < j /\ Starts(Peek(t, i))
    BY <1>2, ValueBegins
  <2>2. Reaches(t, Parsed(t)[<<"value", i>>], j)
    BY <1>1, <1>2 DEF ValueTaken
  <2>3. EntryAt(t, kind, i).next = Parsed(t)[<<"value", i>>].next
    BY <1>2, EntryRule
  <2>4. QED
    BY <2>1, <2>2, <2>3 DEF Reaches
<1>3. CASE /\ kind = "members"
           /\ \E m \in i..(j - 1) : t[m] = ":" /\ IsKey(t, i, m) /\ Grammar(t)[<<"value", m + 1, j>>]
  <2>1. PICK m \in i..(j - 1) : t[m] = Between /\ IsKey(t, i, m) /\ Grammar(t)[<<"value", m + 1, j>>]
    BY <1>3, Zenon DEF Between
  <2>2. PICK c \in i..m, d \in i..m : Blanks(t, i, c) /\ IsString(t, c, d) /\ Blanks(t, d, m)
    BY <2>1, Zenon DEF IsKey
  <2>3. c + 1 < d
    BY <2>2 DEF IsString, Enclosed
  <2>4. c \in i..n /\ d \in (c + 1)..(n + 1) /\ d \in 1..(n + 1) /\ m \in d..n /\ m + 1 \in i..(n + 1)
        /\ i < j
    BY <1>1, <2>3
  <2>5. Peek(t, i) = Quote /\ ParseString(t, i).next = d
    BY <2>2, <2>4, StringTaken
  <2>6. t[m] \notin White
    BY <2>1, SymbolsDiffer, MarkersDiffer
  <2>7. Peek(t, d) = Between /\ After(t, d) = m + 1
    BY <2>1, <2>2, <2>4, <2>6, SkipBlanks
  <2>8. EntryAt(t, "members", i).next = Parsed(t)[<<"value", m + 1>>].next
    <3>1. Ok(ParseString(t, i))
      BY <2>4, <2>5 DEF Ok
    <3>2. QED
      BY <2>5, <2>7, <3>1, EntryRule
  <2>9. Reaches(t, Parsed(t)[<<"value", m + 1>>], j)
    BY <2>1, <2>4 DEF ValueTaken
  <2>10. Starts(Quote)
    BY Zenon DEF Starts
  <2>11. QED
    BY <1>3, <2>4, <2>5, <2>8, <2>9, <2>10 DEF Reaches
<1>4. QED
  BY <1>2, <1>3, Zenon DEF IsEntry

LoopFound(t, kind, i) == LET r == Parsed(t)[<<kind, i>>]
                             j == r.next - 1
                         IN  Ok(r) => /\ j \in i..Len(t) /\ t[j] = CloseOf(kind)
                                      /\ Grammar(t)[<<kind, i, j>>]
LoopTaken(t, kind, i) == \A j \in i..Len(t) :
                           t[j] = CloseOf(kind) /\ Grammar(t)[<<kind, i, j>>] =>
                             Parsed(t)[<<kind, i>>].next = j + 1

\* The loops, by what follows an entry.
LEMMA LoopSteps ==
  ASSUME NEW S, NEW t \in Seq(S), NEW i \in 1..(Len(t) + 1), NEW kind \in Loops
  PROVE  LET e    == EntryAt(t, kind, i)
             r    == Parsed(t)[<<kind, i>>].next
             c    == Peek(t, e.next)
             more == After(t, e.next)
         IN  /\ ~Ok(e) => r = 0
             /\ Ok(e) /\ c = CloseOf(kind) => r = more
             /\ Ok(e) /\ c = Comma => r = Parsed(t)[<<kind, more>>].next
             /\ Ok(e) /\ c # CloseOf(kind) /\ c # Comma => r = 0
<1> DEFINE e == EntryAt(t, kind, i)
           x == Continued(t, e.next, e.value, CloseOf(kind), kind, Parsed(t))
           c == Peek(t, e.next)
           more == After(t, e.next)
           r == Parsed(t)[<<kind, i>>]
<1>1. r = IF Ok(e) THEN x ELSE Failed
  BY LoopRule
<1>2. CloseOf(kind) # Comma
  BY LoopsAre
<1>3. /\ c = CloseOf(kind) => x = Read(e.value, more)
      /\ c = Comma => x = Joined(e.value, Parsed(t)[<<kind, more>>])
      /\ c # CloseOf(kind) /\ c # Comma => x = Failed
  BY <1>2, ContinuedRules
<1> HIDE DEF e, x, c, more, r
<1>4. /\ c = CloseOf(kind) => x.next = more
      /\ c = Comma => x.next = Parsed(t)[<<kind, more>>].next
      /\ c # CloseOf(kind) /\ c # Comma => x.next = 0
  <2>1. Joined(e.value, Parsed(t)[<<kind, more>>]).next = Parsed(t)[<<kind, more>>].next
    BY JoinedIs, Zenon
  <2>2. QED
    BY <1>3, <2>1, ReadOf, FailedIs
<1>5. /\ ~Ok(e) => r.next = 0
      /\ Ok(e) => r.next = x.next
  BY <1>1, FailedIs
<1>6. QED
  BY <1>4, <1>5, Zenon DEF e, c, more, r

LEMMA LoopFoundBefore ==
  ASSUME NEW S, NEW t \in Seq(S), NEW i \in 1..(Len(t) + 1), NEW kind \in Loops,
         \A q \in i..(Len(t) + 1) : ValueFound(t, q),
         \A q \in (i + 1)..(Len(t) + 1) : LoopFound(t, kind, q)
  PROVE  LoopFound(t, kind, i)
<1> DEFINE n == Len(t)
           close == CloseOf(kind)
           e == EntryAt(t, kind, i)
           a == e.next
           k == Skip(t, a)
           r == Parsed(t)[<<kind, i>>]
           j == r.next - 1
           is == Grammar(t)
<1>1. SUFFICES ASSUME Ok(r) PROVE j \in i..n /\ t[j] = close /\ is[<<kind, i, j>>]
  BY DEF LoopFound
<1>2. n \in Nat /\ close # Comma /\ close # TheEnd /\ Comma # TheEnd /\ kind \in Kinds
  BY TextIs, LoopsAre, SymbolsDiffer, MarkersDiffer
<1>3. Ok(e) /\ (Peek(t, a) = close \/ Peek(t, a) = Comma)
  BY <1>1, LoopSteps DEF Ok
<1>4. a \in (i + 1)..(n + 1) /\ IsEntry(t, kind, i, a, is)
  BY <1>3, EntryFound
<1>5. a \in 1..(Len(t) + 1) /\ Peek(t, a) # TheEnd
  BY <1>2, <1>3, <1>4
<1>6. k \in a..n /\ Peek(t, a) = t[k] /\ After(t, a) = k + 1 /\ Blanks(t, a, k)
  BY <1>5, Seen, SkipBlanks
<1>7. k \in 1..(n + 1) /\ k \in i..n /\ k + 1 \in (i + 1)..(n + 1) /\ k + 1 - 1 = k
      /\ k + 1 \in 1..(n + 1)
  BY <1>2, <1>4, <1>6
<1>8. IsEntry(t, kind, i, k, is)
  BY <1>4, <1>5, <1>6, <1>7, EntryWidens
<1>9. \A m \in 1..(n + 1) :
        is[<<kind, i, m>>] <=>
          \/ IsEntry(t, kind, i, m, is)
          \/ \E b \in i..(m - 1) : t[b] = Comma /\ IsEntry(t, kind, i, b, is) /\ is[<<kind, b + 1, m>>]
  BY GrammarRules
<1>10. CASE Peek(t, a) = close
  <2>1. r.next = k + 1
    BY <1>3, <1>6, <1>10, LoopSteps
  <2>2. j = k
    BY <1>7, <2>1
  <2>3. is[<<kind, i, k>>]
    BY <1>7, <1>8, <1>9
  <2> HIDE DEF j
  <2>4. QED
    BY <1>6, <1>7, <1>10, <2>2, <2>3
<1>11. CASE Peek(t, a) = Comma
  <2> DEFINE next == Parsed(t)[<<kind, k + 1>>].next
             m == next - 1
  <2>1. r.next = next
    BY <1>3, <1>6, <1>11, LoopSteps
  <2>2. Ok(Parsed(t)[<<kind, k + 1>>])
    BY <1>1, <2>1 DEF Ok
  <2>3. m \in (k + 1)..n /\ t[m] = close /\ is[<<kind, k + 1, m>>]
    <3>1. LoopFound(t, kind, k + 1)
      BY <1>7
    <3>2. QED
      BY <2>2, <3>1 DEF LoopFound
  <2>4. j = m
    BY <2>1
  <2> HIDE DEF j, m, n
  <2>5. m \in 1..(n + 1) /\ k \in i..(m - 1) /\ m \in i..n
    BY <1>2, <1>7, <2>3
  <2>6. is[<<kind, i, m>>]
    <3>1. t[k] = Comma
      BY <1>6, <1>11
    <3> HIDE DEF k, is
    <3>2. QED
      BY <1>8, <1>9, <2>3, <2>5, <3>1, Zenon
  <2>7. QED
    BY <2>3, <2>4, <2>5, <2>6 DEF n
<1>12. QED
  BY <1>3, <1>10, <1>11

LEMMA LoopTakenBefore ==
  ASSUME NEW S, NEW t \in Seq(S), NEW i \in 1..(Len(t) + 1), NEW kind \in Loops,
         \A q \in i..(Len(t) + 1) : ValueTaken(t, q),
         \A q \in (i + 1)..(Len(t) + 1) : LoopTaken(t, kind, q)
  PROVE  LoopTaken(t, kind, i)
<1> DEFINE n == Len(t)
           close == CloseOf(kind)
           e == EntryAt(t, kind, i)
           is == Grammar(t)
<1>1. SUFFICES ASSUME NEW j \in i..n, t[j] = close, is[<<kind, i, j>>]
               PROVE  Parsed(t)[<<kind, i>>].next = j + 1
  BY DEF LoopTaken
<1>2. n \in Nat /\ close \in Marker /\ Comma \in Marker /\ j \in 1..n /\ j \in 1..(n + 1)
  BY TextIs, LoopsAre, MarkersDiffer
<1>3. CASE IsEntry(t, kind, i, j, is)
  <2>1. Reaches(t, e, j)
    BY <1>2, <1>3, EntryTaken
  <2>2. Ok(e) /\ Peek(t, e.next) = close /\ After(t, e.next) = j + 1
    BY <1>1, <1>2, <2>1, ReachesMark
  <2>3. QED
    BY <2>2, LoopSteps
<1>4. CASE \E k \in i..(j - 1) : t[k] = Comma /\ IsEntry(t, kind, i, k, is) /\ is[<<kind, k + 1, j>>]
  <2>1. PICK k \in i..(j - 1) : t[k] = Comma /\ IsEntry(t, kind, i, k, is) /\ is[<<kind, k + 1, j>>]
    BY <1>4
  <2>2. k \in 1..n /\ k \in 1..(n + 1) /\ k + 1 \in (i + 1)..(n + 1) /\ j \in (k + 1)..n
    BY <1>2
  <2>3. Reaches(t, e, k)
    BY <2>1, <2>2, EntryTaken
  <2>4. Ok(e) /\ Peek(t, e.next) = Comma /\ After(t, e.next) = k + 1
    BY <1>2, <2>1, <2>2, <2>3, ReachesMark
  <2>5. Parsed(t)[<<kind, i>>].next = Parsed(t)[<<kind, k + 1>>].next
    BY <2>4, LoopSteps
  <2>6. LoopTaken(t, kind, k + 1)
    BY <2>2
  <2>7. Parsed(t)[<<kind, k + 1>>].next = j + 1
    BY <1>1, <2>1, <2>2, <2>6 DEF LoopTaken
  <2>8. QED
    BY <2>5, <2>7
<1>5. QED
  BY <1>1, <1>2, <1>3, <1>4, GrammarRules

\* A value by the symbol that it begins with.
LEMMA ValueHereRules ==
  ASSUME NEW S, NEW t \in Seq(S), NEW c \in 1..Len(t), t[c] \notin White
  PROVE  LET r == Parsed(t)[<<"value", c>>]
         IN  /\ t[c] \in Words => r.next = c + 1
             /\ t[c] = Quote => r.next = ParseString(t, c).next
             /\ t[c] \in NumberStart => r.next = ParseNumber(t, c).next
             /\ \A kind \in Loops : t[c] = OpenOf(kind) =>
                  r.next = IF Peek(t, c + 1) = CloseOf(kind) THEN After(t, c + 1)
                           ELSE Parsed(t)[<<kind, c + 1>>].next
             /\ ~Starts(t[c]) => r.next = 0
<1> DEFINE r == Parsed(t)[<<"value", c>>]
           f == Parsed(t)
<1>1. c \in 1..(Len(t) + 1) /\ c \in c..Len(t) /\ \A i \in c..(c - 1) : t[i] \in White
  BY TextIs
<1>2. Skip(t, c) = c /\ Peek(t, c) = t[c]
  BY <1>1, SkipTo
<1>3. r = ParseValue(t, c, f)
  BY <1>1, PartsAre
<1>4. /\ t[c] \in Words => r = Read(Word(t[c]), c + 1)
      /\ t[c] = Quote => r = ParseString(t, c)
      /\ t[c] \in NumberStart => r = ParseNumber(t, c)
      /\ ~Starts(t[c]) => r = Failed
  <2> HIDE DEF f, r
  <2>1. /\ Peek(t, c) \in Words => r = Read(Word(Peek(t, c)), Skip(t, c) + 1)
        /\ Peek(t, c) = Quote => r = ParseString(t, Skip(t, c))
        /\ Peek(t, c) \in NumberStart => r = ParseNumber(t, Skip(t, c))
        /\ ~Starts(Peek(t, c)) => r = Failed
    BY <1>3, ValueRules
  <2>2. QED
    BY <1>2, <2>1
<1>5. ASSUME NEW kind \in Loops, t[c] = OpenOf(kind)
      PROVE  r.next = IF Peek(t, c + 1) = CloseOf(kind) THEN After(t, c + 1)
                      ELSE Parsed(t)[<<kind, c + 1>>].next
  <2>1. r = Inside(t, c + 1, CloseOf(kind), EmptyOf(kind), kind, f)
    BY <1>5, OpenRule
  <2> HIDE DEF r
  <2>2. QED
    BY <2>1, ReadOf DEF Inside
<1> HIDE DEF r
<1>6. /\ t[c] \in Words => r.next = c + 1
      /\ t[c] = Quote => r.next = ParseString(t, c).next
      /\ t[c] \in NumberStart => r.next = ParseNumber(t, c).next
      /\ ~Starts(t[c]) => r.next = 0
  BY <1>4, ReadOf, FailedIs
<1>7. \A kind \in Loops : t[c] = OpenOf(kind) =>
        r.next = IF Peek(t, c + 1) = CloseOf(kind) THEN After(t, c + 1)
                 ELSE Parsed(t)[<<kind, c + 1>>].next
  BY <1>5
<1>8. QED
  BY <1>6, <1>7, Zenon DEF r

LEMMA ValueFoundBefore ==
  ASSUME NEW S, NEW t \in Seq(S), NEW i \in 1..(Len(t) + 1),
         \A kind \in Loops : \A q \in (i + 1)..(Len(t) + 1) : LoopFound(t, kind, q)
  PROVE  ValueFound(t, i)
<1> DEFINE n == Len(t)
           c == Skip(t, i)
           d == Parsed(t)[<<"value", i>>].next
           is == Grammar(t)
<1>1. SUFFICES ASSUME Ok(Parsed(t)[<<"value", i>>]) PROVE is[<<"value", i, d>>]
  BY DEF ValueFound
<1>2. n \in Nat /\ d \in (i + 1)..(n + 1)
  BY <1>1, TextIs, ReadAdvances, KindsAre DEF Ok
<1>3. c \in i..(n + 1) /\ Blanks(t, i, c) /\ \A k \in i..(c - 1) : t[k] \in White
  BY SkipBlanks DEF Blanks
<1>4. Parsed(t)[<<"value", i>>] = Parsed(t)[<<"value", c>>]
  BY <1>3, ValueSkips
<1>5. d = Parsed(t)[<<"value", c>>].next
  BY <1>4
<1>6. c # n + 1
  BY <1>2, <1>5, EndFails, KindsAre
<1>7. c \in 1..n /\ c \in i..n /\ t[c] \notin White
  <2>1. c \in i..n
    BY <1>2, <1>3, <1>6
  <2>2. QED
    BY <1>2, <2>1, SkipIs
<1>8. d \in (c + 1)..(n + 1)
  <2>1. c \in 1..(n + 1)
    BY <1>2, <1>7
  <2>2. QED
    BY <1>2, <1>5, <2>1, ReadAdvances, KindsAre
<1>9. Starts(t[c])
  BY <1>2, <1>5, <1>7, ValueHereRules
<1> HIDE DEF c, d, is
<1>10. Blanks(t, c, c) /\ Skip(t, c) = c
  <2>1. c \in 1..(Len(t) + 1) /\ c \in c..Len(t) /\ \A k \in c..(c - 1) : t[k] \in White
    BY <1>2, <1>7
  <2>2. QED
    BY <1>2, <1>7, <2>1, SkipTo DEF Blanks
<1>11. IsCore(t, c, d, is)
  <2>1. CASE t[c] \in Words
    <3>1. d = c + 1
      BY <1>5, <1>7, <2>1, ValueHereRules
    <3>2. QED
      BY <2>1, <3>1, Zenon DEF IsCore
  <2>2. CASE t[c] = Quote
    <3>1. d = ParseString(t, c).next
      BY <1>5, <1>7, <2>2, ValueHereRules
    <3>2. Ok(ParseString(t, c)) /\ c \in 1..(Len(t) + 1)
      BY <1>2, <1>7, <3>1 DEF Ok
    <3>3. IsString(t, c, d)
      BY <1>10, <3>1, <3>2, StringFound
    <3>4. QED
      BY <3>3, Zenon DEF IsCore
  <2>3. CASE t[c] \in NumberStart
    <3>1. d = ParseNumber(t, c).next
      BY <1>5, <1>7, <2>3, ValueHereRules
    <3>2. Ok(ParseNumber(t, c))
      BY <1>2, <3>1 DEF Ok
    <3>3. IsNumber(SubSeq(t, c, d - 1))
      BY <1>7, <3>1, <3>2, NumberFound
    <3>4. QED
      BY <3>3, Zenon DEF IsCore
  <2>4. ASSUME NEW kind \in Loops, t[c] = OpenOf(kind) PROVE IsCore(t, c, d, is)
    <3> DEFINE close == CloseOf(kind)
               k == Skip(t, c + 1)
    <3>1. d = IF Peek(t, c + 1) = close THEN After(t, c + 1) ELSE Parsed(t)[<<kind, c + 1>>].next
      BY <1>5, <1>7, <2>4, ValueHereRules
    <3>2. c + 1 \in 1..(Len(t) + 1) /\ c + 1 \in (i + 1)..(n + 1)
      BY <1>2, <1>7
    <3>3. CASE Peek(t, c + 1) = close
      <4>1. Peek(t, c + 1) # TheEnd
        BY <3>3, LoopsAre
      <4>2. k \in (c + 1)..n /\ t[k] = close /\ After(t, c + 1) = k + 1 /\ Blanks(t, c + 1, k)
        BY <3>2, <3>3, <4>1, Seen, SkipBlanks
      <4> HIDE DEF k
      <4>3. d - 1 = k /\ c + 1 < d
        BY <1>2, <1>7, <3>1, <3>3, <4>2
      <4>4. Enclosed(t, c, d, OpenOf(kind), close)
        BY <2>4, <4>2, <4>3 DEF Enclosed
      <4>5. QED
        BY <4>2, <4>3, <4>4, Zenon DEF IsCore
    <3>4. CASE Peek(t, c + 1) # close
      <4>1. d = Parsed(t)[<<kind, c + 1>>].next
        BY <3>1, <3>4
      <4>2. Ok(Parsed(t)[<<kind, c + 1>>])
        BY <1>2, <4>1 DEF Ok
      <4>3. LoopFound(t, kind, c + 1)
        BY <3>2
      <4>4. d - 1 \in (c + 1)..n /\ t[d - 1] = close /\ is[<<kind, c + 1, d - 1>>]
        BY <4>1, <4>2, <4>3 DEF LoopFound, is
      <4>5. c + 1 < d
        BY <1>2, <1>7, <4>4
      <4>6. Enclosed(t, c, d, OpenOf(kind), close)
        BY <2>4, <4>4, <4>5 DEF Enclosed
      <4>7. QED
        BY <4>4, <4>6, Zenon DEF IsCore
    <3>5. QED
      BY <3>3, <3>4
  <2>5. "items" \in Loops /\ "members" \in Loops /\ OpenOf("items") = OpenArray
        /\ OpenOf("members") = OpenObject
    BY DEF Loops, OpenOf
  <2>6. QED
    BY <1>9, <2>1, <2>2, <2>3, <2>4, <2>5, Zenon DEF Starts
<1>12. c \in i..d /\ d \in i..d /\ c < d /\ Blanks(t, d, d) /\ d \in 1..(Len(t) + 1)
  BY <1>2, <1>7, <1>8 DEF Blanks
<1>13. QED
  BY <1>3, <1>11, <1>12, GrammarRules DEF is

\* An array or object that has entries does not begin with its end.
LEMMA LoopBegins ==
  ASSUME NEW S, NEW t \in Seq(S), NEW i \in 1..(Len(t) + 1), NEW j \in 1..(Len(t) + 1),
         NEW kind \in Loops, \A q \in i..(Len(t) + 1) : ValueTaken(t, q),
         Grammar(t)[<<kind, i, j>>]
  PROVE  i < j /\ Peek(t, i) # CloseOf(kind)
<1> DEFINE is == Grammar(t)
<1>1. \/ IsEntry(t, kind, i, j, is)
      \/ \E k \in i..(j - 1) : t[k] = Comma /\ IsEntry(t, kind, i, k, is) /\ is[<<kind, k + 1, j>>]
  BY GrammarRules
<1>2. PICK k \in 1..(Len(t) + 1) : k <= j /\ IsEntry(t, kind, i, k, is)
  <2>1. CASE IsEntry(t, kind, i, j, is)
    BY <2>1
  <2>2. CASE \E k \in i..(j - 1) : t[k] = Comma /\ IsEntry(t, kind, i, k, is) /\ is[<<kind, k + 1, j>>]
    <3>1. PICK k \in i..(j - 1) : IsEntry(t, kind, i, k, is)
      BY <2>2
    <3>2. k \in 1..(Len(t) + 1) /\ k <= j
      BY TextIs
    <3>3. QED
      BY <3>1, <3>2
  <2>3. QED
    BY <1>1, <2>1, <2>2
<1>3. i < k /\ Starts(Peek(t, i))
  BY <1>2, EntryTaken
<1>4. Peek(t, i) # CloseArray /\ Peek(t, i) # CloseObject
  BY <1>3, StartsAre
<1>5. CloseOf(kind) = CloseArray \/ CloseOf(kind) = CloseObject
  BY DEF CloseOf
<1>6. QED
  BY <1>2, <1>3, <1>4, <1>5, TextIs

LEMMA ValueTakenBefore ==
  ASSUME NEW S, NEW t \in Seq(S), NEW i \in 1..(Len(t) + 1),
         \A q \in (i + 1)..(Len(t) + 1) : ValueTaken(t, q),
         \A kind \in Loops : \A q \in (i + 1)..(Len(t) + 1) : LoopTaken(t, kind, q)
  PROVE  ValueTaken(t, i)
<1> DEFINE n == Len(t)
           is == Grammar(t)
           r == Parsed(t)[<<"value", i>>]
<1>1. SUFFICES ASSUME NEW j \in 1..(n + 1), is[<<"value", i, j>>] PROVE Reaches(t, r, j)
  BY DEF ValueTaken
<1>2. PICK c \in i..j, d \in i..j : c < d /\ Blanks(t, i, c) /\ Blanks(t, d, j) /\ IsCore(t, c, d, is)
  BY <1>1, GrammarRules
<1>3. /\ n \in Nat /\ c \in 1..n /\ c \in i..(n + 1) /\ c \in 1..(n + 1) /\ d \in (c + 1)..(n + 1)
      /\ c \in i..n /\ d \in 1..(n + 1) /\ d <= j /\ c + 1 \in (i + 1)..(n + 1) /\ c + 1 \in 1..(n + 1)
  BY <1>2, TextIs
<1>4. t[c] \notin White
  BY <1>2, <1>3, CoreStarts
<1>5. r = Parsed(t)[<<"value", c>>]
  <2>1. \A k \in i..(c - 1) : t[k] \in White
    BY <1>2 DEF Blanks
  <2>2. QED
    BY <1>3, <2>1, ValueSkips
<1> HIDE DEF is, r
<1>6. ASSUME r.next = d PROVE Reaches(t, r, j)
  BY <1>2, <1>3, <1>6 DEF Reaches
<1>7. CASE d = c + 1 /\ t[c] \in Words
  <2>1. r.next = d
    BY <1>3, <1>4, <1>5, <1>7, ValueHereRules
  <2>2. QED
    BY <1>6, <2>1
<1>8. CASE IsNumber(SubSeq(t, c, d - 1))
  <2>1. /\ t[c] \in NumberStart /\ ParseNumber(t, c).next >= d
        /\ ParseNumber(t, c).next > d => d <= Len(t) /\ t[d] \in Digits
    BY <1>3, <1>8, NumberTaken
  <2>2. r.next = ParseNumber(t, c).next
    BY <1>3, <1>4, <1>5, <2>1, ValueHereRules
  <2>3. r.next = 0 \/ r.next \in (c + 1)..(n + 1)
    BY <1>3, <1>5, ReadAdvances, KindsAre
  <2>4. CASE r.next > d
    <3>1. d <= n /\ t[d] \in Digits
      BY <2>1, <2>2, <2>4
    <3>2. t[d] \notin White
      <4>1. t[d] \in NumberStart
        BY <3>1, Zenon DEF NumberStart
      <4>2. QED
        BY <4>1, SymbolsDiffer
    <3>3. d = j
      <4>1. d < j => d \in d..(j - 1)
        BY <1>3
      <4>2. QED
        BY <1>2, <1>3, <3>2, <4>1 DEF Blanks
    <3>4. r.next \in 1..(Len(t) + 1)
      BY <1>3, <2>3, <2>4
    <3>5. QED
      BY <1>3, <2>4, <3>1, <3>3, <3>4 DEF Reaches
  <2>5. CASE ~(r.next > d)
    <3>1. r.next = d
      BY <1>3, <2>1, <2>2, <2>3, <2>5
    <3>2. QED
      BY <1>6, <3>1
  <2>6. QED
    BY <2>4, <2>5
<1>9. CASE IsString(t, c, d)
  <2>1. c \in c..Len(t) /\ Blanks(t, c, c)
    BY <1>3 DEF Blanks
  <2>2. Peek(t, c) = Quote /\ ParseString(t, c).next = d
    BY <1>3, <1>9, <2>1, StringTaken
  <2>3. t[c] = Quote
    BY <1>9, Zenon DEF IsString, Enclosed
  <2>4. r.next = d
    BY <1>3, <1>4, <1>5, <2>2, <2>3, ValueHereRules
  <2>5. QED
    BY <1>6, <2>4
<1>10. ASSUME NEW kind \in Loops, Enclosed(t, c, d, OpenOf(kind), CloseOf(kind)),
              Blanks(t, c + 1, d - 1) \/ is[<<kind, c + 1, d - 1>>]
       PROVE  Reaches(t, r, j)
  <2> DEFINE close == CloseOf(kind)
             m == d - 1
  <2>1. /\ t[c] = OpenOf(kind) /\ t[m] = close /\ c + 1 < d /\ m \in (c + 1)..n /\ m + 1 = d
        /\ m \in 1..(n + 1)
    BY <1>3, <1>10 DEF Enclosed
  <2> HIDE DEF m
  <2>2. r.next = IF Peek(t, c + 1) = close THEN After(t, c + 1) ELSE Parsed(t)[<<kind, c + 1>>].next
    BY <1>3, <1>4, <1>5, <2>1, ValueHereRules
  <2>3. CASE Blanks(t, c + 1, m)
    <3>1. t[m] \notin White
      BY <2>1, LoopsAre
    <3>2. Peek(t, c + 1) = close /\ After(t, c + 1) = m + 1
      BY <1>3, <2>1, <2>3, <3>1, SkipBlanks
    <3>3. r.next = d
      BY <2>1, <2>2, <3>2
    <3>4. QED
      BY <1>6, <3>3
  <2>4. CASE is[<<kind, c + 1, m>>]
    <3>1. \A q \in (c + 1)..(n + 1) : ValueTaken(t, q)
      BY <1>3
    <3>2. Peek(t, c + 1) # close
      BY <1>3, <2>1, <2>4, <3>1, LoopBegins DEF is
    <3>3. LoopTaken(t, kind, c + 1)
      BY <1>3
    <3>4. Parsed(t)[<<kind, c + 1>>].next = m + 1
      BY <2>1, <2>4, <3>3 DEF LoopTaken, is
    <3>5. r.next = d
      BY <2>1, <2>2, <3>2, <3>4
    <3>6. QED
      BY <1>6, <3>5
  <2>5. QED
    BY <1>10, <2>3, <2>4 DEF m
<1>11. QED
  BY <1>2, <1>7, <1>8, <1>9, <1>10, Zenon DEF IsCore

\* All of it, for the places from i on.
ReadRightFrom(t, i) ==
  \A q \in i..(Len(t) + 1) : /\ ValueFound(t, q) /\ ValueTaken(t, q)
                             /\ \A kind \in Loops : LoopFound(t, kind, q) /\ LoopTaken(t, kind, q)

LEMMA ReadRightBefore ==
  ASSUME NEW S, NEW t \in Seq(S), NEW i \in 1..(Len(t) + 1), ReadRightFrom(t, i + 1)
  PROVE  ReadRightFrom(t, i)
<1>1. ValueFound(t, i)
  BY ValueFoundBefore DEF ReadRightFrom
<1>2. ValueTaken(t, i)
  BY ValueTakenBefore DEF ReadRightFrom
<1>3. \A q \in i..(Len(t) + 1) : q = i \/ q \in (i + 1)..(Len(t) + 1)
  BY TextIs
<1>4. \A q \in i..(Len(t) + 1) : ValueFound(t, q) /\ ValueTaken(t, q)
  BY <1>1, <1>2, <1>3 DEF ReadRightFrom
<1>5. ASSUME NEW kind \in Loops PROVE LoopFound(t, kind, i) /\ LoopTaken(t, kind, i)
  <2>1. \A q \in (i + 1)..(Len(t) + 1) : LoopFound(t, kind, q) /\ LoopTaken(t, kind, q)
    BY DEF ReadRightFrom
  <2>2. QED
    BY <1>4, <2>1, LoopFoundBefore, LoopTakenBefore
<1>6. QED
  BY <1>3, <1>4, <1>5 DEF ReadRightFrom

\* json_parse, of any text: each part of the reader finds what the grammar says is there and
\* nothing else, wherever it begins.
THEOREM ReaderIsRight ==
  ASSUME NEW S, NEW t \in Seq(S)
  PROVE  ReadRightFrom(t, 1)
<1> DEFINE n == Len(t)
           T == {i \in 1..(n + 3) : ReadRightFrom(t, i)}
<1>1. n \in Nat
  BY TextIs
<1>2. n + 1 \in Nat /\ n + 1 + 1 \in T /\ n + 1 + 2 \in T
  BY <1>1 DEF ReadRightFrom
<1>3. ASSUME NEW i \in 1..(n + 1), i + 1 \in T PROVE i \in T
  <2>1. ReadRightFrom(t, i)
    BY <1>3, ReadRightBefore
  <2>2. QED
    BY <1>1, <2>1
<1> HIDE DEF T, n
<1>4. \A i \in 1..(n + 1 + 2) : i \in T
  BY ONLY <1>2, <1>3, Downwards
<1>5. 1 \in T
  BY <1>1, <1>4
<1>6. QED
  BY <1>5 DEF T

-----------------------------------------------------------------------------
(* What is typed.                                                          *)

\* It is a text.
Typed == state = "typing" => text \in Seq(Alphabet)

LEMMA TypedAlways == DocSpec => []Typed
<1>1. DocInit => Typed
  BY TypingAssumption DEF DocInit, Typed
<1>2. Typed /\ [DocNext]_docVars => Typed'
  <2> SUFFICES ASSUME Typed, [DocNext]_docVars PROVE Typed'
    OBVIOUS
  <2>1. ASSUME NEW c \in Alphabet, Type(c) PROVE Typed'
    <3>1. text \in Seq(Alphabet) /\ text' = Append(text, c)
      BY <2>1 DEF Type, Typed
    <3>2. text' \in Seq(Alphabet)
      BY <3>1
    <3>3. QED
      BY <3>2 DEF Typed
  <2>2. CASE Build
    BY <2>2 DEF Build, Typed
  <2>3. CASE Write
    BY <2>3 DEF Write, Typed
  <2>4. CASE CutShort
    BY <2>4 DEF CutShort, Typed
  <2>5. CASE UNCHANGED docVars
    BY <2>5 DEF docVars, Typed
  <2>6. QED
    BY <2>1, <2>2, <2>3, <2>4, <2>5 DEF DocNext
<1>3. QED
  BY <1>1, <1>2, PTL DEF DocSpec

(***************************************************************************)
(* Whatever is typed, json_parse reads it exactly when it begins with      *)
(* JSON, and reads the longest such beginning but for the blanks that      *)
(* follow it.                                                              *)
(***************************************************************************)
THEOREM ReadsJsonAlways == DocSpec => []ReadsJson
<1>1. Typed => ReadsJson
  <2> DEFINE n == Len(text)
             r == Parse(text)
             is == Grammar(text)
             values == {m \in 0..n : is[<<"value", 1, m + 1>>]}
  <2> SUFFICES ASSUME Typed, state = "typing"
               PROVE  /\ Ok(r) <=> values # {}
                      /\ Ok(r) => /\ r.next - 1 \in values
                                  /\ \A m \in values : \A k \in r.next..m : text[k] \in White
    BY DEF ReadsJson
  <2>1. text \in Seq(Alphabet)
    BY DEF Typed
  <2>2. n \in Nat /\ 1 \in 1..(n + 1)
    BY <2>1, TextIs
  <2>3. ValueFound(text, 1) /\ ValueTaken(text, 1)
    BY <2>1, <2>2, ReaderIsRight DEF ReadRightFrom
  <2>4. r = Parsed(text)[<<"value", 1>>]
    BY DEF Parse
  <2>5. ASSUME Ok(r) PROVE r.next - 1 \in values
    <3>1. r.next \in 2..(n + 1)
      BY <2>1, <2>2, <2>4, <2>5, ReadAdvances, KindsAre DEF Ok
    <3>2. is[<<"value", 1, r.next>>]
      BY <2>3, <2>4, <2>5 DEF ValueFound
    <3> DEFINE m == r.next - 1
    <3>3. m \in 0..n /\ m + 1 = r.next
      BY <2>2, <3>1
    <3> HIDE DEF m, r, is, n
    <3>4. m \in values
      BY <3>2, <3>3
    <3>5. QED
      BY <3>4 DEF m
  <2>6. ASSUME NEW m \in values
        PROVE  Ok(r) /\ \A k \in r.next..m : text[k] \in White
    <3>1. m + 1 \in 1..(n + 1) /\ is[<<"value", 1, m + 1>>]
      BY <2>2
    <3>2. Reaches(text, r, m + 1)
      BY <2>3, <2>4, <3>1 DEF ValueTaken
    <3> HIDE DEF r, is
    <3>3. r.next \in 1..(n + 1) /\ (r.next <= m + 1 => Blanks(text, r.next, m + 1))
      BY <3>2 DEF Reaches
    <3>4. Ok(r)
      BY <3>3 DEF Ok
    <3>5. ASSUME NEW k \in r.next..m PROVE text[k] \in White
      <4>1. r.next <= m + 1 /\ m + 1 - 1 = m
        BY <2>2, <3>3, <3>5
      <4>2. QED
        BY <3>3, <4>1 DEF Blanks
    <3>6. QED
      BY <3>4, <3>5
  <2> HIDE DEF r, values
  <2>7. QED
    BY <2>5, <2>6
<1>2. QED
  BY <1>1, TypedAlways, PTL
=============================================================================
