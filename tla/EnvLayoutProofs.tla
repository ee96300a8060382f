-------------------------- MODULE EnvLayoutProofs --------------------------
(***************************************************************************)
(* The data of module Env, for every set of variables, values and sizes:   *)
(* what _do_setenv does to the cells keeps the layout of the environment   *)
(* and changes the variable it names and no other.                         *)
(***************************************************************************)
EXTENDS Env, TLAPS

\* Where definitions begin among the first u cells.
Begins(d, u) == {i \in 1 .. u : d[i] # NUL /\ (i = 1 \/ d[i - 1] = NUL)}

\* The first u cells of d are definitions, complete and each of another
\* variable, and a NUL closes them.
Layout(d, u) ==
  /\ u \in 0 .. ENV_SIZE - 1 /\ d[u + 1] = NUL
  /\ u = 0 => d[2] = NUL
  /\ u > 0 => d[1] # NUL /\ d[u] = NUL
  /\ \A i \in 1 .. u - 1 : d[i] # NUL \/ d[i + 1] # NUL
  /\ \A i \in Begins(d, u) : \E n \in Name, v \in Value : At(d, i, n, v)
  /\ \A i, j \in Begins(d, u) : d[i][1] = d[j][1] => i = j

-----------------------------------------------------------------------------
(* Least elements and sequences.                                           *)

\* Min returns an element that is not greater than any other.
LEMMA MinIs ==
  ASSUME NEW S \in SUBSET Int, NEW a \in S, \A y \in S : a <= y
  PROVE  Min(S) = a
<1>1. Min(S) \in S /\ \A y \in S : Min(S) <= y
  BY ZenonT(30) DEF Min
<1>2. Min(S) \in Int /\ a \in Int /\ Min(S) <= a /\ a <= Min(S)
  BY ZenonT(30), <1>1
<1>q. QED
  BY <1>2

\* Two sequences of cells, one after the other.
LEMMA Concat ==
  ASSUME NEW s \in Seq(Cell), NEW t \in Seq(Cell)
  PROVE  /\ s \o t \in Seq(Cell) /\ Len(s \o t) = Len(s) + Len(t)
         /\ \A i \in 1 .. Len(s) + Len(t) : (s \o t)[i] = IF i <= Len(s) THEN s[i] ELSE t[i - Len(s)]
OBVIOUS

\* The elements of a sequence of cells, and the empty one.
LEMMA Elements ==
  ASSUME NEW s \in Seq(Cell)
  PROVE  /\ \A i \in 1 .. Len(s) : s[i] \in Cell
         /\ s = <<>> <=> Len(s) = 0
         /\ Len(s) \in Nat
OBVIOUS

-----------------------------------------------------------------------------
(* The layout.                                                             *)

\* Characters are not NUL.
LEMMA NotNul == \A n, v, k : <<n, v, k>> # NUL
  BY Zenon DEF NUL

\* The search for the double NUL finds the end, and the scans for names the
\* beginnings.
LEMMA LayoutUsed ==
  ASSUME NEW d, NEW u, Layout(d, u)
  PROVE  /\ Used(d) = u /\ Starts(d) = Begins(d, u)
         /\ \E env \in Ends(d) : \A y \in Ends(d) : env <= y
<1>1. u \in Nat /\ u <= ENV_SIZE - 1 /\ ENV_SIZE \in Nat /\ ENV_SIZE > 1
  BY SizeAssumption DEF Layout
<1>2. CASE u = 0
  <2>1. 1 \in Ends(d)
    BY <1>1, <1>2 DEF Ends, Layout
  <2>2. Ends(d) \in SUBSET Int /\ \A y \in Ends(d) : 1 <= y
    BY <1>1 DEF Ends
  <2>3. Min(Ends(d)) = 1
    BY Zenon, <2>1, <2>2, MinIs
  <2>q. QED
    BY Zenon, <1>2, <2>1, <2>2, <2>3 DEF Used, Starts, Begins
<1>3. CASE u > 0
  <2>1. d[1] # NUL /\ d[u] = NUL /\ d[u + 1] = NUL
    BY Zenon, <1>3 DEF Layout
  <2>2. u # 1 /\ u \in Ends(d)
    BY <1>1, <1>3, <2>1 DEF Ends
  <2>3. Ends(d) \in SUBSET Int /\ \A y \in Ends(d) : u <= y
    BY <1>1 DEF Ends, Layout
  <2>4. Min(Ends(d)) = u
    BY Zenon, <2>2, <2>3, MinIs
  <2>q. QED
    BY Zenon, <2>2, <2>3, <2>4 DEF Used, Starts, Begins
<1>q. QED
  BY <1>1, <1>2, <1>3

\* Sound says the same.
LEMMA LayoutSound ==
  ASSUME NEW d, NEW u, Layout(d, u)
  PROVE  Sound(d)
<1>1. /\ Used(d) = u /\ Starts(d) = Begins(d, u)
      /\ \E env \in Ends(d) : \A y \in Ends(d) : env <= y
  BY Zenon, LayoutUsed
<1>2. d[1] = NUL => u = 0
  BY SizeAssumption DEF Layout
<1>3. /\ \A i \in Begins(d, u) : \E n \in Name, v \in Value : At(d, i, n, v)
      /\ \A i, j \in Begins(d, u) : d[i][1] = d[j][1] => i = j
  BY Zenon DEF Layout
<1>4. /\ \A i \in Starts(d) : \E n \in Name, v \in Value : At(d, i, n, v)
      /\ \A i, j \in Starts(d) : d[i][1] = d[j][1] => i = j
  BY <1>1, <1>3
<1>q. QED
  BY Zenon, <1>1, <1>2, <1>4 DEF Sound

\* And the other way round: the first double NUL is the end.
LEMMA SoundLayout ==
  ASSUME NEW d, Sound(d)
  PROVE  Layout(d, Used(d))
<1> DEFINE m == Min(Ends(d))
<1>1. ENV_SIZE \in Nat /\ ENV_SIZE > 1 /\ Ends(d) \in SUBSET Nat
  BY SizeAssumption DEF Ends
<1>2. m \in Ends(d) /\ \A y \in Ends(d) : m <= y
  BY Zenon DEF Sound, Min
<1> HIDE DEF m
<1>3. m \in 1 .. ENV_SIZE - 1 /\ d[m] = NUL /\ d[m + 1] = NUL
  BY Zenon, <1>2 DEF Ends
<1>4. \A i \in 1 .. m - 1 : d[i] # NUL \/ d[i + 1] # NUL
  BY <1>1, <1>2, <1>3 DEF Ends
<1>5. Used(d) = IF m = 1 THEN 0 ELSE m
  BY Zenon DEF Used, m
<1>6. Starts(d) = Begins(d, Used(d))
  BY Zenon DEF Starts, Begins
<1>7. d[1] = NUL => Used(d) = 0
  BY Zenon DEF Sound
<1>8. /\ \A i \in Begins(d, Used(d)) : \E n \in Name, v \in Value : At(d, i, n, v)
      /\ \A i, j \in Begins(d, Used(d)) : d[i][1] = d[j][1] => i = j
  BY <1>6, Zenon DEF Sound
<1>9. CASE m = 1
  <2>1. Used(d) = 0
    BY Zenon, <1>5, <1>9
  <2>2. d[0 + 1] = NUL /\ d[2] = NUL
    BY <1>3, <1>9
  <2>q. QED
    BY <1>1, <1>8, <2>1, <2>2 DEF Layout
<1>10. CASE m # 1
  <2>1. Used(d) = m /\ m > 0
    BY <1>3, <1>5, <1>10
  <2>q. QED
    BY <1>1, <1>3, <1>4, <1>7, <1>8, <2>1 DEF Layout
<1>q. QED
  BY Zenon, <1>9, <1>10
-----------------------------------------------------------------------------
(* Definitions and names.                                                  *)

\* What begins at i is complete, and contains no NUL but its last cell.
LEMMA Whole ==
  ASSUME NEW d, NEW u, Layout(d, u), NEW i \in Begins(d, u), NEW n \in Name, NEW v \in Value, At(d, i, n, v)
  PROVE  /\ i \in 1 .. u /\ Size[n][v] \in Nat \ {0} /\ d[i] = <<n, v, 1>>
         /\ \A j \in i .. i + Size[n][v] - 1 : d[j] # NUL
         /\ i + Size[n][v] <= u /\ d[i + Size[n][v]] = NUL
<1>1. i \in 1 .. u /\ u \in Nat /\ Size[n][v] \in Nat \ {0}
  BY SizeAssumption DEF Layout, Begins
<1> DEFINE s == Size[n][v]
<1>2. d[i + s] = NUL /\ \A k \in 1 .. s : d[i + k - 1] = <<n, v, k>>
  BY Zenon DEF At
<1> HIDE DEF s
<1>3. s \in Nat \ {0}
  BY Zenon, <1>1 DEF s
<1>4. ASSUME NEW j \in i .. i + s - 1 PROVE d[j] # NUL
  <2>1. j - i + 1 \in 1 .. s /\ i + (j - i + 1) - 1 = j
    BY <1>1, <1>3
  <2>2. d[j] = <<n, v, j - i + 1>>
    BY Zenon, <1>2, <2>1
  <2>q. QED
    BY Zenon, <2>2, NotNul
<1>5. d[i] = <<n, v, 1>>
  <2>1. 1 \in 1 .. s /\ i + 1 - 1 = i
    BY <1>1, <1>3
  <2>q. QED
    BY Zenon, <1>2, <2>1
<1>6. i + s <= u
  <2>1. d[u] = NUL
    BY <1>1 DEF Layout
  <2>2. u \notin i .. i + s - 1
    BY Zenon, <1>4, <2>1
  <2>q. QED
    BY <1>1, <1>3, <2>2
<1>q. QED
  BY Zenon, <1>1, <1>2, <1>4, <1>5, <1>6 DEF s

\* The scans find a variable where it is defined, and nowhere else.
LEMMA Found ==
  ASSUME NEW d, NEW u, Layout(d, u), NEW i \in Begins(d, u)
  PROVE  /\ Defined(d, d[i][1]) /\ Place(d, d[i][1]) = i
         /\ getenv(d, d[i][1]) = d[i][2] /\ d[i][2] \in Value /\ d[i][1] \in Name
<1>1. PICK n \in Name, v \in Value : At(d, i, n, v)
  BY Zenon DEF Layout
<1>2. d[i] = <<n, v, 1>> /\ i \in 1 .. u
  BY <1>1, Whole
<1>3. d[i][1] = n /\ d[i][2] = v /\ d[i][3] = 1 /\ i \in Int
  BY <1>2
<1>4. Starts(d) = Begins(d, u)
  BY Zenon, LayoutUsed
<1>5. i \in envmatch(d, n)
  BY Zenon, <1>3, <1>4 DEF envmatch
<1>6. envmatch(d, n) = {i}
  BY ZenonT(30), <1>3, <1>4, <1>5 DEF envmatch, Layout
<1>7. Place(d, n) = i
  <2>1. {i} \in SUBSET Int /\ \A y \in {i} : i <= y
    BY <1>3
  <2>q. QED
    BY ZenonT(30), <1>6, <2>1, MinIs DEF Place
<1>q. QED
  BY Zenon, <1>3, <1>5, <1>7 DEF Defined, getenv

\* A name that no definition begins with is not found.
LEMMA Missing ==
  ASSUME NEW d, NEW u, Layout(d, u), NEW n, \A i \in Begins(d, u) : d[i][1] # n
  PROVE  ~ Defined(d, n) /\ getenv(d, n) = Unset
<1>1. Starts(d) = Begins(d, u)
  BY Zenon, LayoutUsed
<1>q. QED
  BY Zenon, <1>1 DEF Defined, getenv, envmatch

\* A variable that is found is at a beginning.
LEMMA DefinedBegins ==
  ASSUME NEW d, NEW u, Layout(d, u), NEW n, Defined(d, n)
  PROVE  Place(d, n) \in Begins(d, u) /\ d[Place(d, n)][1] = n
<1>1. PICK i \in Begins(d, u) : d[i][1] = n
  BY Zenon, Missing
<1>q. QED
  BY Zenon, <1>1, Found

\* What a variable is read as is a value, or nothing.
LEMMA ReadType ==
  ASSUME NEW d, NEW u, Layout(d, u), NEW n
  PROVE  getenv(d, n) \in Value \cup {Unset} /\ (Defined(d, n) <=> getenv(d, n) # Unset)
<1>1. CASE Defined(d, n)
  <2>1. getenv(d, n) \in Value
    BY <1>1, DefinedBegins, Found
  <2>q. QED
    BY Zenon, <1>1, <2>1, ValueAssumption
<1>2. CASE ~ Defined(d, n)
  BY Zenon, <1>2 DEF getenv
<1>q. QED
  BY Zenon, <1>1, <1>2

-----------------------------------------------------------------------------
(* Deleting a variable.                                                    *)

\* A part of the data.
LEMMA PartOf ==
  ASSUME NEW d \in Data, NEW p \in 1 .. ENV_SIZE + 1, NEW q \in 0 .. ENV_SIZE, p <= q + 1
  PROVE  /\ SubSeq(d, p, q) \in Seq(Cell) /\ Len(SubSeq(d, p, q)) = q - p + 1
         /\ \A i \in 1 .. q - p + 1 : SubSeq(d, p, q)[i] = d[p + i - 1]
<1>1. p \in Int /\ q \in Int /\ \A i \in p .. q : d[i] \in Cell
  BY SizeAssumption DEF Data
<1>2. /\ SubSeq(d, p, q) \in Seq(Cell)
      /\ Len(SubSeq(d, p, q)) = IF p <= q THEN q - p + 1 ELSE 0
      /\ \A i \in 1 .. q - p + 1 : SubSeq(d, p, q)[i] = d[p + i - 1]
  BY <1>1
<1>q. QED
  BY <1>1, <1>2

\* The definition from a to b is cut out of the first u cells of d.
Cut(d, e, u, a, b) ==
  LET w == b - a + 1
  IN  /\ \A i \in 1 .. a - 1 : e[i] = d[i]
      /\ \A i \in a .. u - w : e[i] = d[i + w]
      /\ e[u - w + 1] = NUL
      /\ u - w = 0 => e[2] = NUL

\* Delete cuts out the definition of its variable, with its NUL.
LEMMA DeleteCuts ==
  ASSUME NEW d \in Data, NEW u, Layout(d, u), NEW a \in Begins(d, u)
  PROVE  LET e == Delete(d, d[a][1])
         IN  /\ e \in Data
             /\ \E b \in a + 1 .. u : /\ d[b] = NUL /\ \A j \in a .. b - 1 : d[j] # NUL
                                      /\ Cut(d, e, u, a, b)
<1> DEFINE n == d[a][1]
           e == Delete(d, n)
<1>1. PICK m \in Name, v \in Value : At(d, a, m, v)
  BY Zenon DEF Layout
<1>2. /\ a \in 1 .. u /\ Size[m][v] \in Nat \ {0}
      /\ \A j \in a .. a + Size[m][v] - 1 : d[j] # NUL
      /\ a + Size[m][v] <= u /\ d[a + Size[m][v]] = NUL
  BY <1>1, Whole
<1>3. u \in Nat /\ u <= ENV_SIZE - 1 /\ ENV_SIZE \in Nat /\ a \in Nat /\ a > 0
  BY <1>2, SizeAssumption DEF Layout
<1>4. PICK b \in a + 1 .. u : d[b] = NUL /\ \A j \in a .. b - 1 : d[j] # NUL
  BY <1>2, <1>3
<1>5. Defined(d, n) /\ Place(d, n) = a /\ Used(d) = u
  BY Zenon, Found, LayoutUsed
<1>6. Min({i \in a .. u : d[i] = NUL}) = b
  <2> DEFINE S == {i \in a .. u : d[i] = NUL}
  <2>1. S \in SUBSET Int /\ b \in S
    BY <1>3, <1>4
  <2>2. \A y \in S : b <= y
    BY <1>3, <1>4
  <2>q. QED
    BY Zenon, <2>1, <2>2, MinIs
<1> DEFINE s1 == SubSeq(d, 1, a - 1)
           s2 == SubSeq(d, b + 1, u)
           s == s1 \o s2
<1>7. e = Store(d, s)
  BY Zenon, <1>5, <1>6 DEF Delete
<1>8. \A i \in 1 .. ENV_SIZE : d[i] \in Cell
  BY Zenon DEF Data
<1>9. b \in Int /\ b <= u /\ a < b
  BY <1>3, <1>4
<1>10. s1 \in Seq(Cell) /\ Len(s1) = a - 1 /\ \A i \in 1 .. a - 1 : s1[i] = d[i]
  <2>1. 1 \in 1 .. ENV_SIZE + 1 /\ a - 1 \in 0 .. ENV_SIZE /\ 1 <= (a - 1) + 1 /\ (a - 1) - 1 + 1 = a - 1
    BY <1>2, <1>3
  <2>2. s1 \in Seq(Cell) /\ Len(s1) = a - 1 /\ \A i \in 1 .. a - 1 : s1[i] = d[1 + i - 1]
    BY Zenon, <2>1, PartOf
  <2>q. QED
    BY <1>3, <2>2
<1>11. s2 \in Seq(Cell) /\ Len(s2) = u - b /\ \A i \in 1 .. u - b : s2[i] = d[b + i]
  <2>1. b + 1 \in 1 .. ENV_SIZE + 1 /\ u \in 0 .. ENV_SIZE /\ b + 1 <= u + 1 /\ u - (b + 1) + 1 = u - b
    BY <1>3, <1>9
  <2>2. s2 \in Seq(Cell) /\ Len(s2) = u - b /\ \A i \in 1 .. u - b : s2[i] = d[b + 1 + i - 1]
    BY Zenon, <2>1, PartOf
  <2>q. QED
    BY <1>3, <1>9, <2>2
<1> HIDE DEF s1, s2
<1>12. /\ s \in Seq(Cell) /\ Len(s) = (a - 1) + (u - b)
       /\ \A i \in 1 .. (a - 1) + (u - b) : s[i] = IF i <= a - 1 THEN s1[i] ELSE s2[i - (a - 1)]
  <2>1. /\ s \in Seq(Cell) /\ Len(s) = Len(s1) + Len(s2)
        /\ \A i \in 1 .. Len(s1) + Len(s2) : s[i] = IF i <= Len(s1) THEN s1[i] ELSE s2[i - Len(s1)]
    BY <1>10, <1>11, Concat, Zenon
  <2>q. QED
    BY <1>10, <1>11, <2>1, Zenon
<1> HIDE DEF s
<1>13. (s = <<>>) <=> (u - (b - a + 1) = 0)
  BY <1>3, <1>9, <1>12, Elements
<1>14. e = [i \in 1 .. ENV_SIZE |-> IF i <= Len(s) THEN s[i]
              ELSE IF i = Len(s) + 1 \/ (s = <<>> /\ i = 2) THEN NUL ELSE d[i]]
  BY Zenon, <1>7 DEF Store
<1> HIDE DEF e
<1>15. Cut(d, e, u, a, b)
  <2>1. Len(s) \in Nat /\ Len(s) = u - (b - a + 1) /\ Len(s) < u /\ u < ENV_SIZE
    BY <1>2, <1>3, <1>9, <1>12
  <2>2. ASSUME NEW i \in 1 .. a - 1 PROVE e[i] = d[i]
    BY <1>2, <1>3, <1>9, <1>10, <1>12, <1>14, <2>1
  <2>3. ASSUME NEW i \in a .. u - (b - a + 1) PROVE e[i] = d[i + (b - a + 1)]
    <3>1. i \in 1 .. ENV_SIZE /\ i <= Len(s) /\ i \in 1 .. (a - 1) + (u - b) /\ ~(i <= a - 1)
          /\ i - (a - 1) \in 1 .. u - b /\ b + (i - (a - 1)) = i + (b - a + 1)
      BY <1>2, <1>3, <1>9, <1>12, <2>1
    <3>2. e[i] = s[i] /\ s[i] = s2[i - (a - 1)] /\ s2[i - (a - 1)] = d[b + (i - (a - 1))]
      BY Zenon, <1>11, <1>12, <1>14, <3>1
    <3>q. QED
      BY Zenon, <3>1, <3>2
  <2>4. e[u - (b - a + 1) + 1] = NUL
    BY <1>3, <1>14, <2>1
  <2>5. u - (b - a + 1) = 0 => e[2] = NUL
    BY <1>3, <1>13, <1>14, <2>1, SizeAssumption
  <2>q. QED
    BY Zenon, <2>2, <2>3, <2>4, <2>5 DEF Cut
<1>16. e \in Data
  <2>1. ASSUME NEW i \in 1 .. ENV_SIZE, i <= Len(s) PROVE s[i] \in Cell
    BY <1>3, <1>12, <2>1, Elements
  <2>2. NUL \in Cell
    BY Zenon DEF Cell
  <2>q. QED
    BY Zenon, <1>8, <1>14, <2>1, <2>2 DEF Data
<1>q. QED
  BY Zenon, <1>4, <1>15, <1>16 DEF e

\* A definition that begins before or behind another one also ends there.
LEMMA Apart ==
  ASSUME NEW d, NEW u, Layout(d, u), NEW a \in Begins(d, u), NEW b \in a + 1 .. u,
         \A j \in a .. b - 1 : d[j] # NUL,
         NEW i \in Begins(d, u), NEW n \in Name, NEW v \in Value, At(d, i, n, v)
  PROVE  i = a \/ i + Size[n][v] < a \/ i > b
<1>1. /\ i \in 1 .. u /\ Size[n][v] \in Nat \ {0} /\ u \in Nat
      /\ \A j \in i .. i + Size[n][v] - 1 : d[j] # NUL
  BY Whole DEF Layout
<1>2. a \in 1 .. u /\ (a = 1 \/ d[a - 1] = NUL) /\ (i = 1 \/ d[i - 1] = NUL)
  BY Zenon DEF Begins
<1>3. CASE i < a
  <2>1. d[a - 1] = NUL /\ a - 1 \in Int
    BY <1>1, <1>2, <1>3
  <2>2. ~(a - 1 \in i .. i + Size[n][v] - 1)
    BY Zenon, <1>1, <2>1
  <2>q. QED
    BY SMTT(30), <1>1, <1>2, <1>3, <2>2
<1>4. CASE i > a
  <2>1. d[i - 1] = NUL /\ i - 1 \in Int
    BY <1>1, <1>2, <1>4
  <2>2. ~(i - 1 \in a .. b - 1)
    BY Zenon, <2>1
  <2>q. QED
    BY <1>1, <1>2, <1>4, <2>2
<1>q. QED
  BY SMTT(30), <1>1, <1>2, <1>3, <1>4

\* What the scans stop at.
LEMMA IsBegin ==
  ASSUME NEW d, NEW u, NEW i \in 1 .. u, d[i] # NUL, i = 1 \/ d[i - 1] = NUL
  PROVE  i \in Begins(d, u)
  BY Zenon DEF Begins

\* The beginnings that are left: those before a, and those behind b, moved up.
LEMMA CutBegins ==
  ASSUME NEW d, NEW e, NEW u, Layout(d, u), NEW a \in Begins(d, u), NEW b \in a + 1 .. u, d[b] = NUL,
         \A j \in a .. b - 1 : d[j] # NUL, Cut(d, e, u, a, b)
  PROVE  /\ \A i \in Begins(e, u - (b - a + 1)) :
              \/ i \in 1 .. a - 1 /\ i \in Begins(d, u) /\ e[i] = d[i]
              \/ i >= a /\ i + (b - a + 1) \in Begins(d, u) /\ e[i] = d[i + (b - a + 1)]
         /\ \A i \in Begins(d, u) :
              \/ i = a
              \/ i < a /\ i \in Begins(e, u - (b - a + 1)) /\ e[i] = d[i]
              \/ i > b /\ i - (b - a + 1) \in Begins(e, u - (b - a + 1)) /\ e[i - (b - a + 1)] = d[i]
<1> DEFINE w == b - a + 1
           x == u - w
<1>1. u \in Nat /\ a \in 1 .. u /\ b \in a + 1 .. u /\ (a = 1 \/ d[a - 1] = NUL) /\ d[a] # NUL
  BY DEF Layout, Begins
<1>2. w \in Nat /\ w >= 2 /\ x \in Nat /\ x = u - w /\ w = b - a + 1
  BY <1>1
<1>3. /\ \A i \in 1 .. a - 1 : e[i] = d[i]
      /\ \A i \in a .. x : e[i] = d[i + w]
  BY Zenon DEF Cut
<1> HIDE DEF w, x
<1>4. ASSUME NEW i \in Begins(e, x)
      PROVE  \/ i \in 1 .. a - 1 /\ i \in Begins(d, u) /\ e[i] = d[i]
             \/ i >= a /\ i + w \in Begins(d, u) /\ e[i] = d[i + w]
  <2>1. i \in 1 .. x /\ e[i] # NUL /\ (i = 1 \/ e[i - 1] = NUL)
    BY Zenon DEF Begins
  <2>2. CASE i < a
    <3>1. i \in 1 .. a - 1 /\ e[i] = d[i] /\ i \in 1 .. u /\ (i # 1 => e[i - 1] = d[i - 1])
      BY <1>1, <1>2, <1>3, <2>1, <2>2
    <3>q. QED
      BY Zenon, <2>1, <3>1 DEF Begins
  <2>3. CASE i >= a
    <3>1. i \in a .. x /\ i + w \in 1 .. u /\ i + w # 1 /\ e[i] = d[i + w]
      BY <1>1, <1>2, <1>3, <2>1, <2>3
    <3>2. CASE i = a
      <4>1. d[(i + w) - 1] = NUL
        <5>1. (i + w) - 1 = b
          BY <1>1, <1>2, <3>2
        <5>q. QED
          BY Zenon, <5>1
      <4>2. i + w \in Begins(d, u)
        BY <2>1, <3>1, <4>1, IsBegin, Zenon
      <4>q. QED
        BY Zenon, <2>3, <3>1, <4>2
    <3>3. CASE i # a
      <4>1. i - 1 \in a .. x /\ i # 1 /\ (i - 1) + w = (i + w) - 1
        BY <1>1, <1>2, <2>1, <2>3, <3>3
      <4>2. d[(i + w) - 1] = NUL
        BY Zenon, <1>3, <2>1, <4>1
      <4>3. i + w \in Begins(d, u)
        BY <2>1, <3>1, <4>2, IsBegin, Zenon
      <4>q. QED
        BY Zenon, <2>3, <3>1, <4>3
    <3>q. QED
      BY Zenon, <3>2, <3>3
  <2>q. QED
    BY <1>1, <2>1, <2>2, <2>3
<1>5. ASSUME NEW i \in Begins(d, u)
      PROVE  \/ i = a
             \/ i < a /\ i \in Begins(e, x) /\ e[i] = d[i]
             \/ i > b /\ i - w \in Begins(e, x) /\ e[i - w] = d[i]
  <2>1. i \in 1 .. u /\ d[i] # NUL /\ (i = 1 \/ d[i - 1] = NUL)
    BY Zenon DEF Begins
  <2>2. PICK n \in Name, v \in Value : At(d, i, n, v)
    BY Zenon DEF Layout
  <2>3. i = a \/ i + Size[n][v] < a \/ i > b
    BY Zenon, <2>2, Apart
  <2>4. Size[n][v] \in Nat
    BY Zenon, SizeAssumption
  <2>5. CASE i < a
    <3>1. i \in 1 .. a - 1 /\ (i # 1 => i - 1 \in 1 .. a - 1)
      BY <1>1, <2>1, <2>5
    <3>2. e[i] = d[i] /\ (i # 1 => e[i - 1] = d[i - 1])
      BY Zenon, <1>3, <3>1
    <3>3. i \in 1 .. x
      <4>1. CASE b = u
        BY <1>1, <1>2, <2>1, <2>5, <4>1
      <4>2. CASE b < u
        BY SMTT(30), <1>1, <1>2, <2>1, <2>5, <4>2
      <4>q. QED
        BY <1>1, <4>1, <4>2
    <3>q. QED
      BY Zenon, <2>1, <2>5, <3>2, <3>3 DEF Begins
  <2>6. CASE i > b
    <3>1. i - w \in a .. x /\ i - w \in 1 .. x /\ (i - w) + w = i
      BY <1>1, <1>2, <2>1, <2>6
    <3>2. e[i - w] = d[i]
      BY Zenon, <1>3, <3>1
    <3>3. i - w = 1 \/ e[i - w - 1] = NUL
      <4>1. CASE i - w = a
        <5>1. a # 1 => a - 1 \in 1 .. a - 1
          BY <1>1
        <5>q. QED
          BY Zenon, <1>1, <1>3, <4>1, <5>1
      <4>2. CASE i - w # a
        <5>1. i - w - 1 \in a .. x /\ (i - w - 1) + w = i - 1 /\ i # 1
          BY <1>1, <1>2, <2>1, <2>6, <3>1, <4>2
        <5>q. QED
          BY Zenon, <1>3, <2>1, <5>1
      <4>q. QED
        BY Zenon, <4>1, <4>2
    <3>q. QED
      BY Zenon, <2>1, <2>6, <3>1, <3>2, <3>3 DEF Begins
  <2>q. QED
    BY <1>1, <2>1, <2>3, <2>4, <2>5, <2>6
<1>q. QED
  BY Zenon, <1>4, <1>5 DEF w, x

\* What is left is an environment.
LEMMA CutLayout ==
  ASSUME NEW d, NEW e, NEW u, Layout(d, u), NEW a \in Begins(d, u), NEW b \in a + 1 .. u, d[b] = NUL,
         \A j \in a .. b - 1 : d[j] # NUL, Cut(d, e, u, a, b)
  PROVE  Layout(e, u - (b - a + 1))
<1> DEFINE w == b - a + 1
           x == u - w
<1>1. /\ u \in Nat /\ a \in 1 .. u /\ b \in a + 1 .. u /\ (a = 1 \/ d[a - 1] = NUL) /\ d[a] # NUL
      /\ ENV_SIZE \in Nat /\ u <= ENV_SIZE - 1 /\ d[u] = NUL /\ d[1] # NUL
      /\ \A i \in 1 .. u - 1 : d[i] # NUL \/ d[i + 1] # NUL
  <2>1. u \in Nat /\ a \in 1 .. u
    BY DEF Layout, Begins
  <2>q. QED
    BY SMTT(30), <2>1, SizeAssumption DEF Layout, Begins
<1>2. w \in Nat /\ w >= 2 /\ x \in Nat /\ x = u - w /\ w = b - a + 1
  BY <1>1
<1>3. /\ \A i \in 1 .. a - 1 : e[i] = d[i]
      /\ \A i \in a .. x : e[i] = d[i + w]
      /\ e[x + 1] = NUL /\ (x = 0 => e[2] = NUL)
  BY Zenon DEF Cut
<1>4. /\ \A i \in Begins(e, x) : \/ i \in 1 .. a - 1 /\ i \in Begins(d, u) /\ e[i] = d[i]
                                 \/ i >= a /\ i + w \in Begins(d, u) /\ e[i] = d[i + w]
  BY CutBegins
<1> HIDE DEF w, x
<1>5. b < u => d[b + 1] # NUL
  BY SMTT(30), <1>1
<1>6. ASSUME x > 0 PROVE e[1] # NUL /\ e[x] = NUL
  <2>1. CASE a = 1
    <3>1. 1 \in a .. x /\ 1 + w = b + 1 /\ x \in a .. x /\ x + w = u /\ b < u
      BY SMTT(30), <1>1, <1>2, <1>6, <2>1
    <3>q. QED
      BY Zenon, <1>1, <1>3, <1>5, <3>1
  <2>2. CASE a # 1
    <3>1. 1 \in 1 .. a - 1 /\ a - 1 \in 1 .. a - 1
      BY <1>1, <2>2
    <3>2. e[1] # NUL
      BY Zenon, <1>1, <1>3, <3>1
    <3>3. CASE b = u
      <4>1. x = a - 1
        BY <1>1, <1>2, <3>3
      <4>q. QED
        BY Zenon, <1>1, <1>3, <2>2, <3>1, <3>2, <4>1
    <3>4. CASE b < u
      <4>1. x \in a .. x /\ x + w = u
        BY <1>1, <1>2, <3>4
      <4>q. QED
        BY Zenon, <1>1, <1>3, <3>2, <4>1
    <3>q. QED
      BY <1>1, <3>3, <3>4
  <2>q. QED
    BY Zenon, <2>1, <2>2
<1>7. ASSUME NEW i \in 1 .. x - 1 PROVE e[i] # NUL \/ e[i + 1] # NUL
  <2>1. CASE i < a - 1
    <3>1. i \in 1 .. a - 1 /\ i + 1 \in 1 .. a - 1 /\ i \in 1 .. u - 1
      BY <1>1, <1>2, <2>1
    <3>q. QED
      BY Zenon, <1>1, <1>3, <3>1
  <2>2. CASE i = a - 1
    <3>1. i + 1 \in a .. x /\ (i + 1) + w = b + 1 /\ b < u
      BY <1>1, <1>2, <2>2
    <3>q. QED
      BY Zenon, <1>3, <1>5, <3>1
  <2>3. CASE i >= a
    <3>1. i \in a .. x /\ i + 1 \in a .. x /\ i + w \in 1 .. u - 1 /\ (i + 1) + w = (i + w) + 1
      BY <1>1, <1>2, <2>3
    <3>q. QED
      BY Zenon, <1>1, <1>3, <3>1
  <2>q. QED
    BY SMTT(30), <1>1, <1>2, <2>1, <2>2, <2>3
<1>8. ASSUME NEW i \in Begins(e, x) PROVE \E n \in Name, v \in Value : At(e, i, n, v)
  <2>0. i \in 1 .. x
    BY Zenon DEF Begins
  <2>1. CASE i \in 1 .. a - 1 /\ i \in Begins(d, u)
    <3>1. PICK n \in Name, v \in Value : At(d, i, n, v)
      BY Zenon, <2>1 DEF Layout
    <3> DEFINE s == Size[n][v]
    <3>2. s \in Nat \ {0} /\ i + s <= u
      BY Zenon, <2>1, <3>1, Whole
    <3>3. i + s < a
      <4>1. i = a \/ i + s < a \/ i > b
        BY ZenonT(30), <2>1, <3>1, Apart
      <4>q. QED
        BY SMTT(30), <1>1, <2>1, <3>2, <4>1
    <3>4. d[i + s] = NUL /\ \A k \in 1 .. s : d[i + k - 1] = <<n, v, k>>
      BY <3>1, Zenon DEF At
    <3> HIDE DEF s
    <3>5. e[i + s] = NUL
      <4>1. i + s \in 1 .. a - 1
        BY <1>1, <2>1, <3>2, <3>3
      <4>q. QED
        BY Zenon, <1>3, <3>4, <4>1
    <3>6. ASSUME NEW k \in 1 .. s PROVE e[i + k - 1] = <<n, v, k>>
      <4>1. i + k - 1 \in 1 .. a - 1
        BY <1>1, <2>1, <3>2, <3>3
      <4>q. QED
        BY Zenon, <1>3, <3>4, <4>1
    <3>7. At(e, i, n, v)
      BY <3>5, <3>6, Zenon DEF At, s
    <3>q. QED
      BY Zenon, <3>7
  <2>2. CASE i >= a /\ i + w \in Begins(d, u)
    <3>1. PICK n \in Name, v \in Value : At(d, i + w, n, v)
      BY Zenon, <2>2 DEF Layout
    <3> DEFINE s == Size[n][v]
    <3>2. s \in Nat \ {0} /\ (i + w) + s <= u
      BY Zenon, <2>2, <3>1, Whole
    <3>4. d[(i + w) + s] = NUL /\ \A k \in 1 .. s : d[(i + w) + k - 1] = <<n, v, k>>
      BY <3>1, Zenon DEF At
    <3> HIDE DEF s
    <3>5. e[i + s] = NUL
      <4>1. i + s \in a .. x /\ (i + s) + w = (i + w) + s
        BY SMTT(30), <1>1, <1>2, <2>0, <2>2, <3>2
      <4>q. QED
        BY Zenon, <1>3, <3>4, <4>1
    <3>6. ASSUME NEW k \in 1 .. s PROVE e[i + k - 1] = <<n, v, k>>
      <4>1. i + k - 1 \in a .. x /\ (i + k - 1) + w = (i + w) + k - 1
        BY <1>1, <1>2, <2>0, <2>2, <3>2
      <4>q. QED
        BY Zenon, <1>3, <3>4, <4>1
    <3>7. At(e, i, n, v)
      BY <3>5, <3>6, Zenon DEF At, s
    <3>q. QED
      BY Zenon, <3>7
  <2>q. QED
    BY Zenon, <1>4, <2>1, <2>2
<1>9. ASSUME NEW i \in Begins(e, x), NEW j \in Begins(e, x), e[i][1] = e[j][1] PROVE i = j
  <2>0. i \in 1 .. x /\ j \in 1 .. x
    BY Zenon DEF Begins
  <2>1. \A p, q \in Begins(d, u) : d[p][1] = d[q][1] => p = q
    BY Zenon DEF Layout
  <2>2. CASE i \in 1 .. a - 1 /\ i \in Begins(d, u) /\ e[i] = d[i]
    <3>1. CASE j \in 1 .. a - 1 /\ j \in Begins(d, u) /\ e[j] = d[j]
      BY Zenon, <1>9, <2>1, <2>2, <3>1
    <3>2. CASE j >= a /\ j + w \in Begins(d, u) /\ e[j] = d[j + w]
      <4>1. i = j + w
        BY ZenonT(30), <1>9, <2>1, <2>2, <3>2
      <4>q. QED
        BY SMTT(30), <1>1, <1>2, <2>0, <2>2, <3>2, <4>1
    <3>q. QED
      BY Zenon, <1>4, <3>1, <3>2
  <2>3. CASE i >= a /\ i + w \in Begins(d, u) /\ e[i] = d[i + w]
    <3>1. CASE j \in 1 .. a - 1 /\ j \in Begins(d, u) /\ e[j] = d[j]
      <4>1. i + w = j
        BY ZenonT(30), <1>9, <2>1, <2>3, <3>1
      <4>q. QED
        BY <1>1, <1>2, <2>0, <2>3, <3>1, <4>1
    <3>2. CASE j >= a /\ j + w \in Begins(d, u) /\ e[j] = d[j + w]
      <4>1. i + w = j + w
        BY Zenon, <1>9, <2>1, <2>3, <3>2
      <4>q. QED
        BY <1>2, <2>0, <4>1
    <3>q. QED
      BY Zenon, <1>4, <3>1, <3>2
  <2>q. QED
    BY Zenon, <1>4, <2>2, <2>3
<1>10. x \in 0 .. ENV_SIZE - 1
  BY SMTT(30), <1>1, <1>2
<1>11. Layout(e, x)
  BY Zenon, <1>3, <1>6, <1>7, <1>8, <1>9, <1>10 DEF Layout
<1>q. QED
  BY Zenon, <1>11 DEF w, x

\* Delete leaves an environment without its variable, and the others in place.
LEMMA DeleteMeans ==
  ASSUME NEW d \in Data, NEW u, Layout(d, u), NEW n
  PROVE  /\ Delete(d, n) \in Data /\ \E x : Layout(Delete(d, n), x)
         /\ ~ Defined(Delete(d, n), n) /\ OthersKept(d, Delete(d, n), n)
<1>1. CASE ~ Defined(d, n)
  <2>1. Delete(d, n) = d
    BY Zenon, <1>1 DEF Delete
  <2>2. OthersKept(d, d, n)
    BY Zenon DEF OthersKept
  <2>q. QED
    BY Zenon, <1>1, <2>1, <2>2
<1>2. CASE Defined(d, n)
  <2> DEFINE a == Place(d, n)
             e == Delete(d, n)
  <2>1. a \in Begins(d, u) /\ d[a][1] = n
    BY Zenon, <1>2, DefinedBegins
  <2> HIDE DEF a
  <2>2. /\ e \in Data
        /\ \E b \in a + 1 .. u : /\ d[b] = NUL /\ \A j \in a .. b - 1 : d[j] # NUL
                                 /\ Cut(d, e, u, a, b)
    BY Zenon, <2>1, DeleteCuts
  <2>3. PICK b \in a + 1 .. u : /\ d[b] = NUL /\ \A j \in a .. b - 1 : d[j] # NUL
                                /\ Cut(d, e, u, a, b)
    BY Zenon, <2>2
  <2> DEFINE w == b - a + 1
             x == u - w
  <2> HIDE DEF e
  <2>4. Layout(e, x)
    BY Zenon, <2>1, <2>3, CutLayout
  <2>5. /\ \A i \in Begins(e, x) : \/ i \in 1 .. a - 1 /\ i \in Begins(d, u) /\ e[i] = d[i]
                                   \/ i >= a /\ i + w \in Begins(d, u) /\ e[i] = d[i + w]
        /\ \A i \in Begins(d, u) : \/ i = a
                                   \/ i < a /\ i \in Begins(e, x) /\ e[i] = d[i]
                                   \/ i > b /\ i - w \in Begins(e, x) /\ e[i - w] = d[i]
    BY SMTT(30), <2>1, <2>3, CutBegins
  <2>6. a \in Nat /\ b \in Nat /\ w \in Nat /\ w = b - a + 1 /\ u \in Nat
    BY SMTT(30), <2>1 DEF Begins, Layout
  <2> HIDE DEF w, x
  <2>7. \A i, j \in Begins(d, u) : d[i][1] = d[j][1] => i = j
    BY Zenon DEF Layout
  <2>8. \A i \in Begins(e, x) : i \in Nat /\ e[i][1] # n
    <3> SUFFICES ASSUME NEW i \in Begins(e, x) PROVE i \in Nat /\ e[i][1] # n
      BY Zenon
    <3>1. i \in Nat
      BY DEF Begins
    <3>2. CASE i \in 1 .. a - 1 /\ i \in Begins(d, u) /\ e[i] = d[i]
      BY <2>1, <2>6, <2>7, <3>1, <3>2
    <3>3. CASE i >= a /\ i + w \in Begins(d, u) /\ e[i] = d[i + w]
      <4>1. i + w # a
        BY <2>6, <3>1, <3>3, <2>3
      <4>q. QED
        BY ZenonT(30), <2>1, <2>7, <3>1, <3>3, <4>1
    <3>q. QED
      BY Zenon, <2>5, <3>2, <3>3
  <2>9. ~ Defined(e, n)
    BY Zenon, <2>4, <2>8, Missing
  <2>10. ASSUME NEW m, m # n, Defined(d, m)
         PROVE  /\ Defined(e, m) /\ getenv(e, m) = getenv(d, m)
                /\ Place(d, m) \in Nat
                /\ \/ Place(d, m) < a /\ Place(e, m) = Place(d, m)
                   \/ Place(d, m) > b /\ Place(e, m) = Place(d, m) - w
    <3> DEFINE i == Place(d, m)
    <3>1. i \in Begins(d, u) /\ d[i][1] = m
      BY Zenon, <2>10, DefinedBegins
    <3>2. getenv(d, m) = d[i][2]
      BY Zenon, <2>10 DEF getenv
    <3> HIDE DEF i
    <3>3. i \in Nat /\ i # a
      BY SMTT(30), <2>1, <2>10, <3>1 DEF Begins
    <3>4. CASE i < a /\ i \in Begins(e, x) /\ e[i] = d[i]
      <4>1. Defined(e, m) /\ Place(e, m) = i /\ getenv(e, m) = d[i][2]
        BY SMTT(30), <2>4, <3>1, <3>4, Found
      <4>q. QED
        BY Zenon, <3>2, <3>3, <3>4, <4>1 DEF i
    <3>5. CASE i > b /\ i - w \in Begins(e, x) /\ e[i - w] = d[i]
      <4>1. Defined(e, m) /\ Place(e, m) = i - w /\ getenv(e, m) = d[i][2]
        BY SMTT(30), <2>4, <3>1, <3>5, Found
      <4>q. QED
        BY Zenon, <3>2, <3>3, <3>5, <4>1 DEF i
    <3>q. QED
      BY Zenon, <2>5, <3>1, <3>3, <3>4, <3>5
  <2>11. ASSUME NEW m, ~ Defined(d, m) PROVE getenv(e, m) = getenv(d, m)
    <3>1. \A i \in Begins(d, u) : d[i][1] # m
      BY Zenon, <2>11, Found
    <3>2. \A i \in Begins(e, x) : e[i][1] # m
      BY <2>5, <3>1
    <3>q. QED
      BY Zenon, <2>4, <2>11, <3>2, Missing DEF getenv
  <2>12. OthersKept(d, e, n)
    <3> SUFFICES ASSUME NEW m \in Name \ {n}
                 PROVE  /\ getenv(e, m) = getenv(d, m)
                        /\ \A k \in Name \ {n} :
                             Defined(d, m) /\ Defined(d, k) => (Place(e, m) < Place(e, k) <=> Place(d, m) < Place(d, k))
      BY Zenon DEF OthersKept
    <3>1. getenv(e, m) = getenv(d, m)
      BY Zenon, <2>10, <2>11
    <3>2. ASSUME NEW k \in Name \ {n}, Defined(d, m), Defined(d, k)
          PROVE  Place(e, m) < Place(e, k) <=> Place(d, m) < Place(d, k)
      <4>1. /\ Place(d, m) \in Nat
            /\ \/ Place(d, m) < a /\ Place(e, m) = Place(d, m)
               \/ Place(d, m) > b /\ Place(e, m) = Place(d, m) - w
        BY Zenon, <2>10, <3>2
      <4>2. /\ Place(d, k) \in Nat
            /\ \/ Place(d, k) < a /\ Place(e, k) = Place(d, k)
               \/ Place(d, k) > b /\ Place(e, k) = Place(d, k) - w
        BY Zenon, <2>10, <3>2
      <4>3. a < b
        BY SMTT(30), <2>1, <2>3, <2>6
      <4>q. QED
        BY <2>6, <4>1, <4>2, <4>3
    <3>q. QED
      BY Zenon, <3>1, <3>2
  <2>q. QED
    BY Zenon, <2>2, <2>4, <2>9, <2>12 DEF e
<1>q. QED
  BY Zenon, <1>1, <1>2

-----------------------------------------------------------------------------
(* Appending a variable.                                                   *)

\* The cells of a definition.
LEMMA CharsCells ==
  ASSUME NEW n \in Name, NEW v \in Value
  PROVE  /\ Chars(n, v) \in Seq(Cell) /\ Len(Chars(n, v)) = Size[n][v] + 1 /\ Size[n][v] \in Nat \ {0}
         /\ \A k \in 1 .. Size[n][v] : Chars(n, v)[k] = <<n, v, k>>
         /\ Chars(n, v)[Size[n][v] + 1] = NUL
<1> DEFINE s == Size[n][v]
           c == [k \in 1 .. s |-> <<n, v, k>>]
<1>1. s \in Nat \ {0}
  BY Zenon, SizeAssumption
<1>2. Chars(n, v) = c \o <<NUL>>
  BY Zenon DEF Chars
<1> HIDE DEF s
<1>3. \A k \in 1 .. s : <<n, v, k>> \in Cell
  BY <1>1 DEF Cell
<1>4. c \in Seq(Cell) /\ Len(c) = s /\ \A k \in 1 .. s : c[k] = <<n, v, k>>
  BY <1>1, <1>3
<1>5. <<NUL>> \in Seq(Cell) /\ Len(<<NUL>>) = 1 /\ <<NUL>>[1] = NUL
  BY DEF Cell
<1> HIDE DEF c
<1>6. /\ c \o <<NUL>> \in Seq(Cell) /\ Len(c \o <<NUL>>) = s + 1
      /\ \A i \in 1 .. s + 1 : (c \o <<NUL>>)[i] = IF i <= s THEN c[i] ELSE <<NUL>>[i - s]
  BY <1>4, <1>5, Concat, Zenon
<1>7. (c \o <<NUL>>)[s + 1] = NUL
  <2>1. s + 1 \in 1 .. s + 1 /\ ~(s + 1 <= s) /\ (s + 1) - s = 1
    BY <1>1
  <2>q. QED
    BY Zenon, <1>5, <1>6, <2>1
<1>8. \A k \in 1 .. s : (c \o <<NUL>>)[k] = <<n, v, k>>
  BY SMTT(30), <1>1, <1>4, <1>6
<1>q. QED
  BY Zenon, <1>1, <1>2, <1>6, <1>7, <1>8 DEF s

\* A definition that fits is put behind the others, and closed.
LEMMA AppendCells ==
  ASSUME NEW d \in Data, NEW u, Layout(d, u), NEW n \in Name, NEW v \in Value, ~ Overflows(d, n, v),
         NEW e, e = Append1(d, n, v)
  PROVE  /\ e \in Data /\ u + Size[n][v] + 2 <= ENV_SIZE
         /\ \A i \in 1 .. u : e[i] = d[i]
         /\ \A k \in 1 .. Size[n][v] : e[u + k] = <<n, v, k>>
         /\ e[u + Size[n][v] + 1] = NUL /\ e[u + Size[n][v] + 2] = NUL
<1> DEFINE s == Size[n][v]
           s1 == SubSeq(d, 1, u)
           s2 == Chars(n, v)
           t == s1 \o s2
<1>1. Used(d) = u
  BY Zenon, LayoutUsed
<1>2. u \in Nat /\ u < ENV_SIZE /\ ENV_SIZE \in Nat /\ s \in Nat \ {0}
  BY SizeAssumption DEF Layout
<1>3. u + s + 2 <= ENV_SIZE
  BY SMTT(30), <1>1, <1>2 DEF Overflows
<1>4. e = [i \in 1 .. ENV_SIZE |-> IF i <= Len(t) THEN t[i]
             ELSE IF i = Len(t) + 1 \/ (t = <<>> /\ i = 2) THEN NUL ELSE d[i]]
  BY Zenon, <1>1 DEF Append1, Store
<1>5. s1 \in Seq(Cell) /\ Len(s1) = u /\ \A i \in 1 .. u : s1[i] = d[i]
  <2>1. 1 \in 1 .. ENV_SIZE + 1 /\ u \in 0 .. ENV_SIZE /\ 1 <= u + 1 /\ u - 1 + 1 = u
    BY <1>2
  <2>2. s1 \in Seq(Cell) /\ Len(s1) = u /\ \A i \in 1 .. u : s1[i] = d[1 + i - 1]
    BY SMTT(30), <2>1, PartOf
  <2>q. QED
    BY <1>2, <2>2
<1>6. /\ s2 \in Seq(Cell) /\ Len(s2) = s + 1
      /\ \A k \in 1 .. s : s2[k] = <<n, v, k>>
      /\ s2[s + 1] = NUL
  BY Zenon, CharsCells
<1> HIDE DEF s, s1, s2
<1>7. /\ t \in Seq(Cell) /\ Len(t) = u + (s + 1)
      /\ \A i \in 1 .. u + (s + 1) : t[i] = IF i <= u THEN s1[i] ELSE s2[i - u]
  <2>1. /\ t \in Seq(Cell) /\ Len(t) = Len(s1) + Len(s2)
        /\ \A i \in 1 .. Len(s1) + Len(s2) : t[i] = IF i <= Len(s1) THEN s1[i] ELSE s2[i - Len(s1)]
    BY <1>5, <1>6, Concat, Zenon
  <2>q. QED
    BY <1>5, <1>6, <2>1, Zenon
<1> HIDE DEF t
<1>8. \A i \in 1 .. u : e[i] = d[i]
  BY SMTT(30), <1>2, <1>3, <1>4, <1>5, <1>7
<1>9. ASSUME NEW k \in 1 .. s PROVE e[u + k] = <<n, v, k>>
  <2>1. u + k \in 1 .. ENV_SIZE /\ u + k <= Len(t) /\ u + k \in 1 .. u + (s + 1) /\ ~(u + k <= u) /\ (u + k) - u = k
    BY SMTT(30), <1>2, <1>3, <1>7
  <2>2. e[u + k] = t[u + k] /\ t[u + k] = s2[k]
    BY Zenon, <1>4, <1>7, <2>1
  <2>q. QED
    BY Zenon, <1>6, <2>2
<1>10. e[u + s + 1] = NUL
  <2>1. /\ u + s + 1 \in 1 .. ENV_SIZE /\ u + s + 1 <= Len(t) /\ u + s + 1 \in 1 .. u + (s + 1)
        /\ ~(u + s + 1 <= u) /\ (u + s + 1) - u = s + 1
    BY <1>2, <1>3, <1>7
  <2>2. e[u + s + 1] = t[u + s + 1] /\ t[u + s + 1] = s2[s + 1]
    BY <1>4, <1>7, <2>1
  <2>q. QED
    BY Zenon, <1>6, <2>2
<1>11. e[u + s + 2] = NUL
  <2>1. u + s + 2 \in 1 .. ENV_SIZE /\ ~(u + s + 2 <= Len(t)) /\ u + s + 2 = Len(t) + 1
    BY <1>2, <1>3, <1>7
  <2>q. QED
    BY Zenon, <1>4, <2>1
<1>12. e \in Data
  <2>1. ASSUME NEW i \in 1 .. ENV_SIZE, i <= Len(t) PROVE t[i] \in Cell
    BY <1>2, <1>7, <2>1, Elements
  <2>2. NUL \in Cell /\ \A i \in 1 .. ENV_SIZE : d[i] \in Cell
    BY Zenon DEF Cell, Data
  <2>q. QED
    BY Zenon, <1>4, <2>1, <2>2 DEF Data
<1>q. QED
  BY Zenon, <1>3, <1>8, <1>9, <1>10, <1>11, <1>12 DEF s

\* The beginnings after that, and their definitions.
LEMMA AppendLayout ==
  ASSUME NEW d, NEW e, NEW u, Layout(d, u), NEW n \in Name, NEW v \in Value,
         u + Size[n][v] + 2 <= ENV_SIZE,
         \A i \in Begins(d, u) : d[i][1] # n,
         \A i \in 1 .. u : e[i] = d[i],
         \A k \in 1 .. Size[n][v] : e[u + k] = <<n, v, k>>,
         e[u + Size[n][v] + 1] = NUL, e[u + Size[n][v] + 2] = NUL
  PROVE  /\ Begins(e, u + Size[n][v] + 1) = Begins(d, u) \cup {u + 1}
         /\ e[u + 1] = <<n, v, 1>>
         /\ Layout(e, u + Size[n][v] + 1)
<1> DEFINE s == Size[n][v]
           x == u + s + 1
<1>1. /\ u \in Nat /\ s \in Nat \ {0} /\ x \in Nat /\ x = u + s + 1 /\ x <= ENV_SIZE - 1 /\ ENV_SIZE \in Nat
      /\ (u > 0 => d[1] # NUL /\ d[u] = NUL) /\ \A i \in 1 .. u - 1 : d[i] # NUL \/ d[i + 1] # NUL
  BY SMTT(30), SizeAssumption DEF Layout
<1>2. ASSUME NEW k \in 1 .. s PROVE e[u + k] = <<n, v, k>> /\ e[u + k] # NUL
  <2>1. e[u + k] = <<n, v, k>>
    BY Zenon
  <2>q. QED
    BY <2>1, NotNul
<1>3. e[x] = NUL /\ e[x + 1] = NUL
  <2>1. x + 1 = u + s + 2
    BY SMTT(30), <1>1
  <2>q. QED
    BY Zenon, <2>1
<1>4. ASSUME NEW j \in u + 1 .. u + s PROVE e[j] # NUL
  <2>1. j - u \in 1 .. s /\ u + (j - u) = j
    BY SMTT(30), <1>1
  <2>q. QED
    BY Zenon, <1>2, <2>1
<1> HIDE DEF s, x
<1>5. e[u + 1] = <<n, v, 1>>
  <2>1. 1 \in 1 .. s
    BY SMTT(30), <1>1
  <2>q. QED
    BY Zenon, <1>2, <2>1
<1>6. ASSUME NEW i \in Begins(e, x) PROVE i \in Begins(d, u) \/ i = u + 1
  <2>1. i \in 1 .. x /\ e[i] # NUL /\ (i = 1 \/ e[i - 1] = NUL)
    BY Zenon DEF Begins
  <2>2. CASE i <= u
    <3>1. i \in 1 .. u /\ (i # 1 => i - 1 \in 1 .. u)
      BY SMTT(30), <1>1, <2>1, <2>2
    <3>2. d[i] # NUL /\ (i = 1 \/ d[i - 1] = NUL)
      BY Zenon, <2>1, <3>1
    <3>q. QED
      BY Zenon, <3>1, <3>2, IsBegin
  <2>3. CASE i > u + 1
    <3>1. i = x \/ i - 1 \in u + 1 .. u + s
      BY SMTT(30), <1>1, <2>1, <2>3
    <3>2. i # 1 /\ i # x
      BY SMTT(30), <1>1, <1>3, <2>1, <2>3
    <3>q. QED
      BY Zenon, <1>4, <2>1, <3>1, <3>2
  <2>q. QED
    BY SMTT(30), <1>1, <2>1, <2>2, <2>3
<1>7. ASSUME NEW i \in Begins(d, u) PROVE i \in Begins(e, x) /\ i \in 1 .. u /\ e[i] = d[i]
  <2>1. i \in 1 .. u /\ d[i] # NUL /\ (i = 1 \/ d[i - 1] = NUL)
    BY Zenon DEF Begins
  <2>2. i \in 1 .. x /\ (i # 1 => i - 1 \in 1 .. u)
    BY SMTT(30), <1>1, <2>1
  <2>3. e[i] = d[i] /\ (i = 1 \/ e[i - 1] = NUL)
    BY Zenon, <2>1, <2>2
  <2>q. QED
    BY Zenon, <2>1, <2>2, <2>3, IsBegin
<1>8. u + 1 \in Begins(e, x)
  <2>1. u + 1 \in 1 .. x /\ e[u + 1] # NUL
    BY SMTT(30), <1>1, <1>5, NotNul
  <2>2. u + 1 = 1 \/ e[(u + 1) - 1] = NUL
    <3>1. (u + 1) - 1 = u /\ (u = 0 \/ u \in 1 .. u)
      BY SMTT(30), <1>1
    <3>q. QED
      BY SMTT(30), <1>1, <3>1
  <2>q. QED
    BY <2>1, <2>2, IsBegin, Zenon
<1>9. Begins(e, x) = Begins(d, u) \cup {u + 1}
  BY Zenon, <1>6, <1>7, <1>8
<1>10. e[1] # NUL
  <2>1. CASE u = 0
    <3>1. u + 1 = 1 /\ e[u + 1] # NUL
      BY SMTT(30), <1>5, <2>1, NotNul
    <3>q. QED
      BY Zenon, <3>1
  <2>2. CASE u # 0
    <3>1. 1 \in 1 .. u
      BY SMTT(30), <1>1, <2>2
    <3>q. QED
      BY SMTT(30), <1>1, <2>2, <3>1
  <2>q. QED
    BY Zenon, <2>1, <2>2
<1>11. ASSUME NEW i \in 1 .. x - 1 PROVE e[i] # NUL \/ e[i + 1] # NUL
  <2>1. CASE i < u
    <3>1. i \in 1 .. u /\ i + 1 \in 1 .. u /\ i \in 1 .. u - 1
      BY SMTT(30), <1>1, <2>1
    <3>q. QED
      BY Zenon, <1>1, <3>1
  <2>2. CASE i = u
    BY SMTT(30), <1>5, <2>2, NotNul
  <2>3. CASE i > u
    <3>1. i \in u + 1 .. u + s
      BY SMTT(30), <1>1, <2>3
    <3>q. QED
      BY Zenon, <1>4, <3>1
  <2>q. QED
    BY SMTT(30), <1>1, <2>1, <2>2, <2>3
<1>12. ASSUME NEW i \in Begins(e, x) PROVE \E m \in Name, y \in Value : At(e, i, m, y)
  <2>1. CASE i = u + 1
    <3>1. e[i + s] = NUL
      <4>1. i + s = x
        BY SMTT(30), <1>1, <2>1
      <4>q. QED
        BY Zenon, <1>3, <4>1
    <3>2. ASSUME NEW k \in 1 .. s PROVE e[i + k - 1] = <<n, v, k>>
      <4>1. i + k - 1 = u + k
        BY <1>1, <2>1
      <4>q. QED
        BY Zenon, <1>2, <4>1
    <3>3. At(e, i, n, v)
      BY <3>1, <3>2, Zenon DEF At, s
    <3>q. QED
      BY Zenon, <3>3
  <2>2. CASE i \in Begins(d, u)
    <3>1. PICK m \in Name, y \in Value : At(d, i, m, y)
      BY Zenon, <2>2 DEF Layout
    <3> DEFINE z == Size[m][y]
    <3>2. z \in Nat \ {0} /\ i + z <= u /\ i \in 1 .. u
      BY Zenon, <2>2, <3>1, Whole
    <3>3. d[i + z] = NUL /\ \A k \in 1 .. z : d[i + k - 1] = <<m, y, k>>
      BY <3>1, Zenon DEF At
    <3> HIDE DEF z
    <3>4. e[i + z] = NUL
      <4>1. i + z \in 1 .. u
        BY SMTT(30), <1>1, <3>2
      <4>q. QED
        BY Zenon, <3>3, <4>1
    <3>5. ASSUME NEW k \in 1 .. z PROVE e[i + k - 1] = <<m, y, k>>
      <4>1. i + k - 1 \in 1 .. u
        BY <1>1, <3>2
      <4>q. QED
        BY Zenon, <3>3, <4>1
    <3>6. At(e, i, m, y)
      BY <3>4, <3>5, Zenon DEF At, z
    <3>q. QED
      BY Zenon, <3>6
  <2>q. QED
    BY Zenon, <1>6, <2>1, <2>2
<1>13. ASSUME NEW i \in Begins(e, x), NEW j \in Begins(e, x), e[i][1] = e[j][1] PROVE i = j
  <2>1. \A p, q \in Begins(d, u) : d[p][1] = d[q][1] => p = q
    BY Zenon DEF Layout
  <2>2. e[u + 1][1] = n
    BY SMTT(30), <1>5
  <2>q. QED
    BY SMTT(30), <1>6, <1>7, <1>13, <2>1, <2>2
<1>14. Layout(e, x)
  <2>1. x \in 0 .. ENV_SIZE - 1 /\ x # 0
    BY SMTT(30), <1>1
  <2>q. QED
    BY Zenon, <1>3, <1>10, <1>11, <1>12, <1>13, <2>1 DEF Layout
<1>q. QED
  BY Zenon, <1>5, <1>9, <1>14 DEF s, x

\* Append1 puts its variable last, and leaves the others alone.
LEMMA AppendMeans ==
  ASSUME NEW d \in Data, NEW u, Layout(d, u), NEW n \in Name, NEW v \in Value,
         ~ Defined(d, n), ~ Overflows(d, n, v)
  PROVE  /\ Append1(d, n, v) \in Data /\ \E x : Layout(Append1(d, n, v), x)
         /\ OthersKept(d, Append1(d, n, v), n) /\ getenv(Append1(d, n, v), n) = v
         /\ \A m \in Name \ {n} :
              Defined(Append1(d, n, v), m) => Place(Append1(d, n, v), m) < Place(Append1(d, n, v), n)
<1> PICK e : e = Append1(d, n, v)
  BY Zenon
<1> PICK x : x = u + Size[n][v] + 1
  BY Zenon
<1>1. \A i \in Begins(d, u) : d[i][1] # n
  BY Zenon, Found
<1>2. /\ e \in Data /\ u + Size[n][v] + 2 <= ENV_SIZE
      /\ \A i \in 1 .. u : e[i] = d[i]
      /\ \A k \in 1 .. Size[n][v] : e[u + k] = <<n, v, k>>
      /\ e[u + Size[n][v] + 1] = NUL /\ e[u + Size[n][v] + 2] = NUL
  BY SMTT(30), AppendCells
<1>3. Begins(e, x) = Begins(d, u) \cup {u + 1} /\ e[u + 1] = <<n, v, 1>> /\ Layout(e, x)
  BY SMTT(30), <1>1, <1>2, AppendLayout
<1>4. Place(e, n) = u + 1 /\ getenv(e, n) = v
  <2>1. e[u + 1][1] = n /\ e[u + 1][2] = v /\ u + 1 \in Begins(e, x)
    BY SMTT(30), <1>3
  <2>q. QED
    BY ZenonT(30), <1>3, <2>1, Found
<1>5. \A i \in Begins(d, u) : i \in Nat /\ i < u + 1 /\ e[i] = d[i]
  BY SMTT(30), <1>2 DEF Begins, Layout
<1>6. ASSUME NEW m, Defined(d, m)
      PROVE  Place(e, m) = Place(d, m) /\ getenv(e, m) = getenv(d, m)
  <2> DEFINE i == Place(d, m)
  <2>1. i \in Begins(d, u) /\ d[i][1] = m /\ getenv(d, m) = d[i][2]
    BY Zenon, <1>6, DefinedBegins DEF getenv
  <2> HIDE DEF i
  <2>2. i \in Begins(e, x) /\ e[i] = d[i]
    BY Zenon, <1>3, <1>5, <2>1
  <2>3. Place(e, m) = i /\ getenv(e, m) = d[i][2]
    BY SMTT(30), <1>3, <2>1, <2>2, Found
  <2>q. QED
    BY Zenon, <2>1, <2>3 DEF i
<1>7. ASSUME NEW m, m # n, ~ Defined(d, m) PROVE ~ Defined(e, m) /\ getenv(e, m) = getenv(d, m)
  <2>1. \A i \in Begins(d, u) : d[i][1] # m
    BY Zenon, <1>7, Found
  <2>2. \A i \in Begins(e, x) : e[i][1] # m
    BY <1>3, <1>5, <1>7, <2>1
  <2>q. QED
    BY Zenon, <1>3, <1>7, <2>2, Missing DEF getenv
<1>8. OthersKept(d, e, n)
  BY Zenon, <1>6, <1>7 DEF OthersKept
<1>9. ASSUME NEW m \in Name \ {n}, Defined(e, m) PROVE Place(e, m) < Place(e, n)
  <2>1. Defined(d, m)
    BY Zenon, <1>7, <1>9
  <2>2. Place(d, m) \in Begins(d, u)
    BY Zenon, <2>1, DefinedBegins
  <2>q. QED
    BY Zenon, <1>4, <1>5, <1>6, <2>1, <2>2
<1>q. QED
  BY ZenonT(30), <1>2, <1>3, <1>4, <1>8, <1>9

-----------------------------------------------------------------------------
(* setenv.                                                                 *)

\* Deleting, as a whole.
LEMMA SoundDelete ==
  ASSUME NEW d \in Data, Sound(d), NEW n
  PROVE  /\ Delete(d, n) \in Data /\ Sound(Delete(d, n))
         /\ ~ Defined(Delete(d, n), n) /\ OthersKept(d, Delete(d, n), n)
<1>1. Layout(d, Used(d))
  BY Zenon, SoundLayout
<1>q. QED
  BY Zenon, <1>1, DeleteMeans, LayoutSound

\* Reading from an environment.
LEMMA SoundRead ==
  ASSUME NEW d, Sound(d), NEW n
  PROVE  getenv(d, n) \in Value \cup {Unset} /\ (Defined(d, n) <=> getenv(d, n) # Unset)
  BY Zenon, SoundLayout, ReadType

\* Deleting the old value and appending the new one, as a whole.
LEMMA SoundSet ==
  ASSUME NEW d \in Data, Sound(d), NEW n \in Name, NEW v \in Value, ~ Overflows(Delete(d, n), n, v)
  PROVE  LET e == Append1(Delete(d, n), n, v)
         IN  /\ e \in Data /\ Sound(e) /\ OthersKept(d, e, n) /\ getenv(e, n) = v
             /\ \A m \in Name \ {n} : Defined(e, m) => Place(e, m) < Place(e, n)
<1> DEFINE c == Delete(d, n)
           e == Append1(c, n, v)
<1>1. c \in Data /\ Sound(c) /\ ~ Defined(c, n) /\ OthersKept(d, c, n)
  BY Zenon, SoundDelete
<1> HIDE DEF c
<1>2. Layout(c, Used(c))
  BY Zenon, <1>1, SoundLayout
<1>3. ~ Overflows(c, n, v)
  BY Zenon DEF c
<1>4. /\ e \in Data /\ \E x : Layout(e, x)
      /\ OthersKept(c, e, n) /\ getenv(e, n) = v
      /\ \A m \in Name \ {n} : Defined(e, m) => Place(e, m) < Place(e, n)
  BY Zenon, <1>1, <1>2, <1>3, AppendMeans
<1> HIDE DEF e
<1>5. Sound(e)
  BY Zenon, <1>4, LayoutSound
<1>6. ASSUME NEW m \in Name \ {n}, Defined(d, m) PROVE Defined(c, m)
  <2>1. getenv(c, m) = getenv(d, m)
    BY Zenon, <1>1 DEF OthersKept
  <2>q. QED
    BY Zenon, <1>1, <1>6, <2>1, SoundRead
<1>7. OthersKept(d, e, n)
  <2> SUFFICES ASSUME NEW m \in Name \ {n}
               PROVE  /\ getenv(e, m) = getenv(d, m)
                      /\ \A k \in Name \ {n} :
                           Defined(d, m) /\ Defined(d, k) => (Place(e, m) < Place(e, k) <=> Place(d, m) < Place(d, k))
    BY Zenon DEF OthersKept
  <2>1. getenv(e, m) = getenv(d, m)
    BY Zenon, <1>1, <1>4 DEF OthersKept
  <2>2. ASSUME NEW k \in Name \ {n}, Defined(d, m), Defined(d, k)
        PROVE  Place(e, m) < Place(e, k) <=> Place(d, m) < Place(d, k)
    <3>1. Defined(c, m) /\ Defined(c, k)
      BY Zenon, <1>6, <2>2
    <3>2. Place(e, m) < Place(e, k) <=> Place(c, m) < Place(c, k)
      BY <1>4, <3>1, Zenon DEF OthersKept
    <3>3. Place(c, m) < Place(c, k) <=> Place(d, m) < Place(d, k)
      BY <1>1, <2>2, Zenon DEF OthersKept
    <3>q. QED
      BY <3>2, <3>3, Zenon
  <2>q. QED
    BY Zenon, <2>1, <2>2
<1>q. QED
  BY Zenon, <1>4, <1>5, <1>7 DEF c, e
=============================================================================
