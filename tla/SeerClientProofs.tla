-------------------------- MODULE SeerClientProofs --------------------------
(***************************************************************************)
(* For any number of requests, numbers, draws and connections, and all     *)
(* faults.                                                                 *)
(*                                                                         *)
(* First streams of any length with anything in them, cut anywhere: the    *)
(* packets of a whole stream are those of its first part, then those of    *)
(* what is kept of that followed by the rest (CutAnywhere).  Unpack is a   *)
(* recursive function.  The induction theorems of the library take an      *)
(* operator as a parameter, so the inductions here are over sets: a set of *)
(* naturals has a least element (Least), hence one that has 0 and with n   *)
(* also n + 1 has all of them (Induct).                                    *)
(*                                                                         *)
(* From that: what arrives in one piece, a packet or noise, is found where *)
(* nothing is owed, else it is swallowed (FoundMore), and a read takes the *)
(* first of what is to be found (FoundRead).                               *)
(*                                                                         *)
(* Then the connections (CInv): at most one is open, and no request is     *)
(* written twice to one.  Neither is inductive.  The first needs that      *)
(* nobody opens a connection before the old one is closed (OpenerAlone),   *)
(* the second that a request that is to be written again was written to    *)
(* connections that are closed (WrittenToClosed).                          *)
(*                                                                         *)
(* Last the locks, the table and the answers (SInv).  The d-th number that *)
(* is drawn is Nth(d), so two draws of one number are a round apart        *)
(* (RoundApart).  That an answer is the request's own or a round late      *)
(* needs that who is in the table was the last to draw its number (Latest) *)
(* and that each message has the number of its draw (Wires); that nobody   *)
(* is left waiting needs that a number drawn twice is noticed (Drew).      *)
(***************************************************************************)
EXTENDS SeerClient, SequenceTheorems, FiniteSetTheorems, TLAPS

(* Streams *)

\* The order of the sets 0..m by inclusion is well-founded.
LEMMA Least ==
    ASSUME NEW T, T \subseteq Nat, T # {}
    PROVE  \E m \in T : \A k \in T : m <= k
<1> DEFINE Below == {0..m : m \in T}
<1>1. Below \subseteq FiniteSubsetsOf(Nat) /\ Below # {}
  <2> SUFFICES ASSUME NEW m \in T PROVE 0..m \subseteq Nat /\ IsFiniteSet(0..m)
    BY DEF FiniteSubsetsOf
  <2> QED BY FS_Interval
<1>2. PICK X \in Below : \A Y \in Below : ~ (<<Y, X>> \in StrictSubsetOrdering(Nat))
  <2> HIDE DEF Below
  <2> QED BY <1>1, FS_StrictSubsetOrderingWellFounded, WFMin
<1>3. PICK m \in T : X = 0..m
  OBVIOUS
<1>4. ASSUME NEW k \in T, ~ (m <= k) PROVE FALSE
  <2>1. 0..k \in Below
    OBVIOUS
  <2>2. k \in Nat /\ m \in Nat /\ k < m
    BY <1>4
  <2>3. 0..k \subseteq 0..m /\ m \in 0..m /\ m \notin 0..k
    BY <2>2
  <2>4. 0..k \in SUBSET Nat /\ 0..m \in SUBSET Nat
    BY <2>2
  <2>5. <<0..k, X>> \in StrictSubsetOrdering(Nat)
    BY <1>3, <2>3, <2>4 DEF StrictSubsetOrdering
  <2> QED BY <1>2, <2>1, <2>5
<1> QED BY <1>4

\* A set that contains 0 and every successor contains all naturals.
LEMMA Induct ==
    ASSUME NEW T, 0 \in T, \A n \in T : n \in Nat => n + 1 \in T
    PROVE  Nat \subseteq T
<1> SUFFICES ASSUME Nat \ T # {} PROVE FALSE
  OBVIOUS
<1>1. PICK m \in Nat \ T : \A k \in Nat \ T : m <= k
  BY Least
<1>2. m - 1 \in Nat /\ m - 1 \in T
  BY <1>1
<1> QED BY <1>1, <1>2

\* The least element of a set of naturals is the one that is found.
LEMMA Smallest ==
    ASSUME NEW T, T \subseteq Nat, T # {}
    PROVE  /\ Min(T) \in T
           /\ \A m \in T : (\A k \in T : m <= k) => Min(T) = m
<1>1. \E m \in T : \A k \in T : m <= k
  BY Least
<1>2. Min(T) \in T /\ \A k \in T : Min(T) <= k
  BY <1>1 DEF Min
<1>3. ASSUME NEW m \in T, \A k \in T : m <= k PROVE Min(T) = m
  <2>1. m <= Min(T) /\ Min(T) <= m /\ m \in Nat /\ Min(T) \in Nat
    BY <1>2, <1>3
  <2> QED BY <2>1
<1> QED BY <1>2, <1>3

\* The cells of a stream of requests of M.
Cells(M) == {Start, Body, Junk} \cup {Header(m, l) : m \in M, l \in Nat}

\* The kinds of cells can be told apart.
LEMMA Kinds ==
    /\ Start.kind = "start" /\ Junk.kind = "junk" /\ Body.kind = "body"
    /\ Junk # Start /\ Body # Start
    /\ \A m, l : /\ Header(m, l).kind = "header"
                 /\ Header(m, l).msg = m /\ Header(m, l).length = l /\ Header(m, l) # Start
<1>1. \A m, l : Header(m, l).kind = "header" /\ Header(m, l).msg = m /\ Header(m, l).length = l
  BY DEF Header
<1>2. Start.kind = "start" /\ Junk.kind = "junk" /\ Body.kind = "body"
  BY DEF Start, Junk, Body
<1> QED BY <1>1, <1>2

\* Only headers have a length.
LEMMA CellKinds ==
    ASSUME NEW M, NEW c \in Cells(M), c.kind = "header"
    PROVE  c.length \in Nat /\ c.msg \in M /\ c = Header(c.msg, c.length) /\ c # Start
<1>1. PICK m \in M, l \in Nat : c = Header(m, l)
  BY Kinds DEF Cells
<1> QED BY <1>1, Kinds

\* What unpack makes of position i depends on later positions only.
LEMMA ParseDepends ==
    ASSUME NEW M, NEW bytes \in Seq(Cells(M)), NEW i \in 1..(Len(bytes) + 1), NEW f, NEW g,
           \A j \in (i + 1)..(Len(bytes) + 1) : f[j] = g[j]
    PROVE  ParseFrom(bytes, f, i) = ParseFrom(bytes, g, i)
<1> DEFINE n == Len(bytes)
           starts == {j \in i..n : bytes[j] = Start}
           first == Min(starts)
<1>0. n \in Nat
  OBVIOUS
<1>1. ASSUME starts # {}, bytes[i] # Start PROVE first \in (i + 1)..n
  <2>0. starts \subseteq Nat
    BY <1>0
  <2>2. first \in starts
    <3> HIDE DEF starts
    <3> QED BY <1>1, <2>0, Smallest
  <2> QED BY <1>1, <2>2
<1>2. CASE n + 1 - i < HeaderSize \/ starts = {}
  BY <1>2 DEF ParseFrom
<1>3. CASE n + 1 - i >= HeaderSize /\ starts # {} /\ bytes[i] # Start
  <2>1. f[first] = g[first]
    <3>1. first \in (i + 1)..n
      BY <1>1, <1>3
    <3> HIDE DEF first
    <3> QED BY <1>0, <3>1
  <2>2. ~(n + 1 - i < HeaderSize)
    BY <1>0, <1>3 DEF HeaderSize
  <2>3. ParseFrom(bytes, f, i) = f[first]
    BY <1>3, <2>2 DEF ParseFrom
  <2>4. ParseFrom(bytes, g, i) = g[first]
    BY <1>3, <2>2 DEF ParseFrom
  <2> QED BY <2>1, <2>3, <2>4
<1>4. CASE n + 1 - i >= HeaderSize /\ starts # {} /\ bytes[i] = Start
  <2>1. f[i + 1] = g[i + 1] /\ bytes[i + 1] \in Cells(M)
    BY <1>0, <1>4 DEF HeaderSize
  <2>2. ~(n + 1 - i < HeaderSize)
    BY <1>0, <1>4 DEF HeaderSize
  <2>3. CASE bytes[i + 1].kind # "header"
    <3>1. ParseFrom(bytes, f, i) = f[i + 1]
      BY <1>4, <2>2, <2>3 DEF ParseFrom
    <3>2. ParseFrom(bytes, g, i) = g[i + 1]
      BY <1>4, <2>2, <2>3 DEF ParseFrom
    <3> QED BY <2>1, <3>1, <3>2
  <2>4. CASE bytes[i + 1].kind = "header"
    <3> DEFINE next == i + HeaderSize + bytes[i + 1].length
    <3>1. next \in Nat /\ next >= i + 1
      <4>1. bytes[i + 1].length \in Nat
        BY <2>1, <2>4, CellKinds
      <4> QED BY <1>0, <4>1 DEF HeaderSize
    <3>2. CASE next > n + 1
      <4>1. ParseFrom(bytes, f, i) = [packets |-> <<>>, rest |-> SubSeq(bytes, i, n)]
        BY <1>4, <2>2, <2>4, <3>2 DEF ParseFrom
      <4>2. ParseFrom(bytes, g, i) = [packets |-> <<>>, rest |-> SubSeq(bytes, i, n)]
        BY <1>4, <2>2, <2>4, <3>2 DEF ParseFrom
      <4> QED BY <4>1, <4>2
    <3>3. CASE ~(next > n + 1)
      <4>1. ParseFrom(bytes, f, i)
            = [packets |-> <<bytes[i + 1].msg>> \o f[next].packets, rest |-> f[next].rest]
        BY <1>4, <2>2, <2>4, <3>3 DEF ParseFrom
      <4>2. ParseFrom(bytes, g, i)
            = [packets |-> <<bytes[i + 1].msg>> \o g[next].packets, rest |-> g[next].rest]
        BY <1>4, <2>2, <2>4, <3>3 DEF ParseFrom
      <4>3. f[next] = g[next]
        <5> HIDE DEF next
        <5> QED BY <1>0, <3>1, <3>3
      <4> QED BY <4>1, <4>2, <4>3
    <3> QED BY <3>2, <3>3
  <2> QED BY <2>3, <2>4
<1> QED BY <1>0, <1>2, <1>3, <1>4 DEF HeaderSize

\* So the recursive definition has a solution, found from the last position back.
LEMMA ParseExists ==
    ASSUME NEW M, NEW bytes \in Seq(Cells(M))
    PROVE  \E f : f = [i \in 1..(Len(bytes) + 1) |-> ParseFrom(bytes, f, i)]
<1> DEFINE n == Len(bytes)
           K == {k \in Nat : k <= n =>
                    \E f : \A i \in (n + 1 - k)..(n + 1) : f[i] = ParseFrom(bytes, f, i)}
<1>0. n \in Nat
  OBVIOUS
<1>1. 0 \in K
  <2> DEFINE f == [i \in {n + 1} |-> ParseFrom(bytes, <<>>, n + 1)]
  <2>1. f[n + 1] = ParseFrom(bytes, <<>>, n + 1)
    OBVIOUS
  <2> HIDE DEF f
  <2>2. ParseFrom(bytes, <<>>, n + 1) = ParseFrom(bytes, f, n + 1)
    <3>1. /\ n + 1 \in 1..(Len(bytes) + 1)
          /\ \A j \in ((n + 1) + 1)..(Len(bytes) + 1) : <<>>[j] = f[j]
      BY <1>0
    <3> DEFINE k == n + 1
               g == <<>>
    <3>2. k \in 1..(Len(bytes) + 1) /\ \A j \in (k + 1)..(Len(bytes) + 1) : g[j] = f[j]
      BY <3>1
    <3> HIDE DEF n, k, g
    <3>3. ParseFrom(bytes, g, k) = ParseFrom(bytes, f, k)
      BY <3>2, ParseDepends
    <3> QED BY <3>3 DEF g, k
  <2>3. \A i \in (n + 1 - 0)..(n + 1) : f[i] = ParseFrom(bytes, f, i)
    BY <1>0, <2>1, <2>2
  <2> QED BY <2>3
<1>2. ASSUME NEW k \in K PROVE k + 1 \in K
  <2> SUFFICES ASSUME k + 1 <= n
               PROVE  \E g : \A i \in (n + 1 - (k + 1))..(n + 1) : g[i] = ParseFrom(bytes, g, i)
    OBVIOUS
  <2>1. PICK f : \A i \in (n + 1 - k)..(n + 1) : f[i] = ParseFrom(bytes, f, i)
    BY <1>0, <1>2
  <2> DEFINE g == [i \in (n - k)..(n + 1) |->
                      IF i = n - k THEN ParseFrom(bytes, f, n - k) ELSE f[i]]
  <2>2. g[n - k] = ParseFrom(bytes, f, n - k) /\ \A i \in (n + 1 - k)..(n + 1) : g[i] = f[i]
    BY <1>0
  <2> HIDE DEF g
  <2>3. ASSUME NEW i \in (n + 1 - (k + 1))..(n + 1) PROVE g[i] = ParseFrom(bytes, g, i)
    <3>1. i \in 1..(n + 1) /\ \A j \in (i + 1)..(n + 1) : g[j] = f[j]
      BY <1>0, <2>2
    <3>2. ParseFrom(bytes, g, i) = ParseFrom(bytes, f, i)
      BY <3>1, ParseDepends
    <3> QED BY <1>0, <2>1, <2>2, <3>2
  <2> QED BY <2>3
<1>3. n \in K
  <2> HIDE DEF K
  <2> QED BY <1>0, <1>1, <1>2, Induct
<1>4. PICK f : \A i \in 1..(n + 1) : f[i] = ParseFrom(bytes, f, i)
  BY <1>0, <1>3
<1> DEFINE g == [i \in 1..(n + 1) |-> f[i]]
<1>5. \A i \in 1..(n + 1) : g[i] = f[i]
  OBVIOUS
<1>6. ASSUME NEW i \in 1..(n + 1) PROVE f[i] = ParseFrom(bytes, g, i)
  <2> HIDE DEF g
  <2>1. \A j \in (i + 1)..(n + 1) : g[j] = f[j]
    BY <1>0, <1>5
  <2>2. ParseFrom(bytes, g, i) = ParseFrom(bytes, f, i)
    BY <2>1, ParseDepends
  <2> QED BY <1>4, <2>2
<1>7. g = [i \in 1..(n + 1) |-> ParseFrom(bytes, g, i)]
  BY <1>6
<1> QED BY <1>7

\* Unpack is what that solution makes of the first position.
LEMMA UnpackParses ==
    ASSUME NEW M, NEW bytes \in Seq(Cells(M))
    PROVE  \E f : /\ Unpack(bytes) = f[1]
                  /\ \A i \in 1..(Len(bytes) + 1) : f[i] = ParseFrom(bytes, f, i)
<1> DEFINE parse == CHOOSE f : f = [i \in 1..(Len(bytes) + 1) |-> ParseFrom(bytes, f, i)]
<1>1. parse = [i \in 1..(Len(bytes) + 1) |-> ParseFrom(bytes, parse, i)]
  BY ParseExists
<1>2. Unpack(bytes) = parse[1]
  BY DEF Unpack
<1> HIDE DEF parse
<1>3. \A i \in 1..(Len(bytes) + 1) : parse[i] = ParseFrom(bytes, parse, i)
  BY <1>1
<1> QED BY <1>2, <1>3

\* The elements of a concatenation.
LEMMA ConcatAt ==
    ASSUME NEW C, NEW a, NEW b, a \in Seq(C), b \in Seq(C)
    PROVE  /\ a \o b \in Seq(C)
           /\ Len(a \o b) = Len(a) + Len(b)
           /\ \A i \in 1..Len(a) : (a \o b)[i] = a[i]
           /\ \A i \in 1..Len(b) : (a \o b)[Len(a) + i] = b[i]
<1>0. Len(a) \in Nat /\ Len(b) \in Nat
  OBVIOUS
<1>1. /\ a \o b \in Seq(C)
      /\ Len(a \o b) = Len(a) + Len(b)
      /\ \A i \in 1..(Len(a) + Len(b)) : (a \o b)[i] = IF i <= Len(a) THEN a[i] ELSE b[i - Len(a)]
  BY ConcatProperties
<1>2. ASSUME NEW i \in 1..Len(a) PROVE (a \o b)[i] = a[i]
  BY <1>0, <1>1
<1>3. ASSUME NEW i \in 1..Len(b) PROVE (a \o b)[Len(a) + i] = b[i]
  <2>1. /\ Len(a) + i \in 1..(Len(a) + Len(b)) /\ ~(Len(a) + i <= Len(a))
        /\ Len(a) + i - Len(a) = i
    BY ONLY <1>0, i \in 1..Len(b)
  <2> QED BY ONLY <1>1, <2>1
<1> QED BY <1>1, <1>2, <1>3

\* What is left of a stream without its first d cells.
Behind(A, d) == SubSeq(A, d + 1, Len(A))

LEMMA BehindFacts ==
    ASSUME NEW C, NEW A \in Seq(C), NEW d \in 0..Len(A)
    PROVE  /\ Behind(A, d) \in Seq(C)
           /\ Len(Behind(A, d)) = Len(A) - d
           /\ \A i \in 1..(Len(A) - d) : Behind(A, d)[i] = A[d + i]
<1>0. Len(A) \in Nat /\ d \in Nat /\ d <= Len(A)
  OBVIOUS
<1>1. \A i \in (d + 1)..Len(A) : A[i] \in C
  BY <1>0
<1>2. /\ Behind(A, d) \in Seq(C)
      /\ Len(Behind(A, d)) = IF d + 1 <= Len(A) THEN Len(A) - (d + 1) + 1 ELSE 0
      /\ \A i \in 1..(Len(A) - (d + 1) + 1) : Behind(A, d)[i] = A[d + 1 + i - 1]
  BY <1>0, <1>1, SubSeqProperties DEF Behind
<1>3. Len(A) - (d + 1) + 1 = Len(A) - d /\ \A i \in Nat : d + 1 + i - 1 = d + i
  BY <1>0
<1>4. Len(Behind(A, d)) = Len(A) - d
  BY <1>0, <1>2
<1>5. ASSUME NEW i \in 1..(Len(A) - d) PROVE Behind(A, d)[i] = A[d + i]
  <2>1. i \in 1..(Len(A) - (d + 1) + 1) /\ d + 1 + i - 1 = d + i
    BY <1>3
  <2> QED BY <1>2, <2>1
<1> QED BY <1>2, <1>4, <1>5

\* A part of what is left is a part of the stream.
LEMMA BehindPart ==
    ASSUME NEW C, NEW A \in Seq(C), NEW d \in 0..Len(A), NEW i \in 1..(Len(A) - d + 1)
    PROVE  SubSeq(Behind(A, d), i, Len(A) - d) = SubSeq(A, d + i, Len(A))
<1> DEFINE n == Len(A)
           a == SubSeq(Behind(A, d), i, n - d)
           b == SubSeq(A, d + i, n)
<1>0. n \in Nat /\ d \in Nat /\ d <= n /\ i \in Nat /\ 1 <= i /\ i <= n - d + 1
  OBVIOUS
<1>1. /\ Behind(A, d) \in Seq(C) /\ Len(Behind(A, d)) = n - d
      /\ \A j \in 1..(n - d) : Behind(A, d)[j] = A[d + j]
  BY BehindFacts
<1>2. /\ a \in Seq(C) /\ Len(a) = IF i <= n - d THEN n - d - i + 1 ELSE 0
      /\ \A j \in 1..(n - d - i + 1) : a[j] = Behind(A, d)[i + j - 1]
  <2>1. \A j \in i..(n - d) : Behind(A, d)[j] \in C
    BY <1>0, <1>1
  <2> QED BY <1>0, <2>1, SubSeqProperties
<1>3. /\ b \in Seq(C) /\ Len(b) = IF d + i <= n THEN n - (d + i) + 1 ELSE 0
      /\ \A j \in 1..(n - (d + i) + 1) : b[j] = A[d + i + j - 1]
  <2>1. \A j \in (d + i)..n : A[j] \in C
    BY <1>0
  <2> QED BY <1>0, <2>1, SubSeqProperties
<1> HIDE DEF a, b
<1>4. Len(a) = Len(b) /\ Len(a) = n - d - i + 1
  BY <1>0, <1>2, <1>3
<1>5. ASSUME NEW j \in 1..Len(a) PROVE a[j] = b[j]
  <2>1. /\ j \in 1..(n - d - i + 1) /\ j \in 1..(n - (d + i) + 1)
        /\ i + j - 1 \in 1..(n - d) /\ d + (i + j - 1) = d + i + j - 1
    BY <1>0, <1>4
  <2> HIDE DEF n
  <2> QED BY <1>1, <1>2, <1>3, <2>1
<1> QED BY <1>2, <1>3, <1>4, <1>5, SeqEqual DEF a, b

\* f is what unpack makes of each position of data
Parses(f, data) == \A i \in 1..(Len(data) + 1) : f[i] = ParseFrom(data, f, i)

\* What unpack makes of a position does not depend on what comes before.
LEMMA Shift ==
    ASSUME NEW M, NEW A \in Seq(Cells(M)), NEW d \in 0..Len(A), NEW f, NEW g,
           Parses(f, A), Parses(g, Behind(A, d))
    PROVE  g[1] = f[d + 1]
<1> DEFINE n == Len(A)
           k == n - d
           B == Behind(A, d)
           Alike(j) == g[j] = f[d + j]
           K == {x \in Nat : x <= k => \A j \in (k + 1 - x)..(k + 1) : Alike(j)}
<1>0. n \in Nat /\ d \in Nat /\ d <= n /\ k \in Nat /\ d + k = n
  OBVIOUS
<1>1. B \in Seq(Cells(M)) /\ Len(B) = k /\ \A i \in 1..k : B[i] = A[d + i]
  BY BehindFacts
<1>2. ASSUME NEW i \in 1..(k + 1), \A j \in (i + 1)..(k + 1) : Alike(j)
      PROVE  Alike(i)
  <2> DEFINE sA == {j \in (d + i)..n : A[j] = Start}
             sB == {j \in i..k : B[j] = Start}
             p == d + i
             keep == [packets |-> <<>>, rest |-> SubSeq(A, p, n)]
             none == [packets |-> <<>>, rest |-> <<>>]
  <2>1. /\ g[i] = ParseFrom(B, g, i) /\ f[p] = ParseFrom(A, f, p)
    <3>1. i \in 1..(Len(B) + 1) /\ p \in 1..(Len(A) + 1)
      BY <1>0, <1>1
    <3> HIDE DEF B, p
    <3> QED BY <3>1 DEF Parses, B
  <2>2. SubSeq(B, i, k) = SubSeq(A, p, n)
    BY <1>0, BehindPart
  <2>3. SubSeq(B, k + 1, k) = <<>> /\ SubSeq(A, n + 1, n) = <<>>
    BY <1>0, SubSeqEmpty
  <2>4. /\ \A j \in sB : d + j \in sA
        /\ \A j \in sA : j - d \in sB
        /\ sA \subseteq Nat /\ sB \subseteq Nat
    <3>1. \A j \in i..k : d + j \in p..n /\ B[j] = A[d + j]
      BY <1>0, <1>1
    <3>2. \A j \in p..n : j - d \in i..k /\ d + (j - d) = j
      BY <1>0
    <3> HIDE DEF B, k
    <3> QED BY <1>0, <3>1, <3>2
  <2>5. k + 1 - i < HeaderSize <=> n + 1 - p < HeaderSize
    BY <1>0 DEF HeaderSize
  <2>6. CASE k + 1 - i < HeaderSize
    <3>1. ParseFrom(B, g, i) = [packets |-> <<>>, rest |-> SubSeq(B, i, Len(B))]
      <4> HIDE DEF B, k
      <4> QED BY <1>1, <2>6 DEF ParseFrom
    <3>2. ParseFrom(A, f, p) = keep
      <4> HIDE DEF p
      <4> QED BY <2>5, <2>6 DEF ParseFrom, p
    <3> QED BY <1>1, <2>1, <2>2, <3>1, <3>2
  <2>7. CASE ~(k + 1 - i < HeaderSize) /\ sB = {}
    <3>0. sA = {}
      BY <2>4, <2>7
    <3>1. ParseFrom(B, g, i) = [packets |-> <<>>, rest |-> SubSeq(B, Len(B) + 1, Len(B))]
      <4> HIDE DEF B, k
      <4> QED BY <1>1, <2>7 DEF ParseFrom
    <3>2. ParseFrom(A, f, p) = [packets |-> <<>>, rest |-> SubSeq(A, n + 1, n)]
      <4> HIDE DEF p
      <4> QED BY <2>5, <2>7, <3>0 DEF ParseFrom, p
    <3> QED BY <1>1, <2>1, <2>3, <3>1, <3>2
  <2>8. CASE ~(k + 1 - i < HeaderSize) /\ sB # {}
    <3>0. /\ sA # {} /\ i + 1 \in 1..k /\ i \in 1..k /\ p + 1 = d + (i + 1)
          /\ B[i] = A[p] /\ B[i + 1] = A[p + 1] /\ B[i + 1] \in Cells(M)
          /\ ~(n + 1 - p < HeaderSize)
      <4>1. sA # {}
        BY <2>4, <2>8
      <4>2. i + 1 \in 1..k /\ i \in 1..k /\ p + 1 = d + (i + 1)
        BY <1>0, <2>8 DEF HeaderSize
      <4>3. B[i] = A[p]
        <5> HIDE DEF B, k
        <5> QED BY <1>1, <4>2
      <4>4. B[i + 1] = A[p + 1]
        <5> HIDE DEF B, k
        <5>1. B[i + 1] = A[d + (i + 1)]
          BY ONLY <1>1, <4>2, Zenon
        <5> QED BY ONLY <4>2, <5>1, Zenon
      <4>5. B[i + 1] \in Cells(M)
        <5> HIDE DEF B, k
        <5> QED BY <1>1, <4>2
      <4>6. ~(n + 1 - p < HeaderSize)
        <5> HIDE DEF n, p, k
        <5> QED BY ONLY <2>5, <2>8, Zenon
      <4> HIDE DEF B, k, n, p, sA
      <4> QED BY ONLY <4>1, <4>2, <4>3, <4>4, <4>5, <4>6, Zenon
    <3>1. CASE B[i] # Start
      <4> DEFINE mA == Min(sA)
                 mB == Min(sB)
      <4>1. mA = d + mB /\ mB \in (i + 1)..(k + 1)
        <5> HIDE DEF sA, sB
        <5>1. mA \in sA /\ mB \in sB
              /\ (\A m \in sB : (\A j \in sB : m <= j) => mB = m)
          BY <2>4, <2>8, <3>0, Smallest
        <5>2. \A j \in sA : mA <= j
          <6>1. PICK m \in sA : \A j \in sA : m <= j
            BY <2>4, <3>0, Least
          <6>2. Min(sA) = m
            BY <2>4, <3>0, <6>1, Smallest
          <6> QED BY <6>1, <6>2
        <5>3. mA - d \in sB /\ \A j \in sB : mA - d <= j
          <6>1. mA \in Nat /\ \A j \in sB : j \in Nat /\ mA <= d + j
            BY <2>4, <5>1, <5>2
          <6> HIDE DEF mA
          <6> QED BY <1>0, <2>4, <5>1, <6>1
        <5>4. mB = mA - d /\ mA \in Nat
          BY <2>4, <5>1, <5>3
        <5>5. mB \in i..k /\ B[mB] = Start
          BY <5>1 DEF sB
        <5> HIDE DEF mA, mB
        <5>6. mB # i
          BY <3>1, <5>5
        <5> QED BY <1>0, <5>4, <5>5, <5>6
      <4>2. ParseFrom(B, g, i) = g[mB]
        <5> HIDE DEF B, k
        <5> QED BY <1>1, <2>8, <3>1 DEF ParseFrom
      <4>3. ParseFrom(A, f, p) = f[mA]
        <5>1. A[p] # Start
          BY <3>0, <3>1
        <5> HIDE DEF p, B, k
        <5> QED BY <3>0, <5>1 DEF ParseFrom, p
      <4> HIDE DEF mA, mB
      <4> QED BY <1>2, <2>1, <4>1, <4>2, <4>3
    <3>2. CASE B[i] = Start /\ B[i + 1].kind # "header"
      <4>1. ParseFrom(B, g, i) = g[i + 1]
        <5> HIDE DEF B, k
        <5> QED BY <1>1, <2>8, <3>2 DEF ParseFrom
      <4>2. ParseFrom(A, f, p) = f[p + 1]
        <5>1. A[p] = Start /\ A[p + 1].kind # "header"
          BY <3>0, <3>2
        <5> HIDE DEF p, B, k
        <5> QED BY <3>0, <5>1 DEF ParseFrom, p
      <4>3. i + 1 \in (i + 1)..(k + 1)
        BY <3>0
      <4> QED BY <1>2, <2>1, <3>0, <4>1, <4>2, <4>3
    <3>3. CASE B[i] = Start /\ B[i + 1].kind = "header"
      <4> DEFINE l == B[i + 1].length
                 x == i + HeaderSize + l
                 y == p + HeaderSize + l
      <4>0. l \in Nat /\ x \in Nat /\ x >= i + 1 /\ y = d + x /\ (x > k + 1 <=> y > n + 1)
        <5>1. l \in Nat
          BY <3>0, <3>3, CellKinds
        <5> HIDE DEF l
        <5> QED BY <1>0, <5>1 DEF HeaderSize
      <4>1. A[p] = Start /\ A[p + 1].kind = "header" /\ A[p + 1].length = l
            /\ A[p + 1].msg = B[i + 1].msg
        BY <3>0, <3>3
      <4>2. CASE x > k + 1
        <5>1. ParseFrom(B, g, i) = [packets |-> <<>>, rest |-> SubSeq(B, i, Len(B))]
          <6> HIDE DEF B, k
          <6> QED BY <1>1, <2>8, <3>3, <4>2 DEF ParseFrom
        <5>2. ParseFrom(A, f, p) = keep
          <6>1. p + HeaderSize + A[p + 1].length > n + 1
            BY <4>0, <4>1, <4>2
          <6> HIDE DEF p, B, k
          <6> QED BY <3>0, <4>1, <6>1 DEF ParseFrom, p
        <5> QED BY <1>1, <2>1, <2>2, <5>1, <5>2
      <4>3. CASE ~(x > k + 1)
        <5>1. ParseFrom(B, g, i)
              = [packets |-> <<B[i + 1].msg>> \o g[x].packets, rest |-> g[x].rest]
          <6> HIDE DEF B, k
          <6> QED BY <1>1, <2>8, <3>3, <4>3 DEF ParseFrom
        <5>2. ParseFrom(A, f, p)
              = [packets |-> <<B[i + 1].msg>> \o f[y].packets, rest |-> f[y].rest]
          <6>1. ~(p + HeaderSize + A[p + 1].length > n + 1)
            BY <4>0, <4>1, <4>3
          <6> HIDE DEF p, B, k
          <6> QED BY <3>0, <4>1, <6>1 DEF ParseFrom, p
        <5>3. g[x] = f[y]
          <6> HIDE DEF x, y
          <6>1. x \in (i + 1)..(k + 1)
            BY <1>0, <4>0, <4>3
          <6> QED BY <1>2, <4>0, <6>1
        <5> HIDE DEF x, y
        <5> QED BY <2>1, <5>1, <5>2, <5>3
      <4> QED BY <4>2, <4>3
    <3> QED BY <3>1, <3>2, <3>3
  <2> QED BY <2>6, <2>7, <2>8
<1>3. 0 \in K
  <2>1. Alike(k + 1)
    <3>1. k + 1 \in 1..(k + 1) /\ \A j \in ((k + 1) + 1)..(k + 1) : Alike(j)
      BY <1>0
    <3> HIDE DEF Alike, k
    <3> QED BY <1>2, <3>1
  <2>2. \A j \in (k + 1 - 0)..(k + 1) : j = k + 1
    BY <1>0
  <2> HIDE DEF Alike, k
  <2> QED BY <2>1, <2>2
<1>4. ASSUME NEW x \in K PROVE x + 1 \in K
  <2> SUFFICES ASSUME x + 1 <= k, NEW j \in (k + 1 - (x + 1))..(k + 1) PROVE Alike(j)
    OBVIOUS
  <2>1. x \in Nat /\ \A i \in (k + 1 - x)..(k + 1) : Alike(i)
    BY <1>0, <1>4
  <2> HIDE DEF Alike, k
  <2>2. k - x \in 1..(k + 1) /\ \A i \in (k - x + 1)..(k + 1) : i \in (k + 1 - x)..(k + 1)
    BY <1>0, <2>1
  <2>3. Alike(k - x)
    BY <1>2, <2>1, <2>2
  <2>4. j = k - x \/ j \in (k + 1 - x)..(k + 1)
    BY <1>0, <2>1
  <2> QED BY <2>1, <2>3, <2>4
<1>5. k \in K
  <2> HIDE DEF K
  <2> QED BY <1>0, <1>3, <1>4, Induct
<1>6. Alike(1)
  <2>1. 1 \in (k + 1 - k)..(k + 1)
    BY <1>0
  <2> HIDE DEF Alike
  <2> QED BY <1>0, <1>5, <2>1
<1> QED BY <1>6

-----------------------------------------------------------------------------
(* The cases of unpack *)

\* Where unpack goes on at a later position, it makes of the stream what it
\* makes of the rest of it.
LEMMA UnpackBehind ==
    ASSUME NEW M, NEW A \in Seq(Cells(M)), NEW d \in 0..Len(A), NEW f, Parses(f, A)
    PROVE  Unpack(Behind(A, d)) = f[d + 1]
<1>1. Behind(A, d) \in Seq(Cells(M))
  BY BehindFacts
<1>2. PICK g : Unpack(Behind(A, d)) = g[1] /\ Parses(g, Behind(A, d))
  BY <1>1, UnpackParses DEF Parses
<1> QED BY <1>2, Shift

\* Less than a header is kept.
LEMMA UnpackShort ==
    ASSUME NEW M, NEW A \in Seq(Cells(M)), Len(A) < 2
    PROVE  Packets(A) = <<>> /\ Kept(A) = A
<1>1. PICK f : Unpack(A) = f[1] /\ Parses(f, A)
  BY UnpackParses DEF Parses
<1>2. f[1] = ParseFrom(A, f, 1) /\ Len(A) + 1 - 1 < HeaderSize
  BY <1>1 DEF Parses, HeaderSize
<1>3. f[1] = [packets |-> <<>>, rest |-> SubSeq(A, 1, Len(A))]
  BY <1>2 DEF ParseFrom
<1>4. SubSeq(A, 1, Len(A)) = A
  BY SubSeqFull
<1> QED BY <1>1, <1>3, <1>4 DEF Packets, Kept

\* Where no packet begins, nothing is found and at most one cell is kept.
LEMMA UnpackNone ==
    ASSUME NEW M, NEW A \in Seq(Cells(M)), \A i \in 1..Len(A) : A[i] # Start
    PROVE  /\ Packets(A) = <<>> /\ Kept(A) \in Seq(Cells(M)) /\ Len(Kept(A)) <= 1
           /\ Len(A) >= 2 => Kept(A) = <<>>
<1>1. PICK f : Unpack(A) = f[1] /\ Parses(f, A)
  BY UnpackParses DEF Parses
<1>2. CASE Len(A) < 2
  BY <1>2, UnpackShort
<1>3. CASE ~(Len(A) < 2)
  <2>1. f[1] = ParseFrom(A, f, 1) /\ ~(Len(A) + 1 - 1 < HeaderSize)
    BY <1>1, <1>3 DEF Parses, HeaderSize
  <2>2. {j \in 1..Len(A) : A[j] = Start} = {}
    OBVIOUS
  <2>3. f[1] = [packets |-> <<>>, rest |-> SubSeq(A, Len(A) + 1, Len(A))]
    BY <2>1, <2>2 DEF ParseFrom
  <2>4. SubSeq(A, Len(A) + 1, Len(A)) = <<>>
    BY SubSeqEmpty
  <2> QED BY <1>1, <2>3, <2>4 DEF Packets, Kept
<1> QED BY <1>2, <1>3

\* What comes before the first start byte is skipped.
LEMMA UnpackSkips ==
    ASSUME NEW M, NEW A \in Seq(Cells(M)), NEW d \in Nat, d + 1 \in 1..Len(A), A[d + 1] = Start,
           \A i \in 1..d : A[i] # Start
    PROVE  Unpack(A) = Unpack(Behind(A, d))
<1>1. PICK f : Unpack(A) = f[1] /\ Parses(f, A)
  BY UnpackParses DEF Parses
<1>2. Unpack(Behind(A, d)) = f[d + 1]
  BY <1>1, UnpackBehind
<1>3. CASE d = 0
  BY <1>1, <1>2, <1>3
<1>4. CASE d # 0
  <2> DEFINE starts == {j \in 1..Len(A) : A[j] = Start}
  <2>1. f[1] = ParseFrom(A, f, 1) /\ ~(Len(A) + 1 - 1 < HeaderSize)
    BY <1>1, <1>4 DEF Parses, HeaderSize
  <2>2. A[1] # Start /\ d + 1 \in starts
    BY <1>4
  <2>3. Min(starts) = d + 1
    <3>1. starts \subseteq Nat /\ \A j \in starts : d + 1 <= j
      OBVIOUS
    <3> HIDE DEF starts
    <3> QED BY <2>2, <3>1, Smallest
  <2>4. f[1] = f[Min(starts)]
    BY <2>1, <2>2 DEF ParseFrom
  <2> QED BY <1>1, <1>2, <2>3, <2>4
<1> QED BY <1>3, <1>4

\* A start byte that no header follows is skipped.
LEMMA UnpackStray ==
    ASSUME NEW M, NEW A \in Seq(Cells(M)), Len(A) >= 2, A[1] = Start, A[2].kind # "header"
    PROVE  Unpack(A) = Unpack(Behind(A, 1))
<1>1. PICK f : Unpack(A) = f[1] /\ Parses(f, A)
  BY UnpackParses DEF Parses
<1>2. Unpack(Behind(A, 1)) = f[1 + 1]
  BY <1>1, UnpackBehind
<1>3. f[1] = ParseFrom(A, f, 1) /\ ~(Len(A) + 1 - 1 < HeaderSize) /\ 1 + 1 = 2
      /\ {j \in 1..Len(A) : A[j] = Start} # {}
  BY <1>1 DEF Parses, HeaderSize
<1>4. f[1] = f[1 + 1]
  BY <1>3 DEF ParseFrom
<1> QED BY <1>1, <1>2, <1>4

\* An incomplete packet is kept.
LEMMA UnpackPart ==
    ASSUME NEW M, NEW A \in Seq(Cells(M)), Len(A) >= 2, NEW m, NEW l \in Nat,
           A[1] = Start, A[2] = Header(m, l), 2 + l > Len(A)
    PROVE  Packets(A) = <<>> /\ Kept(A) = A
<1>1. PICK f : Unpack(A) = f[1] /\ Parses(f, A)
  BY UnpackParses DEF Parses
<1>2. f[1] = ParseFrom(A, f, 1) /\ ~(Len(A) + 1 - 1 < HeaderSize) /\ 1 + 1 = 2
      /\ {j \in 1..Len(A) : A[j] = Start} # {}
  BY <1>1 DEF Parses, HeaderSize
<1>3. A[1 + 1].kind = "header" /\ 1 + HeaderSize + A[1 + 1].length > Len(A) + 1
  BY <1>2, Kinds DEF HeaderSize
<1>4. f[1] = [packets |-> <<>>, rest |-> SubSeq(A, 1, Len(A))]
  BY <1>2, <1>3 DEF ParseFrom
<1>5. SubSeq(A, 1, Len(A)) = A
  BY SubSeqFull
<1> QED BY <1>1, <1>4, <1>5 DEF Packets, Kept

\* A complete one is found, and the rest is parsed.
LEMMA UnpackWhole ==
    ASSUME NEW M, NEW A \in Seq(Cells(M)), Len(A) >= 2, NEW m, NEW l \in Nat,
           A[1] = Start, A[2] = Header(m, l), 2 + l <= Len(A)
    PROVE  /\ Packets(A) = <<m>> \o Packets(Behind(A, 2 + l))
           /\ Kept(A) = Kept(Behind(A, 2 + l))
<1>1. PICK f : Unpack(A) = f[1] /\ Parses(f, A)
  BY UnpackParses DEF Parses
<1>2. f[1] = ParseFrom(A, f, 1) /\ ~(Len(A) + 1 - 1 < HeaderSize) /\ 1 + 1 = 2
      /\ {j \in 1..Len(A) : A[j] = Start} # {}
  BY <1>1 DEF Parses, HeaderSize
<1>3. A[1 + 1].kind = "header" /\ ~(1 + HeaderSize + A[1 + 1].length > Len(A) + 1)
      /\ 1 + HeaderSize + A[1 + 1].length = (2 + l) + 1 /\ A[1 + 1].msg = m
  BY <1>2, Kinds DEF HeaderSize
<1>4. f[1] = [packets |-> <<m>> \o f[(2 + l) + 1].packets, rest |-> f[(2 + l) + 1].rest]
  <2> DEFINE x == 1 + HeaderSize + A[1 + 1].length
  <2>1. ParseFrom(A, f, 1) = [packets |-> <<A[1 + 1].msg>> \o f[x].packets, rest |-> f[x].rest]
    BY <1>2, <1>3 DEF ParseFrom
  <2> HIDE DEF x
  <2>2. x = (2 + l) + 1
    BY <1>3 DEF x
  <2> QED BY <1>2, <1>3, <2>1, <2>2
<1>5. Unpack(Behind(A, 2 + l)) = f[(2 + l) + 1]
  <2>1. 2 + l \in 0..Len(A)
    OBVIOUS
  <2> QED BY <1>1, <2>1, UnpackBehind
<1> QED BY <1>1, <1>4, <1>5 DEF Packets, Kept

\* What follows is left in its place.
LEMMA BehindConcat ==
    ASSUME NEW C, NEW A \in Seq(C), NEW B \in Seq(C), NEW d \in 0..Len(A)
    PROVE  Behind(A \o B, d) = Behind(A, d) \o B
<1> DEFINE a == Behind(A \o B, d)
           h == Behind(A, d)
           b == h \o B
           n == Len(A)
<1>0. n \in Nat /\ Len(B) \in Nat /\ d \in Nat /\ d <= n
  OBVIOUS
<1>1. /\ A \o B \in Seq(C) /\ Len(A \o B) = n + Len(B)
      /\ \A i \in 1..n : (A \o B)[i] = A[i]
      /\ \A i \in 1..Len(B) : (A \o B)[n + i] = B[i]
  BY ConcatAt
<1>2. /\ a \in Seq(C) /\ Len(a) = n + Len(B) - d
      /\ \A i \in 1..(n + Len(B) - d) : a[i] = (A \o B)[d + i]
  <2>1. PICK v : v = A \o B
    OBVIOUS
  <2>2. v \in Seq(C) /\ Len(v) = n + Len(B) /\ d \in 0..Len(v)
    BY <1>0, <1>1, <2>1
  <2>3. /\ Behind(v, d) \in Seq(C)
        /\ Len(Behind(v, d)) = Len(v) - d
        /\ \A i \in 1..(Len(v) - d) : Behind(v, d)[i] = v[d + i]
    BY ONLY <2>2, BehindFacts
  <2> QED BY ONLY <2>1, <2>2, <2>3
<1>3. h \in Seq(C) /\ Len(h) = n - d /\ \A i \in 1..(n - d) : h[i] = A[d + i]
  BY BehindFacts
<1> HIDE DEF h
<1>4. /\ b \in Seq(C) /\ Len(b) = n - d + Len(B)
      /\ \A i \in 1..(n - d) : b[i] = h[i]
      /\ \A i \in 1..Len(B) : b[(n - d) + i] = B[i]
  <2>1. /\ h \o B \in Seq(C)
        /\ Len(h \o B) = Len(h) + Len(B)
        /\ \A i \in 1..Len(h) : (h \o B)[i] = h[i]
        /\ \A i \in 1..Len(B) : (h \o B)[Len(h) + i] = B[i]
    <3>1. h \in Seq(C) /\ B \in Seq(C)
      BY <1>3
    <3>2. PICK g : g = h
      OBVIOUS
    <3>3. g \in Seq(C) /\ B \in Seq(C)
      BY <3>1, <3>2
    <3>4. /\ g \o B \in Seq(C)
          /\ Len(g \o B) = Len(g) + Len(B)
          /\ \A i \in 1..Len(g) : (g \o B)[i] = g[i]
          /\ \A i \in 1..Len(B) : (g \o B)[Len(g) + i] = B[i]
      BY ONLY <3>3, ConcatAt
    <3> QED BY ONLY <3>2, <3>4, Zenon
  <2>2. Len(h) = n - d
    BY <1>3
  <2> HIDE DEF b, n
  <2>3. /\ b \in Seq(C) /\ Len(b) = Len(h) + Len(B)
        /\ \A i \in 1..Len(h) : b[i] = h[i]
        /\ \A i \in 1..Len(B) : b[Len(h) + i] = B[i]
    BY ONLY <2>1 DEF b
  <2> QED BY ONLY <2>2, <2>3
<1>5. ASSUME NEW i \in 1..Len(a) PROVE a[i] = b[i]
  <2>0. i \in 1..(n + Len(B) - d)
    BY <1>2
  <2> HIDE DEF a, b, n
  <2>1. CASE i <= n - d
    <3>1. i \in 1..(n - d) /\ d + i \in 1..n
      BY ONLY <1>0, <2>0, <2>1
    <3> QED BY <1>1, <1>2, <1>3, <1>4, <2>0, <3>1
  <2>2. CASE ~(i <= n - d)
    <3> DEFINE x == i - (n - d)
    <3>1. x \in 1..Len(B) /\ i = (n - d) + x /\ d + i = n + x
      BY ONLY <1>0, <2>0, <2>2
    <3> HIDE DEF x
    <3>2. a[i] = (A \o B)[n + x] /\ (A \o B)[n + x] = B[x] /\ b[(n - d) + x] = B[x]
      BY <1>1, <1>2, <1>4, <2>0, <3>1
    <3> QED BY <3>1, <3>2
  <2> QED BY <2>1, <2>2
<1>6. Len(a) = Len(b)
  BY <1>0, <1>2, <1>4
<1> HIDE DEF a, b
<1>7. a = b
  BY <1>2, <1>4, <1>5, <1>6, SeqEqual
<1> QED BY <1>7 DEF a, b, h

\* Skipping in front of B, too.
LEMMA SkipsBefore ==
    ASSUME NEW M, NEW A \in Seq(Cells(M)), NEW B \in Seq(Cells(M)),
           NEW d \in Nat, d + 1 \in 1..Len(A), A[d + 1] = Start, \A i \in 1..d : A[i] # Start
    PROVE  Unpack(A \o B) = Unpack(Behind(A, d) \o B)
<1>1. PICK v : v = A \o B
  OBVIOUS
<1>2. /\ v \in Seq(Cells(M)) /\ Len(v) = Len(A) + Len(B)
      /\ \A i \in 1..Len(A) : v[i] = A[i]
  BY <1>1, ConcatAt
<1>3. Len(A) \in Nat /\ Len(B) \in Nat /\ d \in 0..Len(A)
  OBVIOUS
<1>4. d + 1 \in 1..Len(v) /\ v[d + 1] = Start /\ \A i \in 1..d : v[i] # Start
  <2>1. d + 1 \in 1..Len(v)
    <3>1. PICK a, b, c : a = Len(A) /\ b = Len(B) /\ c = Len(v)
      OBVIOUS
    <3>2. d + 1 \in 1..c
      <4>1. a \in Nat /\ b \in Nat /\ c = a + b /\ d + 1 \in 1..a
        BY <1>2, <1>3, <3>1
      <4> QED BY ONLY d \in Nat, <4>1
    <3> QED BY ONLY <3>1, <3>2, Zenon
  <2>2. v[d + 1] = Start
    BY <1>2
  <2>3. ASSUME NEW i \in 1..d PROVE v[i] # Start
    <3>1. i \in 1..Len(A)
      BY <1>3
    <3> QED BY <1>2, <3>1
  <2> QED BY ONLY <2>1, <2>2, <2>3, Zenon
<1>5. Unpack(v) = Unpack(Behind(v, d))
  BY <1>2, <1>4, UnpackSkips
<1>6. Behind(v, d) = Behind(A, d) \o B
  BY <1>1, <1>3, BehindConcat
<1> QED BY <1>1, <1>5, <1>6

\* unpack goes on behind the first d cells of A, whatever comes behind A
Skips(M, A, d) ==
    /\ Packets(A) = Packets(Behind(A, d)) /\ Kept(A) = Kept(Behind(A, d))
    /\ \A B \in Seq(Cells(M)) : /\ Packets(A \o B) = Packets(Behind(A, d) \o B)
                                /\ Kept(A \o B) = Kept(Behind(A, d) \o B)
\* and these are the packet of m
Finds(M, A, d, m) ==
    /\ Packets(A) = <<m>> \o Packets(Behind(A, d)) /\ Kept(A) = Kept(Behind(A, d))
    /\ \A B \in Seq(Cells(M)) : /\ Packets(A \o B) = <<m>> \o Packets(Behind(A, d) \o B)
                                /\ Kept(A \o B) = Kept(Behind(A, d) \o B)

\* In each case unpack is at its end, whatever comes next, or at the end of the
\* stream, or goes on behind the first d cells, whatever comes next.
LEMMA UnpackCases ==
    ASSUME NEW M, NEW A \in Seq(Cells(M))
    PROVE  \/ Packets(A) = <<>> /\ Kept(A) = A
           \/ Len(A) >= 2 /\ \A i \in 1..Len(A) : A[i] # Start
           \/ \E d \in 1..Len(A) : Skips(M, A, d)
           \/ \E d \in 1..Len(A), m \in M : Finds(M, A, d, m)
<1>0. Len(A) \in Nat
  OBVIOUS
<1>1. CASE Len(A) < 2
  BY <1>1, UnpackShort
<1>2. CASE Len(A) >= 2 /\ \A i \in 1..Len(A) : A[i] # Start
  BY <1>2
<1>3. CASE Len(A) >= 2 /\ A[1] # Start /\ \E i \in 1..Len(A) : A[i] = Start
  <2> DEFINE T == {i \in 1..Len(A) : A[i] = Start}
  <2>1. PICK j \in T : \A i \in T : j <= i
    <3>1. T \subseteq Nat /\ T # {}
      BY <1>3
    <3> HIDE DEF T
    <3> QED BY <3>1, Least
  <2> DEFINE d == j - 1
  <2>2. d \in 1..Len(A) /\ d \in Nat /\ d + 1 \in 1..Len(A) /\ A[d + 1] = Start
        /\ \A i \in 1..d : A[i] # Start
    BY <1>0, <1>3, <2>1
  <2> HIDE DEF d
  <2>3. Unpack(A) = Unpack(Behind(A, d))
    BY <2>2, UnpackSkips
  <2>4. \A B \in Seq(Cells(M)) : Unpack(A \o B) = Unpack(Behind(A, d) \o B)
    BY <2>2, SkipsBefore
  <2> QED BY <2>2, <2>3, <2>4 DEF Packets, Kept, Skips
<1>4. CASE Len(A) >= 2 /\ A[1] = Start /\ A[2].kind # "header"
  <2>1. Unpack(A) = Unpack(Behind(A, 1))
    BY <1>4, UnpackStray
  <2>2. ASSUME NEW B \in Seq(Cells(M)) PROVE Unpack(A \o B) = Unpack(Behind(A, 1) \o B)
    <3>1. PICK v : v = A \o B
      OBVIOUS
    <3>2. /\ v \in Seq(Cells(M)) /\ Len(v) = Len(A) + Len(B)
          /\ \A i \in 1..Len(A) : v[i] = A[i]
      BY <3>1, ConcatAt
    <3>3. Len(v) >= 2 /\ v[1] = Start /\ v[2].kind # "header"
      BY <1>4, <3>2
    <3>4. Unpack(v) = Unpack(Behind(v, 1))
      BY <3>2, <3>3, UnpackStray
    <3>5. Behind(v, 1) = Behind(A, 1) \o B
      <4>1. 1 \in 0..Len(A)
        BY <1>0, <1>4
      <4> QED BY <3>1, <4>1, BehindConcat
    <3> QED BY <3>1, <3>4, <3>5
  <2>3. 1 \in 1..Len(A)
    BY <1>0, <1>4
  <2> QED BY <2>1, <2>2, <2>3 DEF Packets, Kept, Skips
<1>5. CASE Len(A) >= 2 /\ A[1] = Start /\ A[2].kind = "header"
  <2>1. A[2] \in Cells(M)
    BY <1>0, <1>5
  <2>2. PICK m \in M, l \in Nat : A[2] = Header(m, l)
    BY <1>5, <2>1, CellKinds
  <2>3. CASE 2 + l > Len(A)
    BY <1>5, <2>2, <2>3, UnpackPart
  <2>4. CASE 2 + l <= Len(A)
    <3>1. Packets(A) = <<m>> \o Packets(Behind(A, 2 + l)) /\ Kept(A) = Kept(Behind(A, 2 + l))
      BY <1>5, <2>2, <2>4, UnpackWhole
    <3>2. ASSUME NEW B \in Seq(Cells(M))
          PROVE  /\ Packets(A \o B) = <<m>> \o Packets(Behind(A, 2 + l) \o B)
                 /\ Kept(A \o B) = Kept(Behind(A, 2 + l) \o B)
      <4>1. PICK v : v = A \o B
        OBVIOUS
      <4>2. /\ v \in Seq(Cells(M)) /\ Len(v) = Len(A) + Len(B)
            /\ \A i \in 1..Len(A) : v[i] = A[i]
        BY <4>1, ConcatAt
      <4>3. Len(v) >= 2 /\ v[1] = Start /\ v[2] = Header(m, l) /\ 2 + l <= Len(v)
        BY <1>0, <1>5, <2>2, <2>4, <4>2
      <4>4. Packets(v) = <<m>> \o Packets(Behind(v, 2 + l)) /\ Kept(v) = Kept(Behind(v, 2 + l))
        BY <4>2, <4>3, UnpackWhole
      <4>5. Behind(v, 2 + l) = Behind(A, 2 + l) \o B
        <5>1. 2 + l \in 0..Len(A)
          BY <1>0, <2>4
        <5> QED BY <4>1, <5>1, BehindConcat
      <4> QED BY <4>1, <4>4, <4>5
    <3>3. 2 + l \in 1..Len(A)
      BY <1>0, <2>4
    <3>4. Finds(M, A, 2 + l, m)
      BY <3>1, <3>2 DEF Finds
    <3> QED BY <3>3, <3>4
  <2>5. 2 + l > Len(A) \/ 2 + l <= Len(A)
    BY <1>0, <2>2
  <2> QED BY ONLY <2>3, <2>4, <2>5, Zenon
<1>6. Len(A) < 2 \/ Len(A) >= 2
  BY <1>0
<1> QED BY ONLY <1>1, <1>2, <1>3, <1>4, <1>5, <1>6, Zenon

-----------------------------------------------------------------------------
(* Streams cut anywhere *)

LEMMA ConcatFirst ==
    ASSUME NEW M, NEW m \in M, NEW q \in Seq(M), NEW r \in Seq(M)
    PROVE  (<<m>> \o q) \o r = <<m>> \o (q \o r)
<1>1. PICK t : t = <<m>>
  OBVIOUS
<1>2. t \in Seq(M)
  BY <1>1
<1>3. (t \o q) \o r = t \o (q \o r)
  BY <1>2, ConcatAssociative
<1> QED BY <1>1, <1>3

\* Packets hold requests, and what is kept is part of a stream.
LEMMA UnpackTypes ==
    ASSUME NEW M
    PROVE  \A A \in Seq(Cells(M)) : Packets(A) \in Seq(M) /\ Kept(A) \in Seq(Cells(M))
<1> DEFINE Good(A) == Packets(A) \in Seq(M) /\ Kept(A) \in Seq(Cells(M))
           T == {Len(A) : A \in {X \in Seq(Cells(M)) : ~Good(X)}}
<1> SUFFICES ASSUME T # {} PROVE FALSE
  OBVIOUS
<1>1. T \subseteq Nat
  OBVIOUS
<1>2. PICK n \in T : \A k \in T : n <= k
  <2> HIDE DEF T
  <2> QED BY <1>1, Least
<1>3. PICK A \in Seq(Cells(M)) : Len(A) = n /\ ~Good(A)
  OBVIOUS
<1>4. ASSUME NEW d \in 1..Len(A) PROVE Good(Behind(A, d))
  <2>1. Behind(A, d) \in Seq(Cells(M)) /\ Len(Behind(A, d)) = Len(A) - d /\ Len(A) - d < n
    <3>1. d \in 0..Len(A) /\ Len(A) - d < n
      BY <1>3
    <3> QED BY <3>1, BehindFacts
  <2>2. Len(Behind(A, d)) \notin T
    <3> HIDE DEF T
    <3>1. n \in Nat
      BY <1>1, <1>2
    <3>2. Len(A) - d \in Int /\ ~(n <= Len(A) - d)
      BY <2>1, <3>1
    <3> QED BY <1>2, <2>1, <3>2
  <2> QED BY <2>1, <2>2
<1>5. CASE Packets(A) = <<>> /\ Kept(A) = A
  BY <1>3, <1>5
<1>6. CASE Len(A) >= 2 /\ \A i \in 1..Len(A) : A[i] # Start
  <2>1. Packets(A) = <<>> /\ Kept(A) = <<>>
    BY <1>6, UnpackNone
  <2> QED BY <1>3, <2>1
<1>7. ASSUME NEW d \in 1..Len(A), Skips(M, A, d) PROVE FALSE
  BY <1>3, <1>4, <1>7 DEF Skips
<1>8. ASSUME NEW d \in 1..Len(A), NEW m \in M, Finds(M, A, d, m) PROVE FALSE
  <2>1. Packets(Behind(A, d)) \in Seq(M) /\ Kept(A) \in Seq(Cells(M))
    BY <1>4, <1>8 DEF Finds
  <2>2. <<m>> \in Seq(M)
    OBVIOUS
  <2>3. Packets(A) \in Seq(M)
    BY <1>8, <2>1, <2>2, ConcatAt DEF Finds
  <2> QED BY <1>3, <2>1, <2>3
<1> HIDE DEF Good, T
<1> QED BY ONLY A \in Seq(Cells(M)), <1>5, <1>6, <1>7, <1>8, UnpackCases, Zenon

\* Behind cells where no packet begins it finds the packets that follow.
LEMMA JunkBefore ==
    ASSUME NEW M, NEW A \in Seq(Cells(M)), NEW B \in Seq(Cells(M)), Len(A) >= 2,
           \A i \in 1..Len(A) : A[i] # Start
    PROVE  /\ Packets(A \o B) = Packets(B)
           /\ Kept(A \o B) = Kept(B) \/ (Len(Kept(A \o B)) <= 1 /\ Len(Kept(B)) <= 1)
<1>0. Len(A) \in Nat /\ Len(B) \in Nat
  OBVIOUS
<1>1. PICK v : v = A \o B
  OBVIOUS
<1>2. /\ v \in Seq(Cells(M)) /\ Len(v) = Len(A) + Len(B)
      /\ \A i \in 1..Len(A) : v[i] = A[i]
      /\ \A i \in 1..Len(B) : v[Len(A) + i] = B[i]
  BY <1>1, ConcatAt
<1>3. CASE \A i \in 1..Len(B) : B[i] # Start
  <2>1. ASSUME NEW i \in 1..Len(v) PROVE v[i] # Start
    <3>1. CASE i <= Len(A)
      <4>1. i \in 1..Len(A)
        BY <1>0, <3>1
      <4>2. v[i] = A[i]
        BY ONLY <1>2, <4>1, Zenon
      <4> QED BY <4>1, <4>2
    <3>2. CASE ~(i <= Len(A))
      <4>1. i - Len(A) \in 1..Len(B) /\ i = Len(A) + (i - Len(A))
        BY <1>0, <1>2, <3>2
      <4> QED BY <1>2, <1>3, <4>1
    <3> QED BY <3>1, <3>2
  <2>2. Packets(v) = <<>> /\ Len(Kept(v)) <= 1
    BY <1>2, <2>1, UnpackNone
  <2>3. Packets(B) = <<>> /\ Len(Kept(B)) <= 1
    BY <1>3, UnpackNone
  <2> QED BY <1>1, <2>2, <2>3
<1>4. CASE \E i \in 1..Len(B) : B[i] = Start
  <2> DEFINE T == {i \in 1..Len(B) : B[i] = Start}
  <2>1. PICK j \in T : \A i \in T : j <= i
    <3>1. T \subseteq Nat /\ T # {}
      BY <1>4
    <3> HIDE DEF T
    <3> QED BY <3>1, Least
  <2>2. j \in 1..Len(B) /\ B[j] = Start /\ \A i \in 1..(j - 1) : B[i] # Start
    BY <1>0, <2>1
  <2>3. Unpack(B) = Unpack(Behind(B, j - 1))
    <3>1. j - 1 \in Nat /\ (j - 1) + 1 = j
      BY <2>2
    <3> QED BY <2>2, <3>1, UnpackSkips
  <2>4. ASSUME NEW i \in 1..(Len(A) + (j - 1)) PROVE v[i] # Start
    <3>1. CASE i <= Len(A)
      BY <1>0, <1>2, <3>1
    <3>2. CASE ~(i <= Len(A))
      <4>1. i - Len(A) \in 1..Len(B) /\ i - Len(A) \in 1..(j - 1) /\ i = Len(A) + (i - Len(A))
        BY <1>0, <2>2, <3>2
      <4> QED BY <1>2, <2>2, <4>1
    <3> QED BY <3>1, <3>2
  <2>5. Unpack(v) = Unpack(Behind(v, Len(A) + (j - 1)))
    <3>1. Len(A) + (j - 1) \in Nat /\ (Len(A) + (j - 1)) + 1 = Len(A) + j
          /\ Len(A) + j \in 1..Len(v)
      BY <1>0, <1>2, <2>2
    <3>2. v[Len(A) + j] = Start
      BY <1>2, <2>2
    <3> QED BY <1>2, <2>4, <3>1, <3>2, UnpackSkips
  <2>6. Behind(v, Len(A) + (j - 1)) = Behind(B, j - 1)
    <3> DEFINE e == Len(A) + (j - 1)
    <3>0. e \in 0..Len(v) /\ j - 1 \in 0..Len(B) /\ Len(v) - e = Len(B) - (j - 1)
      BY <1>0, <1>2, <2>2
    <3>1. PICK x : x = Behind(v, e)
      OBVIOUS
    <3>2. PICK y : y = Behind(B, j - 1)
      OBVIOUS
    <3>3. x \in Seq(Cells(M)) /\ Len(x) = Len(v) - e /\ \A i \in 1..(Len(v) - e) : x[i] = v[e + i]
      <4> HIDE DEF e
      <4> QED BY <1>2, <3>0, <3>1, BehindFacts
    <3>4. /\ y \in Seq(Cells(M)) /\ Len(y) = Len(B) - (j - 1)
          /\ \A i \in 1..(Len(B) - (j - 1)) : y[i] = B[(j - 1) + i]
      BY <3>0, <3>2, BehindFacts
    <3>5. ASSUME NEW i \in 1..Len(x) PROVE x[i] = y[i]
      <4>1. /\ e + i = Len(A) + ((j - 1) + i) /\ (j - 1) + i \in 1..Len(B)
            /\ i \in 1..(Len(v) - e) /\ i \in 1..(Len(B) - (j - 1))
        BY <1>0, <1>2, <2>2, <3>0, <3>3
      <4> HIDE DEF e
      <4>2. B[(j - 1) + i] = v[Len(A) + ((j - 1) + i)]
        BY ONLY <1>2, <4>1, Zenon
      <4>3. x[i] = v[e + i] /\ y[i] = B[(j - 1) + i]
        BY ONLY <3>3, <3>4, <4>1, Zenon
      <4> QED BY ONLY <4>1, <4>2, <4>3, Zenon
    <3>6. x = y
      <4> HIDE DEF e
      <4>1. x \in Seq(Cells(M)) /\ y \in Seq(Cells(M)) /\ Len(x) = Len(y)
        BY <3>0, <3>3, <3>4
      <4> QED BY ONLY <3>5, <4>1, SeqEqual
    <3> QED BY <3>1, <3>2, <3>6
  <2> QED BY <1>1, <2>3, <2>5, <2>6 DEF Packets, Kept
<1> QED BY <1>3, <1>4

\* Two rests that unpack cannot tell apart, or that hold no packet yet.
Near(x, y) == x = y \/ (Len(x) <= 1 /\ Len(y) <= 1)

\* AGVProtocol.unpack on what was read so far (A), wherever the read cut the
\* stream A \o B: the packets it returns now are those it would have returned
\* first for the whole stream, and what it keeps gives it the others, none
\* twice and none missed, whatever bytes there are.
THEOREM CutAnywhere ==
    ASSUME NEW M, NEW A \in Seq(Cells(M)), NEW B \in Seq(Cells(M))
    PROVE  /\ Packets(A \o B) = Packets(A) \o Packets(Kept(A) \o B)
           /\ Near(Kept(A \o B), Kept(Kept(A) \o B))
<1> DEFINE Good(X) == /\ Packets(X \o B) = Packets(X) \o Packets(Kept(X) \o B)
                      /\ Near(Kept(X \o B), Kept(Kept(X) \o B))
           T == {Len(X) : X \in {Y \in Seq(Cells(M)) : ~Good(Y)}}
<1> SUFFICES ASSUME T # {} PROVE FALSE
  OBVIOUS
<1>1. T \subseteq Nat
  OBVIOUS
<1>2. PICK n \in T : \A k \in T : n <= k
  <2> HIDE DEF T
  <2> QED BY <1>1, Least
<1>3. PICK X \in Seq(Cells(M)) : Len(X) = n /\ ~Good(X)
  OBVIOUS
<1>4. ASSUME NEW d \in 1..Len(X) PROVE Good(Behind(X, d)) /\ Behind(X, d) \in Seq(Cells(M))
  <2>1. Behind(X, d) \in Seq(Cells(M)) /\ Len(Behind(X, d)) = Len(X) - d /\ Len(X) - d < n
    <3>1. d \in 0..Len(X) /\ Len(X) - d < n
      BY <1>3
    <3> QED BY <3>1, BehindFacts
  <2>2. Len(Behind(X, d)) \notin T
    <3> HIDE DEF T
    <3>1. n \in Nat
      BY <1>1, <1>2
    <3>2. Len(X) - d \in Int /\ ~(n <= Len(X) - d)
      BY <2>1, <3>1
    <3> QED BY <1>2, <2>1, <3>2
  <2>3. PICK Y : Y = Behind(X, d)
    OBVIOUS
  <2>4. Y \in Seq(Cells(M)) /\ Len(Y) \notin T
    BY <2>1, <2>2, <2>3
  <2>5. Good(Y)
    <3> HIDE DEF Good
    <3>1. ASSUME ~Good(Y) PROVE Len(Y) \in T
      BY <2>4, <3>1
    <3> QED BY <2>4, <3>1
  <2> QED BY ONLY <2>3, <2>4, <2>5, Zenon
<1>5. \A Y \in Seq(Cells(M)) : /\ Packets(Y) \in Seq(M) /\ Kept(Y) \in Seq(Cells(M))
                               /\ Packets(Kept(Y) \o B) \in Seq(M)
  <2>1. ASSUME NEW Y \in Seq(Cells(M))
        PROVE  /\ Packets(Y) \in Seq(M) /\ Kept(Y) \in Seq(Cells(M))
               /\ Packets(Kept(Y) \o B) \in Seq(M)
    <3>1. Packets(Y) \in Seq(M) /\ Kept(Y) \in Seq(Cells(M))
      BY UnpackTypes
    <3>2. Kept(Y) \o B \in Seq(Cells(M))
      BY <3>1, ConcatAt
    <3> QED BY <3>1, <3>2, UnpackTypes
  <2> QED BY <2>1
<1>6. CASE Packets(X) = <<>> /\ Kept(X) = X
  <2>1. PICK p : p = Packets(X \o B) /\ p \in Seq(M)
    BY <1>5, <1>6
  <2>2. <<>> \o p = p
    BY ONLY <2>1, ConcatEmptySeq
  <2>3. Good(X)
    BY <1>6, <2>1, <2>2 DEF Near
  <2> QED BY <1>3, <2>3
<1>7. CASE Len(X) >= 2 /\ \A i \in 1..Len(X) : X[i] # Start
  <2>1. Packets(X) = <<>> /\ Kept(X) = <<>>
    BY <1>7, UnpackNone
  <2>2. <<>> \o B = B
    BY ConcatEmptySeq
  <2>3. Packets(X \o B) = Packets(B) /\ Near(Kept(X \o B), Kept(B))
    BY <1>7, JunkBefore DEF Near
  <2>4. PICK p : p = Packets(B) /\ p \in Seq(M)
    BY UnpackTypes
  <2>5. <<>> \o p = p
    BY ONLY <2>4, ConcatEmptySeq
  <2>6. Good(X)
    BY <2>1, <2>2, <2>3, <2>4, <2>5
  <2> QED BY <1>3, <2>6
<1>8. ASSUME NEW d \in 1..Len(X), Skips(M, X, d) PROVE FALSE
  <2>1. Good(X)
    BY <1>4, <1>8 DEF Skips
  <2> QED BY <1>3, <2>1
<1>9. ASSUME NEW d \in 1..Len(X), NEW m \in M, Finds(M, X, d, m) PROVE FALSE
  <2>1. PICK Y : Y = Behind(X, d)
    OBVIOUS
  <2>2. Y \in Seq(Cells(M)) /\ Good(Y)
    BY <1>4, <2>1
  <2>3. PICK p, q, r : p = Packets(Y \o B) /\ q = Packets(Y) /\ r = Packets(Kept(Y) \o B)
    OBVIOUS
  <2>4. <<m>> \in Seq(M) /\ q \in Seq(M) /\ r \in Seq(M) /\ p = q \o r
    BY <1>5, <2>2, <2>3
  <2>5. (<<m>> \o q) \o r = <<m>> \o (q \o r)
    <3> HIDE DEF Good, T
    <3> QED BY <2>4, ConcatFirst
  <2>6. Packets(X) = <<m>> \o q /\ Kept(X) = Kept(Y) /\ Packets(X \o B) = <<m>> \o p
        /\ Kept(X \o B) = Kept(Y \o B)
    BY <1>9, <2>1, <2>3 DEF Finds
  <2>7. Packets(X \o B) = Packets(X) \o Packets(Kept(X) \o B)
    BY <2>3, <2>4, <2>5, <2>6
  <2>8. Good(X)
    BY <2>2, <2>6, <2>7
  <2> QED BY <1>3, <2>8
<1> HIDE DEF Good, T
<1> QED BY ONLY X \in Seq(Cells(M)), <1>6, <1>7, <1>8, <1>9, UnpackCases, Zenon

-----------------------------------------------------------------------------
(* What is to be found in a stream *)

\* o cells are missing of a packet m that T begins with
Owing(M, T, o, m) ==
    /\ Len(T) >= 2 /\ T[1] = Start
    /\ \E l \in Nat : T[2] = Header(m, l) /\ Len(T) + o = 2 + l

\* W holds the packets S, of the last of which o cells are missing
Found(M, W, S, o) ==
    \/ o = 0 /\ Packets(W) = S /\ Len(Kept(W)) <= 1
    \/ o > 0 /\ \E m \in M : S = Append(Packets(W), m) /\ Owing(M, Kept(W), o, m)

\* what arrives in one piece: a packet, noise without a header, or a header
\* with the claim of l more cells
Piece(M, cells, ms, l) ==
    \/ \E m \in M : cells = Pack(m) /\ ms = <<m>> /\ l = 0
    \/ \E c \in {Junk, Start} : cells = <<c>> /\ ms = <<>> /\ l = 0
    \/ \E m \in M : cells = <<Start, Header(m, l)>> /\ ms = <<m>>

\* A piece begins at most one packet, at its first cell.
LEMMA PieceCells ==
    ASSUME NEW M, NEW cells, NEW ms, NEW l \in Nat, Piece(M, cells, ms, l)
    PROVE  /\ cells \in Seq(Cells(M)) /\ ms \in Seq(M) /\ Len(cells) >= 1
           /\ \A i \in 2..Len(cells) : cells[i] # Start
<1>1. ASSUME NEW m \in M, cells = Pack(m), ms = <<m>>
      PROVE  /\ cells \in Seq(Cells(M)) /\ ms \in Seq(M) /\ Len(cells) >= 1
             /\ \A i \in 2..Len(cells) : cells[i] # Start
  <2>1. Start \in Cells(M) /\ Header(m, 1) \in Cells(M) /\ Body \in Cells(M)
    BY DEF Cells
  <2>2. PICK h : h = Header(m, 1)
    OBVIOUS
  <2>3. cells = <<Start, h, Body>> /\ h # Start /\ Body # Start
    BY <1>1, <2>2, Kinds DEF Pack
  <2> QED BY <1>1, <2>1, <2>2, <2>3
<1>2. ASSUME NEW c \in {Junk, Start}, cells = <<c>>, ms = <<>>
      PROVE  /\ cells \in Seq(Cells(M)) /\ ms \in Seq(M) /\ Len(cells) >= 1
             /\ \A i \in 2..Len(cells) : cells[i] # Start
  <2>1. c \in Cells(M)
    BY DEF Cells
  <2> QED BY <1>2, <2>1
<1>3. ASSUME NEW m \in M, cells = <<Start, Header(m, l)>>, ms = <<m>>
      PROVE  /\ cells \in Seq(Cells(M)) /\ ms \in Seq(M) /\ Len(cells) >= 1
             /\ \A i \in 2..Len(cells) : cells[i] # Start
  <2>1. Start \in Cells(M) /\ Header(m, l) \in Cells(M)
    BY DEF Cells
  <2>2. PICK h : h = Header(m, l)
    OBVIOUS
  <2>3. cells = <<Start, h>> /\ h # Start
    BY <1>3, <2>2, Kinds
  <2> QED BY <1>3, <2>1, <2>2, <2>3
<1> QED BY <1>1, <1>2, <1>3 DEF Piece

\* One cell that is left over costs no packet that begins behind it.
LEMMA TailBefore ==
    ASSUME NEW M, NEW T \in Seq(Cells(M)), Len(T) <= 1,
           NEW A \in Seq(Cells(M)), Len(A) >= 1, A[1] = Start
    PROVE  Unpack(T \o A) = Unpack(A)
<1>0. Len(T) \in Nat /\ Len(A) \in Nat
  OBVIOUS
<1>1. CASE Len(T) = 0
  <2>1. T = <<>>
    BY <1>1
  <2> QED BY <2>1, ConcatEmptySeq
<1>2. CASE Len(T) = 1
  <2>1. PICK v : v = T \o A
    OBVIOUS
  <2>2. /\ v \in Seq(Cells(M)) /\ Len(v) = 1 + Len(A) /\ v[1] = T[1]
        /\ \A i \in 1..Len(A) : v[1 + i] = A[i]
    <3>1. /\ v \in Seq(Cells(M)) /\ Len(v) = Len(T) + Len(A)
          /\ \A i \in 1..Len(T) : v[i] = T[i]
          /\ \A i \in 1..Len(A) : v[Len(T) + i] = A[i]
      BY <2>1, ConcatAt
    <3> QED BY <1>2, <3>1
  <2>3. v[1 + 1] = Start /\ v[2] = Start /\ 1 + 1 \in 1..Len(v)
    <3>1. 1 \in 1..Len(A)
      BY <1>0
    <3> QED BY <1>0, <2>2, <3>1
  <2>4. Unpack(v) = Unpack(Behind(v, 1))
    <3>1. CASE v[1] = Start
      <4>1. v[2].kind # "header"
        BY <2>3, Kinds
      <4> QED BY <1>0, <2>2, <3>1, <4>1, UnpackStray
    <3>2. CASE v[1] # Start
      <4>1. \A i \in 1..1 : v[i] # Start
        BY <3>2
      <4> QED BY <2>2, <2>3, <4>1, UnpackSkips
    <3> QED BY <3>1, <3>2
  <2>5. Behind(v, 1) = Behind(T, 1) \o A
    <3>1. 1 \in 0..Len(T)
      BY <1>2
    <3> QED BY <2>1, <3>1, BehindConcat
  <2>6. Behind(T, 1) = <<>>
    BY <1>2, SubSeqEmpty DEF Behind
  <2> QED BY <2>1, <2>4, <2>5, <2>6, ConcatEmptySeq
<1>3. Len(T) = 0 \/ Len(T) = 1
  <2>1. PICK n : n = Len(T)
    OBVIOUS
  <2>2. n \in Nat /\ n <= 1
    BY <1>0, <2>1
  <2>3. n = 0 \/ n = 1
    BY ONLY <2>2
  <2> QED BY <2>1, <2>3
<1> QED BY ONLY <1>1, <1>2, <1>3, Zenon

\* Nothing is left behind all cells.
LEMMA BehindAll ==
    ASSUME NEW M, NEW A \in Seq(Cells(M))
    PROVE  Packets(Behind(A, Len(A))) = <<>> /\ Kept(Behind(A, Len(A))) = <<>>
<1>1. Behind(A, Len(A)) = <<>>
  BY SubSeqEmpty DEF Behind
<1>2. <<>> \in Seq(Cells(M)) /\ Len(<<>>) < 2
  OBVIOUS
<1> QED BY <1>1, <1>2, UnpackShort

\* What arrives behind whole packets is found, or begins a packet.
LEMMA FoundNext ==
    ASSUME NEW M, NEW T \in Seq(Cells(M)), Len(T) <= 1,
           NEW cells, NEW ms, NEW l \in Nat, Piece(M, cells, ms, l)
    PROVE  \/ l = 0 /\ Packets(T \o cells) = ms /\ Len(Kept(T \o cells)) <= 1
           \/ /\ l > 0
              /\ \E m \in M : /\ ms = <<m>> /\ Packets(T \o cells) = <<>>
                              /\ Owing(M, Kept(T \o cells), l, m)
<1>0. cells \in Seq(Cells(M)) /\ Len(cells) >= 1 /\ Len(cells) \in Nat /\ Len(T) \in Nat
  BY PieceCells
<1>1. ASSUME NEW m \in M, cells = Pack(m), ms = <<m>>, l = 0
      PROVE  Packets(T \o cells) = ms /\ Len(Kept(T \o cells)) <= 1
  <2>1. PICK h : h = Header(m, 1)
    OBVIOUS
  <2>2. cells = <<Start, h, Body>>
    BY <1>1, <2>1 DEF Pack
  <2>3. Len(cells) = 3 /\ cells[1] = Start /\ cells[2] = Header(m, 1)
    BY <2>1, <2>2
  <2>4. Unpack(T \o cells) = Unpack(cells)
    BY <1>0, <2>3, TailBefore
  <2>5. /\ Packets(cells) = <<m>> \o Packets(Behind(cells, 2 + 1))
        /\ Kept(cells) = Kept(Behind(cells, 2 + 1))
    <3>1. 1 \in Nat /\ 2 + 1 <= Len(cells) /\ Len(cells) >= 2
      BY <2>3
    <3> QED BY <1>0, <2>3, <3>1, UnpackWhole
  <2>6. Packets(Behind(cells, 2 + 1)) = <<>> /\ Kept(Behind(cells, 2 + 1)) = <<>>
    <3>1. 2 + 1 = Len(cells)
      BY <2>3
    <3> QED BY <1>0, <3>1, BehindAll
  <2>7. <<m>> \o <<>> = <<m>>
    OBVIOUS
  <2>8. Packets(T \o cells) = <<m>> /\ Kept(T \o cells) = <<>>
    BY <2>4, <2>5, <2>6, <2>7, Zenon DEF Packets, Kept
  <2>9. Len(<<>>) <= 1
    OBVIOUS
  <2> QED BY ONLY <1>1, <2>8, <2>9, Zenon
<1>2. ASSUME cells = <<Start>>, ms = <<>>, l = 0
      PROVE  Packets(T \o cells) = ms /\ Len(Kept(T \o cells)) <= 1
  <2>1. Len(cells) = 1 /\ cells[1] = Start
    BY <1>2
  <2>2. Unpack(T \o cells) = Unpack(cells)
    BY <1>0, <2>1, TailBefore
  <2>3. Len(cells) < 2 /\ Len(cells) <= 1
    BY <2>1
  <2>4. Packets(cells) = <<>> /\ Kept(cells) = cells
    BY ONLY <1>0, <2>3, UnpackShort, Zenon
  <2>5. Packets(T \o cells) = <<>> /\ Kept(T \o cells) = cells
    BY <2>2, <2>4, Zenon DEF Packets, Kept
  <2> QED BY ONLY <1>2, <2>3, <2>5, Zenon
<1>3. ASSUME cells = <<Junk>>, ms = <<>>, l = 0
      PROVE  Packets(T \o cells) = ms /\ Len(Kept(T \o cells)) <= 1
  <2>1. Len(cells) = 1 /\ cells[1] = Junk /\ Junk # Start
    BY <1>3, Kinds
  <2>2. PICK v : v = T \o cells
    OBVIOUS
  <2>3. /\ v \in Seq(Cells(M)) /\ Len(v) = Len(T) + 1
        /\ \A i \in 1..Len(T) : v[i] = T[i]
        /\ v[Len(T) + 1] = Junk
    <3>1. /\ v \in Seq(Cells(M)) /\ Len(v) = Len(T) + Len(cells)
          /\ \A i \in 1..Len(T) : v[i] = T[i]
          /\ \A i \in 1..Len(cells) : v[Len(T) + i] = cells[i]
      BY <1>0, <2>2, ConcatAt
    <3> QED BY <2>1, <3>1
  <2>4. CASE Len(T) = 1 /\ T[1] = Start
    <3>1. Len(v) = 2 /\ v[1] = Start /\ v[2] = Junk
      BY <2>3, <2>4
    <3>2. Unpack(v) = Unpack(Behind(v, 1))
      <4>1. v[2].kind # "header" /\ Len(v) >= 2 /\ v[1] = Start /\ v \in Seq(Cells(M))
        BY <2>3, <3>1, Kinds
      <4> QED BY ONLY <4>1, UnpackStray, Zenon
    <3>3. PICK x : x = Behind(v, 1)
      OBVIOUS
    <3>4. x \in Seq(Cells(M)) /\ Len(x) = 1 /\ Len(x) < 2 /\ Len(x) <= 1
      <4>1. 1 \in 0..Len(v) /\ v \in Seq(Cells(M))
        BY <2>3, <3>1
      <4>2. Behind(v, 1) \in Seq(Cells(M)) /\ Len(Behind(v, 1)) = Len(v) - 1
        BY ONLY <4>1, BehindFacts, Zenon
      <4>3. x \in Seq(Cells(M)) /\ Len(x) = Len(v) - 1
        BY ONLY <3>3, <4>2, Zenon
      <4> QED BY ONLY <3>1, <4>3
    <3>5. Packets(x) = <<>> /\ Kept(x) = x
      BY ONLY <3>4, UnpackShort, Zenon
    <3>6. Packets(v) = <<>> /\ Kept(v) = x
      BY <3>2, <3>3, <3>5, Zenon DEF Packets, Kept
    <3> QED BY <1>3, <2>2, <3>4, <3>6, Zenon
  <2>5. CASE ~(Len(T) = 1 /\ T[1] = Start)
    <3>1. ASSUME NEW i \in 1..Len(v) PROVE v[i] # Start
      BY <1>0, <2>1, <2>3, <2>5
    <3>2. Packets(v) = <<>> /\ Len(Kept(v)) <= 1
      BY <2>3, <3>1, UnpackNone
    <3> QED BY <1>3, <2>2, <3>2
  <2> QED BY <2>4, <2>5
<1>4. ASSUME NEW m \in M, cells = <<Start, Header(m, l)>>, ms = <<m>>
      PROVE  \/ l = 0 /\ Packets(T \o cells) = ms /\ Len(Kept(T \o cells)) <= 1
             \/ l > 0 /\ Packets(T \o cells) = <<>> /\ Owing(M, Kept(T \o cells), l, m)
  <2>1. PICK h : h = Header(m, l)
    OBVIOUS
  <2>2. cells = <<Start, h>>
    BY <1>4, <2>1
  <2>3. Len(cells) = 2 /\ cells[1] = Start /\ cells[2] = Header(m, l)
    BY <2>1, <2>2
  <2>4. Unpack(T \o cells) = Unpack(cells)
    BY <1>0, <2>3, TailBefore
  <2>5. CASE l = 0
    <3>1. /\ Packets(cells) = <<m>> \o Packets(Behind(cells, 2 + l))
          /\ Kept(cells) = Kept(Behind(cells, 2 + l))
      <4>1. 2 + l <= Len(cells) /\ Len(cells) >= 2
        BY <2>3, <2>5
      <4> QED BY <1>0, <2>3, <4>1, UnpackWhole
    <3>2. Packets(Behind(cells, 2 + l)) = <<>> /\ Kept(Behind(cells, 2 + l)) = <<>>
      <4>1. 2 + l = Len(cells)
        BY <2>3, <2>5
      <4> QED BY <1>0, <4>1, BehindAll
    <3>3. <<m>> \o <<>> = <<m>>
      OBVIOUS
    <3>4. Packets(T \o cells) = <<m>> /\ Kept(T \o cells) = <<>>
      BY <2>4, <3>1, <3>2, <3>3, Zenon DEF Packets, Kept
    <3>5. Len(<<>>) <= 1
      OBVIOUS
    <3> QED BY ONLY <1>4, <2>5, <3>4, <3>5, Zenon
  <2>6. CASE l > 0
    <3>1. Packets(cells) = <<>> /\ Kept(cells) = cells
      <4>1. 2 + l > Len(cells) /\ Len(cells) >= 2
        BY <2>3, <2>6
      <4> QED BY <1>0, <2>3, <4>1, UnpackPart
    <3>2. Owing(M, cells, l, m)
      BY <2>3 DEF Owing
    <3> QED BY <2>4, <2>6, <3>1, <3>2 DEF Packets, Kept
  <2> QED BY <2>5, <2>6
<1> QED BY <1>1, <1>2, <1>3, <1>4 DEF Piece

\* What arrives behind an incomplete packet belongs to it, wholly or in part,
\* and what is left begins no packet.
LEMMA OwingNext ==
    ASSUME NEW M, NEW T \in Seq(Cells(M)), NEW o \in Nat \ {0}, NEW m \in M, Owing(M, T, o, m),
           NEW cells \in Seq(Cells(M)), \A i \in 2..Len(cells) : cells[i] # Start
    PROVE  \/ /\ o > Len(cells) /\ Packets(T \o cells) = <<>>
              /\ Owing(M, Kept(T \o cells), o - Len(cells), m)
           \/ /\ o <= Len(cells) /\ Packets(T \o cells) = <<m>> /\ Len(Kept(T \o cells)) <= 1
<1>0. Len(T) \in Nat /\ Len(cells) \in Nat
  OBVIOUS
<1>1. PICK l \in Nat : T[2] = Header(m, l) /\ Len(T) + o = 2 + l
  BY DEF Owing
<1>2. PICK v : v = T \o cells
  OBVIOUS
<1>3. /\ v \in Seq(Cells(M)) /\ Len(v) = Len(T) + Len(cells)
      /\ \A i \in 1..Len(T) : v[i] = T[i]
      /\ \A i \in 1..Len(cells) : v[Len(T) + i] = cells[i]
  BY <1>2, ConcatAt
<1>4. Len(v) >= 2 /\ v[1] = Start /\ v[2] = Header(m, l)
  BY <1>0, <1>1, <1>3 DEF Owing
<1>5. CASE o > Len(cells)
  <2>1. Packets(v) = <<>> /\ Kept(v) = v
    <3>1. 2 + l > Len(v)
      BY <1>0, <1>1, <1>3, <1>5
    <3> QED BY ONLY l \in Nat, <1>3, <1>4, <3>1, UnpackPart, Zenon
  <2>2. Owing(M, v, o - Len(cells), m)
    <3>1. Len(v) + (o - Len(cells)) = 2 + l
      <4>1. PICK n, k, q : n = Len(T) /\ k = Len(cells) /\ q = Len(v)
        OBVIOUS
      <4>2. n \in Nat /\ k \in Nat /\ q = n + k /\ n + o = 2 + l
        BY <1>0, <1>1, <1>3, <4>1
      <4>3. q + (o - k) = 2 + l
        BY ONLY l \in Nat, o \in Nat \ {0}, <4>2
      <4> QED BY <4>1, <4>3
    <3> QED BY ONLY l \in Nat, <1>4, <3>1, Zenon DEF Owing
  <2> QED BY <1>2, <1>5, <2>1, <2>2
<1>6. CASE o <= Len(cells)
  <2> DEFINE d == 2 + l
  <2>0. d \in 0..Len(v) /\ d = Len(T) + o /\ d \in Nat
    BY <1>0, <1>1, <1>3, <1>6
  <2> HIDE DEF d
  <2>1. PICK x : x = Behind(v, d)
    OBVIOUS
  <2>2. x \in Seq(Cells(M)) /\ Len(x) = Len(v) - d /\ \A i \in 1..(Len(v) - d) : x[i] = v[d + i]
    <3>1. /\ Behind(v, d) \in Seq(Cells(M)) /\ Len(Behind(v, d)) = Len(v) - d
          /\ \A i \in 1..(Len(v) - d) : Behind(v, d)[i] = v[d + i]
      <4>1. v \in Seq(Cells(M)) /\ d \in 0..Len(v)
        BY <1>3, <2>0
      <4> QED BY ONLY <4>1, BehindFacts
    <3> QED BY ONLY <2>1, <3>1, Zenon
  <2>3. ASSUME NEW i \in 1..Len(x) PROVE x[i] # Start
    <3>1. i \in 1..(Len(v) - d) /\ o + i \in 1..Len(cells) /\ o + i \in 2..Len(cells)
          /\ d + i = Len(T) + (o + i)
      <4>1. PICK n, c, q, z : n = Len(T) /\ c = Len(cells) /\ q = Len(v) /\ z = Len(x)
        OBVIOUS
      <4>2. /\ n \in Nat /\ c \in Nat /\ q = n + c /\ o <= c /\ d = n + o /\ z = q - d
            /\ i \in 1..z
        BY <1>0, <1>3, <1>6, <2>0, <2>2, <4>1
      <4>3. i \in 1..(q - d) /\ o + i \in 1..c /\ o + i \in 2..c /\ d + i = n + (o + i)
        BY ONLY o \in Nat \ {0}, <4>2
      <4> QED BY ONLY <4>1, <4>3
    <3>2. PICK j : j = o + i
      OBVIOUS
    <3>3. x[i] = v[d + i]
      BY ONLY <2>2, <3>1, Zenon
    <3>4. v[Len(T) + j] = cells[j]
      BY ONLY <1>3, <3>1, <3>2, Zenon
    <3>5. cells[j] # Start
      BY <3>1, <3>2
    <3> QED BY ONLY <3>1, <3>2, <3>3, <3>4, <3>5, Zenon
  <2>4. Packets(x) = <<>> /\ Len(Kept(x)) <= 1
    BY <2>2, <2>3, UnpackNone
  <2>5. Packets(v) = <<m>> \o Packets(x) /\ Kept(v) = Kept(x)
    <3>1. 2 + l <= Len(v)
      BY <2>0 DEF d
    <3>2. Packets(v) = <<m>> \o Packets(Behind(v, 2 + l)) /\ Kept(v) = Kept(Behind(v, 2 + l))
      BY ONLY l \in Nat, <1>3, <1>4, <3>1, UnpackWhole, Zenon
    <3> QED BY <2>1, <3>2, Zenon DEF d
  <2>6. <<m>> \o <<>> = <<m>>
    OBVIOUS
  <2> QED BY <1>2, <1>6, <2>4, <2>5, <2>6
<1> QED BY <1>0, <1>5, <1>6

\* What arrives is found behind what was there.
LEMMA FoundMore ==
    ASSUME NEW M, NEW W \in Seq(Cells(M)), NEW S, NEW o \in Nat, Found(M, W, S, o),
           NEW cells, NEW ms, NEW l \in Nat, Piece(M, cells, ms, l)
    PROVE  /\ o = 0 => Found(M, W \o cells, S \o ms, l)
           /\ o # 0 => Found(M, W \o cells, S, Max({0, o - Len(cells)}))
<1>0. cells \in Seq(Cells(M)) /\ ms \in Seq(M) /\ \A i \in 2..Len(cells) : cells[i] # Start
  BY PieceCells
<1>1. PICK P, T, v : P = Packets(W) /\ T = Kept(W) /\ v = W \o cells
  OBVIOUS
<1>2. P \in Seq(M) /\ T \in Seq(Cells(M))
  BY <1>1, UnpackTypes
<1>3. PICK q : q = Packets(T \o cells)
  OBVIOUS
<1>4. PICK K : K = Kept(T \o cells)
  OBVIOUS
<1>5. Packets(v) = P \o q /\ Near(Kept(v), K)
  BY <1>0, <1>1, <1>3, <1>4, CutAnywhere
<1>6. P \o <<>> = P
  BY ONLY <1>2, ConcatEmptySeq
<1>7. ASSUME NEW x, Len(K) >= 2 PROVE Kept(v) = K
  <2>1. Len(K) <= 1 => FALSE
    <3>1. CASE Len(K) <= 1
      BY ONLY <1>7, <3>1
    <3> QED BY <3>1
  <2> QED BY <1>5, <2>1 DEF Near
<1>8. CASE o = 0
  <2>1. S = P /\ Len(T) <= 1
    BY <1>1, <1>8 DEF Found
  <2>2. CASE l = 0 /\ q = ms /\ Len(K) <= 1
    <3>1. Len(Kept(v)) <= 1
      BY <1>5, <2>2, Zenon DEF Near
    <3> QED BY <1>1, <1>5, <1>8, <2>1, <2>2, <3>1, Zenon DEF Found
  <2>3. ASSUME l > 0, NEW m \in M, ms = <<m>>, q = <<>>, Owing(M, K, l, m)
        PROVE  Found(M, W \o cells, S \o ms, l)
    <3>1. Kept(v) = K
      BY <1>7, <2>3 DEF Owing
    <3>2. Append(P, m) = P \o <<m>>
      BY ONLY <1>2, m \in M, AppendIsConcat
    <3>3. S \o ms = Append(Packets(v), m)
      BY <1>5, <1>6, <2>1, <2>3, <3>2, Zenon
    <3> QED BY <1>1, <2>3, <3>1, <3>3, Zenon DEF Found
  <2>4. \/ l = 0 /\ q = ms /\ Len(K) <= 1
        \/ l > 0 /\ \E m \in M : ms = <<m>> /\ q = <<>> /\ Owing(M, K, l, m)
    BY <1>2, <1>3, <1>4, <2>1, FoundNext
  <2>5. Found(M, W \o cells, S \o ms, l)
    <3>1. CASE l = 0 /\ q = ms /\ Len(K) <= 1
      <4>1. Len(Kept(v)) <= 1
        BY <1>5, <3>1, Zenon DEF Near
      <4> QED BY <1>1, <1>5, <2>1, <3>1, <4>1, Zenon DEF Found
    <3> QED BY <2>3, <2>4, <3>1, Zenon
  <2> QED BY <1>8, <2>5
<1>9. CASE o # 0
  <2>1. PICK m \in M : S = Append(P, m) /\ Owing(M, T, o, m)
    BY <1>1, <1>9, Zenon DEF Found
  <2> DEFINE left == Max({0, o - Len(cells)})
  <2>2. \/ o > Len(cells) /\ q = <<>> /\ Owing(M, K, o - Len(cells), m)
        \/ o <= Len(cells) /\ q = <<m>> /\ Len(K) <= 1
    <3>1. o \in Nat \ {0}
      BY <1>9
    <3> QED BY <1>0, <1>2, <1>3, <1>4, <2>1, <3>1, OwingNext
  <2>3. PICK n : n = Len(cells) /\ n \in Nat
    BY <1>0
  <2>4. left = IF o > n THEN o - n ELSE 0
    <3> DEFINE two == {0, o - n}
               big == IF o > n THEN o - n ELSE 0
    <3>1. big \in two /\ \A y \in two : big >= y
      BY <2>3
    <3>2. Max(two) \in two /\ \A y \in two : Max(two) >= y
      BY <3>1 DEF Max
    <3>3. Max(two) >= big /\ big >= Max(two) /\ Max(two) \in Int /\ big \in Int
      BY <2>3, <3>1, <3>2
    <3> HIDE DEF two, big
    <3>4. Max(two) = big
      BY ONLY <3>3
    <3> QED BY <2>3, <3>4 DEF two, big
  <2> HIDE DEF left
  <2>5. CASE o > n /\ q = <<>> /\ Owing(M, K, o - n, m)
    <3>1. Kept(v) = K
      BY <1>7, <2>5 DEF Owing
    <3>2. left = o - n /\ left > 0
      BY <2>3, <2>4, <2>5
    <3>3. S = Append(Packets(v), m)
      BY <1>5, <1>6, <2>1, <2>5, Zenon
    <3>4. Owing(M, Kept(v), left, m)
      BY <2>5, <3>1, <3>2, Zenon
    <3>5. Found(M, v, S, left)
      BY <3>2, <3>3, <3>4, Zenon DEF Found
    <3> QED BY <1>1, <1>9, <3>5 DEF left
  <2>6. CASE o <= n /\ q = <<m>> /\ Len(K) <= 1
    <3>1. Len(Kept(v)) <= 1
      BY <1>5, <2>6, Zenon DEF Near
    <3>2. left = 0
      BY <2>3, <2>4, <2>6
    <3>3. S = Packets(v)
      <4>1. Append(P, m) = P \o <<m>>
        BY ONLY <1>2, m \in M, AppendIsConcat
      <4> QED BY <1>5, <2>1, <2>6, <4>1, Zenon
    <3>4. Found(M, v, S, left)
      BY <3>1, <3>2, <3>3, Zenon DEF Found
    <3> QED BY <1>1, <1>9, <3>4 DEF left
  <2> QED BY <2>2, <2>3, <2>5, <2>6, Zenon
<1> QED BY <1>8, <1>9

\* What follows a sequence is what is left behind it.
LEMMA BehindFirst ==
    ASSUME NEW M, NEW ps \in Seq(M), NEW R \in Seq(M)
    PROVE  SubSeq(ps \o R, Len(ps) + 1, Len(ps \o R)) = R
<1>1. Len(ps) \in 0..Len(ps)
  OBVIOUS
<1>2. Behind(ps \o R, Len(ps)) = Behind(ps, Len(ps)) \o R
  BY <1>1, BehindConcat
<1>3. Behind(ps, Len(ps)) = <<>>
  BY SubSeqEmpty DEF Behind
<1>4. <<>> \o R = R
  BY ConcatEmptySeq
<1> QED BY <1>2, <1>3, <1>4 DEF Behind

\* However much was read, what is found now comes first, and the rest is found
\* in what is kept and what follows.
LEMMA FoundRead ==
    ASSUME NEW M, NEW A \in Seq(Cells(M)), NEW B \in Seq(Cells(M)), NEW S, NEW o \in Nat,
           Found(M, A \o B, S, o)
    PROVE  /\ Packets(A) \in Seq(M) /\ Len(Packets(A)) <= Len(S)
           /\ \A i \in 1..Len(Packets(A)) : Packets(A)[i] = S[i]
           /\ Found(M, Kept(A) \o B, SubSeq(S, Len(Packets(A)) + 1, Len(S)), o)
<1>1. PICK ps, T, v, R :
          ps = Packets(A) /\ T = Kept(A) \o B /\ v = A \o B /\ R = Packets(Kept(A) \o B)
  OBVIOUS
<1>2. ps \in Seq(M) /\ Kept(A) \in Seq(Cells(M))
  BY <1>1, UnpackTypes
<1>3. T \in Seq(Cells(M))
  BY <1>1, <1>2, ConcatAt
<1>4. R \in Seq(M)
  BY <1>1, <1>3, UnpackTypes
<1>5. Packets(v) = ps \o R /\ Near(Kept(v), Kept(T))
  BY <1>1, CutAnywhere
<1>6. ASSUME NEW X \in Seq(M), S = ps \o X
      PROVE  /\ Len(ps) <= Len(S) /\ \A i \in 1..Len(ps) : ps[i] = S[i]
             /\ SubSeq(S, Len(ps) + 1, Len(S)) = X
  <2>1. Len(S) = Len(ps) + Len(X) /\ \A i \in 1..Len(ps) : S[i] = ps[i]
    BY <1>2, <1>6, ConcatAt
  <2>2. SubSeq(S, Len(ps) + 1, Len(S)) = X
    BY <1>2, <1>6, BehindFirst
  <2>3. Len(ps) <= Len(S)
    <3>1. Len(ps) \in Nat /\ Len(X) \in Nat
      BY <1>2
    <3> QED BY <2>1, <3>1
  <2> QED BY <2>1, <2>2, <2>3
<1>7. CASE o = 0 /\ Packets(v) = S /\ Len(Kept(v)) <= 1
  <2>1. S = ps \o R
    BY <1>5, <1>7
  <2>2. Len(Kept(T)) <= 1
    BY <1>5, <1>7, Zenon DEF Near
  <2>3. Found(M, T, R, o)
    BY <1>1, <1>7, <2>2, Zenon DEF Found
  <2> QED BY <1>1, <1>2, <1>4, <1>6, <2>1, <2>3, Zenon
<1>8. ASSUME o > 0, NEW m \in M, S = Append(Packets(v), m), Owing(M, Kept(v), o, m)
      PROVE  /\ Packets(A) \in Seq(M) /\ Len(Packets(A)) <= Len(S)
             /\ \A i \in 1..Len(Packets(A)) : Packets(A)[i] = S[i]
             /\ Found(M, Kept(A) \o B, SubSeq(S, Len(Packets(A)) + 1, Len(S)), o)
  <2>1. S = ps \o Append(R, m) /\ Append(R, m) \in Seq(M)
    <3>0. Packets(v) \in Seq(M)
      BY <1>2, <1>4, <1>5, ConcatAt
    <3>1. PICK t : t = <<m>>
      OBVIOUS
    <3>2. t \in Seq(M)
      BY <3>1
    <3>3. (ps \o R) \o t = ps \o (R \o t)
      BY ONLY <1>2, <1>4, <3>2, ConcatAssociative
    <3>4. Append(Packets(v), m) = Packets(v) \o <<m>>
      BY ONLY <3>0, m \in M, AppendIsConcat
    <3>5. Append(R, m) = R \o <<m>>
      BY ONLY <1>4, m \in M, AppendIsConcat
    <3>6. Append(R, m) \in Seq(M)
      BY ONLY <1>4, m \in M, AppendProperties
    <3> QED BY ONLY <1>5, <1>8, <3>1, <3>3, <3>4, <3>5, <3>6, Zenon
  <2>2. Kept(v) = Kept(T)
    <3>1. ~(Len(Kept(v)) <= 1)
      <4>0. v \in Seq(Cells(M))
        BY <1>1, ConcatAt
      <4>1. PICK n : n = Len(Kept(v)) /\ n \in Nat
        <5>1. Kept(v) \in Seq(Cells(M))
          BY <4>0, UnpackTypes
        <5>2. PICK K : K = Kept(v)
          OBVIOUS
        <5>3. Len(K) \in Nat
          BY ONLY <5>1, <5>2
        <5> QED BY ONLY <5>2, <5>3
      <4>2. n >= 2
        BY <1>8, <4>1 DEF Owing
      <4>3. ~(n <= 1)
        BY ONLY <4>1, <4>2
      <4> QED BY <4>1, <4>3
    <3> QED BY <1>5, <3>1, Zenon DEF Near
  <2>3. Found(M, T, Append(R, m), o)
    BY <1>1, <1>8, <2>2, Zenon DEF Found
  <2> QED BY <1>1, <1>2, <1>6, <2>1, <2>3, Zenon
<1> QED BY <1>1, <1>7, <1>8, Zenon DEF Found

\* What is found at once is all but the packet that is incomplete.
LEMMA FoundNow ==
    ASSUME NEW M, NEW W \in Seq(Cells(M)), NEW S, NEW o, Found(M, W, S, o)
    PROVE  Packets(W) = IF o = 0 THEN S ELSE Front(S)
<1>1. PICK P : P = Packets(W) /\ P \in Seq(M)
  BY UnpackTypes
<1>2. ASSUME o > 0, NEW m \in M, S = Append(P, m) PROVE o # 0 /\ Front(S) = P
  <2>1. /\ S \in Seq(M) /\ Len(S) = Len(P) + 1 /\ Len(P) \in Nat
        /\ \A i \in 1..Len(P) : S[i] = P[i]
    BY <1>1, <1>2, AppendProperties
  <2>2. PICK f : f = SubSeq(S, 1, Len(P))
    OBVIOUS
  <2>3. /\ f \in Seq(M) /\ Len(f) = Len(P)
        /\ \A i \in 1..Len(P) : f[i] = S[i]
    <3>1. \A i \in 1..Len(P) : S[i] \in M
      BY <2>1
    <3>2. PICK n : n = Len(P) /\ n \in Nat
      BY <2>1
    <3>3. \A i \in 1..n : S[i] \in M
      BY <3>1, <3>2
    <3>4. /\ SubSeq(S, 1, n) \in Seq(M)
          /\ Len(SubSeq(S, 1, n)) = IF 1 <= n THEN n - 1 + 1 ELSE 0
          /\ \A i \in 1..(n - 1 + 1) : SubSeq(S, 1, n)[i] = S[1 + i - 1]
      BY ONLY <3>2, <3>3, SubSeqProperties
    <3>5. n - 1 + 1 = n /\ \A i \in 1..n : 1 + i - 1 = i
      BY ONLY <3>2
    <3>6. /\ f \in Seq(M) /\ Len(f) = IF 1 <= n THEN n ELSE 0
          /\ \A i \in 1..n : f[i] = S[i]
      BY ONLY <2>2, <3>2, <3>4, <3>5
    <3>7. Len(f) = n
      BY ONLY <3>2, <3>6
    <3> QED BY ONLY <3>2, <3>6, <3>7
  <2>4. f = P
    BY <1>1, <2>1, <2>3, SeqEqual
  <2>5. Front(S) = f
    BY <2>1, <2>2 DEF Front
  <2>6. o # 0
    BY <1>2
  <2> QED BY <2>4, <2>5, <2>6
<1> QED BY <1>1, <1>2, Zenon DEF Found

-----------------------------------------------------------------------------
(* Connections *)

Types ==
    /\ opened \in 0..MaxConns
    /\ writer \in 0..opened
    /\ loop \in {0, writer}
    /\ link \in [Conns -> {"up", "eof", "reset", "closed"}]
    /\ lock \in Requests \cup {Nobody}
    /\ pc \in [Requests -> {"idle", "again", "connect", "opening"} \cup Waiting]
    /\ wrote \in [Requests -> [Conns -> Nat]]

\* who opens a connection holds the lock, and there is no other connection
OpenerAlone ==
    /\ \A r \in Requests : pc[r] = "opening" <=> lock = r
    /\ lock # Nobody => writer = 0

\* a connection that is not closed is in use
OthersClosed == \A k \in Conns : link[k] # "closed" => k = writer

\* a request that may be written (again) was written to closed connections only
WrittenToClosed ==
    \A r \in Requests, k \in Conns : wrote[r][k] # 0 =>
        /\ wrote[r][k] = 1
        /\ k <= opened
        /\ pc[r] \in {"drain", "wait"} \/ link[k] = "closed"

CInv == Types /\ OpenerAlone /\ OthersClosed /\ WrittenToClosed

-----------------------------------------------------------------------------
LEMMA Bounds == MaxConns \in Nat /\ Nobody \notin Requests
BY ClientAssumption

LEMMA ClientInitial == Init => CInv
BY Bounds
   DEF Init, CInv, Types, OpenerAlone, OthersClosed, WrittenToClosed, Conns, Unwritten,
       Waiting

Labels == {"idle", "again", "connect"} \cup Waiting

\* What a step may do to the connections other than opening one: close some, and
\* take the one in use out of use.
Fades ==
    /\ opened' = opened
    /\ writer' \in {0, writer}
    /\ loop' \in {0, writer'}
    /\ link' \in [Conns -> {"up", "eof", "reset", "closed"}]
    /\ \A k \in Conns : link'[k] # "closed" => link[k] # "closed" /\ k = writer'

\* A connection in use can be changed or closed.
LEMMA LinkFades ==
    ASSUME CInv, NEW v \in {"eof", "reset", "closed"}, writer # 0,
           v = "closed" \/ link[writer] # "closed",
           link' = [link EXCEPT ![writer] = v], UNCHANGED <<writer, opened>>,
           loop' \in {0, writer}
    PROVE  Fades
<1>1. link' \in [Conns -> {"up", "eof", "reset", "closed"}]
  BY DEF CInv, Types
<1>2. \A k \in Conns : k # writer => link'[k] = link[k]
  BY DEF CInv, Types
<1>3. writer \in Conns /\ link'[writer] = v
  BY Bounds DEF CInv, Types, Conns
<1> QED BY <1>1, <1>2, <1>3 DEF CInv, Types, OthersClosed, Fades

\* After _close_silent nothing is open.
LEMMA ClosingFades ==
    ASSUME CInv, writer' = 0, loop' = 0, UNCHANGED opened,
           IF writer = 0 THEN link' = link ELSE link' = [link EXCEPT ![writer] = "closed"]
    PROVE  Fades
<1>1. link' \in [Conns -> {"up", "eof", "reset", "closed"}]
  BY DEF CInv, Types
<1>2. \A k \in Conns : k # writer => link'[k] = "closed"
  BY DEF CInv, Types, OthersClosed
<1>3. \A k \in Conns : k = writer => link'[k] = "closed"
  BY Bounds DEF CInv, Types, Conns
<1> QED BY <1>1, <1>2, <1>3 DEF CInv, Types, Fades

LEMMA SameFades == CInv /\ UNCHANGED <<writer, loop, opened, link>> => Fades
BY DEF CInv, Types, OthersClosed, Fades

\* Connections may fade at any time.
LEMMA FadingKeeps ==
    ASSUME CInv, Fades, UNCHANGED <<lock, pc, wrote>>
    PROVE  CInv'
<1>1. Types'
  <2>1. opened' \in 0..MaxConns /\ writer' \in 0..opened'
    BY Bounds DEF CInv, Types, Fades
  <2> QED
    BY <2>1 DEF CInv, Types, Fades
<1>2. OpenerAlone' /\ OthersClosed'
  BY DEF CInv, OpenerAlone, OthersClosed, Fades
<1>3. WrittenToClosed'
  BY DEF CInv, WrittenToClosed, Fades
<1> QED BY <1>1, <1>2, <1>3 DEF CInv

\* So may they when a request moves on without writing, if what it wrote is
\* waited for, or forgotten, or was written to connections that are closed now.
LEMMA MovingKeeps ==
    ASSUME CInv, Fades, NEW r \in Requests, NEW l \in Labels,
           Goto(r, l),
           lock' = IF lock = r THEN Nobody ELSE lock,
           \/ /\ wrote' = wrote
              /\ \/ l \in {"drain", "wait"} \/ pc[r] \notin {"drain", "wait"} \/ writer' = 0
           \/ wrote' = [wrote EXCEPT ![r] = Unwritten]
    PROVE  CInv'
<1>0. Types /\ OpenerAlone /\ OthersClosed /\ WrittenToClosed
  BY DEF CInv
<1>1. /\ pc'[r] = l /\ \A q \in Requests \ {r} : pc'[q] = pc[q]
      /\ pc' \in [Requests -> {"idle", "again", "connect", "opening"} \cup Waiting]
  BY <1>0 DEF Types, Labels, Goto
<1>2. /\ wrote' \in [Requests -> [Conns -> Nat]]
      /\ \A q \in Requests \ {r} : wrote'[q] = wrote[q]
      /\ wrote'[r] = wrote[r] \/ \A k \in Conns : wrote'[r][k] = 0
  <2>1. wrote \in [Requests -> [Conns -> Nat]]
    BY <1>0 DEF Types
  <2>2. CASE wrote' = wrote
    BY ONLY <2>1, <2>2
  <2>3. CASE wrote' = [wrote EXCEPT ![r] = Unwritten]
    <3>1. PICK u : u = [k \in Conns |-> 0]
      OBVIOUS
    <3>2. u \in [Conns -> Nat] /\ \A k \in Conns : u[k] = 0
      BY <3>1
    <3>3. wrote' = [wrote EXCEPT ![r] = u]
      BY <2>3, <3>1 DEF Unwritten
    <3> QED BY ONLY r \in Requests, <2>1, <3>2, <3>3
  <2> QED BY <2>2, <2>3
<1>3. Types'
  <2>1. lock' \in Requests \cup {Nobody}
    BY <1>0 DEF Types
  <2>2. opened' \in 0..MaxConns /\ writer' \in 0..opened'
    BY <1>0, Bounds DEF Types, Fades
  <2> QED
    BY <1>1, <1>2, <2>1, <2>2 DEF Types, Fades
<1>4. OpenerAlone' /\ OthersClosed'
  <2>1. l # "opening"
    BY DEF Labels, Waiting
  <2>2. \A q \in Requests : pc'[q] = "opening" <=> lock' = q
    BY <1>0, <1>1, <2>1, Bounds DEF OpenerAlone
  <2>3. lock' # Nobody => writer' = 0
    BY <1>0 DEF OpenerAlone, Fades
  <2> QED
    BY <2>2, <2>3 DEF OpenerAlone, OthersClosed, Fades
<1>5. WrittenToClosed'
  <2> SUFFICES ASSUME NEW q \in Requests, NEW k \in Conns, wrote'[q][k] # 0
               PROVE  /\ wrote'[q][k] = 1 /\ k <= opened
                      /\ pc'[q] \in {"drain", "wait"} \/ link'[k] = "closed"
    BY DEF WrittenToClosed, Fades
  <2>1. wrote'[q][k] = wrote[q][k]
    BY <1>2
  <2>2. wrote[q][k] = 1 /\ k <= opened /\ (pc[q] \in {"drain", "wait"} \/ link[k] = "closed")
    BY <1>0, <2>1 DEF WrittenToClosed
  <2>3. link[k] = "closed" => link'[k] = "closed"
    BY DEF Fades
  <2>4. CASE q # r
    BY <1>1, <2>1, <2>2, <2>3, <2>4
  <2>5. CASE q = r
    <3>1. l \in {"drain", "wait"} \/ pc[r] \notin {"drain", "wait"} \/ writer' = 0
      BY <2>5, <1>0 DEF Types, Unwritten
    <3>2. writer' = 0 => link'[k] = "closed"
      BY DEF Fades, Conns
    <3> QED
      BY <1>1, <2>1, <2>2, <2>3, <2>5, <3>1, <3>2
  <2> QED BY <2>4, <2>5
<1> QED BY <1>3, <1>4, <1>5 DEF CInv

\* What Registers and Writes do, and which connection is written to.
Writing(r, k) ==
    \E l \in Waiting :
        /\ Goto(r, l)
        /\ \/ wrote' = wrote /\ l = "queue"
           \/ wrote' = [wrote EXCEPT ![r][k] = @ + 1] /\ l \in {"drain", "wait"}

LEMMA WritesWriting ==
    ASSUME NEW r, NEW n, NEW k, NEW rest, Writes(r, n, k, rest)
    PROVE  Writing(r, k)
BY DEF Writes, Writing, Waiting

LEMMA RegistersWriting ==
    ASSUME NEW r, NEW k, Registers(r, k)
    PROVE  Writing(r, k)
<1>1. CASE queue = <<>> BY <1>1, WritesWriting DEF Registers
<1>2. CASE queue # <<>> BY <1>2 DEF Registers, Writing, Waiting
<1> QED BY <1>1, <1>2

\* A request not yet under way writes to the connection in use, or to the one
\* it has just opened.
LEMMA WritingKeeps ==
    ASSUME CInv, NEW r \in Requests, Writing(r, writer'),
           pc[r] \notin {"drain", "wait"},
           writer' \in Conns, loop' \in {0, writer'},
           \/ /\ UNCHANGED <<writer, opened, link, lock>>
              /\ pc[r] # "opening" /\ link[writer] # "closed"
           \/ /\ writer = 0 /\ writer' = opened + 1 /\ opened' = opened + 1
              /\ link' = [link EXCEPT ![opened + 1] = "up"]
              /\ lock = r /\ lock' = Nobody
    PROVE  CInv'
<1>0. Types /\ OpenerAlone /\ OthersClosed /\ WrittenToClosed
  BY DEF CInv
<1>1. PICK l \in Waiting :
        /\ Goto(r, l)
        /\ \/ wrote' = wrote /\ l = "queue"
           \/ wrote' = [wrote EXCEPT ![r][writer'] = @ + 1] /\ l \in {"drain", "wait"}
  BY DEF Writing
<1>2. /\ pc'[r] = l /\ \A q \in Requests \ {r} : pc'[q] = pc[q]
      /\ pc' \in [Requests -> {"idle", "again", "connect", "opening"} \cup Waiting]
      /\ l # "opening"
  BY <1>0, <1>1 DEF Types, Goto, Waiting
<1>3. /\ wrote' \in [Requests -> [Conns -> Nat]]
      /\ \A q \in Requests, k \in Conns : q # r \/ k # writer' => wrote'[q][k] = wrote[q][k]
      /\ \/ wrote'[r][writer'] = wrote[r][writer']
         \/ wrote'[r][writer'] = wrote[r][writer'] + 1 /\ l \in {"drain", "wait"}
  <2>1. wrote \in [Requests -> [Conns -> Nat]] /\ wrote[r][writer'] \in Nat
    BY <1>0 DEF Types
  <2>2. CASE wrote' = wrote
    BY <2>1, <2>2
  <2>3. CASE wrote' = [wrote EXCEPT ![r][writer'] = @ + 1] /\ l \in {"drain", "wait"}
    <3> DEFINE k == writer'
               n == wrote[r][k] + 1
    <3>1. n \in Nat /\ k \in Conns BY <2>1
    <3>2. wrote' = [wrote EXCEPT ![r][k] = n] BY <2>3
    <3> HIDE DEF k, n
    <3>3. /\ wrote' \in [Requests -> [Conns -> Nat]]
          /\ \A q \in Requests, j \in Conns : q # r \/ j # k => wrote'[q][j] = wrote[q][j]
          /\ wrote'[r][k] = n
      BY <2>1, <3>1, <3>2
    <3> QED BY <2>3, <3>3 DEF k, n
  <2> QED BY <1>1, <2>2, <2>3
<1>4. /\ opened' \in 0..MaxConns /\ writer' \in 0..opened' /\ opened <= opened'
      /\ link' \in [Conns -> {"up", "eof", "reset", "closed"}]
      /\ \A k \in Conns : k # writer' => link'[k] = link[k] /\ link[k] = "closed"
      /\ lock' \in Requests \cup {Nobody}
  <2>1. /\ opened \in 0..MaxConns /\ MaxConns \in Nat /\ writer \in 0..opened
        /\ link \in [Conns -> {"up", "eof", "reset", "closed"}]
        /\ lock \in Requests \cup {Nobody}
        /\ \A k \in Conns : k # writer => link[k] = "closed"
    BY <1>0, Bounds DEF Types, OthersClosed
  <2>2. CASE UNCHANGED <<writer, opened, link, lock>>
    BY ONLY <2>1, <2>2
  <2>3. CASE /\ writer = 0 /\ writer' = opened + 1 /\ opened' = opened + 1
             /\ link' = [link EXCEPT ![opened + 1] = "up"]
             /\ lock = r /\ lock' = Nobody
    <3>1. /\ opened' \in 0..MaxConns /\ writer' \in 0..opened' /\ opened <= opened'
          /\ lock' \in Requests \cup {Nobody}
      BY <2>1, <2>3 DEF Conns
    <3>2. link' \in [Conns -> {"up", "eof", "reset", "closed"}]
      BY ONLY <2>1, <2>3
    <3>3. ASSUME NEW k \in Conns, k # writer'
          PROVE  link'[k] = link[k] /\ link[k] = "closed"
      <4>1. k # writer BY <2>3, <3>3 DEF Conns
      <4> QED BY ONLY <2>1, <2>3, <3>3, <4>1
    <3> QED BY <3>1, <3>2, <3>3
  <2> QED BY <2>2, <2>3
<1>5. \A q \in Requests : wrote[q][writer'] # 0 => q # r /\ writer' = writer
  BY <1>0, Bounds DEF Types, OthersClosed, WrittenToClosed, Conns
<1>6. Types' /\ OthersClosed'
  BY <1>2, <1>3, <1>4 DEF Types, OthersClosed
<1>7. OpenerAlone'
  BY <1>0, <1>2, Bounds DEF OpenerAlone, Types, Conns
<1>8. WrittenToClosed'
  <2> SUFFICES ASSUME NEW q \in Requests, NEW k \in Conns, wrote'[q][k] # 0
               PROVE  /\ wrote'[q][k] = 1 /\ k <= opened'
                      /\ pc'[q] \in {"drain", "wait"} \/ link'[k] = "closed"
    BY DEF WrittenToClosed
  <2>1. CASE k # writer'
    <3>1. wrote[q][k] # 0 /\ wrote'[q][k] = wrote[q][k] /\ link'[k] = "closed"
      BY <1>3, <1>4, <2>1
    <3>2. wrote[q][k] = 1 /\ k <= opened
      BY <1>0, <3>1 DEF WrittenToClosed
    <3> QED BY <1>0, <1>4, <3>1, <3>2, Bounds DEF Types, Conns
  <2>2. CASE k = writer' /\ q # r
    <3>1. wrote'[q][k] = wrote[q][k] /\ writer' = writer
      BY <1>3, <1>5, <2>2
    <3>2. wrote[q][k] = 1 /\ k <= opened /\ (pc[q] \in {"drain", "wait"} \/ link[k] = "closed")
      BY <1>0, <3>1 DEF WrittenToClosed
    <3>3. link' = link /\ opened' = opened
      BY <1>0, <3>1, <2>2, Bounds DEF Types, Conns
    <3> QED BY <1>2, <2>2, <3>1, <3>2, <3>3
  <2>3. CASE k = writer' /\ q = r
    <3>1. wrote[q][k] = 0
      BY <1>5, <2>3
    <3>2. wrote'[q][k] = 1 /\ l \in {"drain", "wait"}
      BY <1>3, <2>3, <3>1
    <3> QED BY <1>2, <1>4, <2>3, <3>2, Bounds DEF Conns
  <2> QED BY <2>1, <2>2, <2>3
<1> QED BY <1>6, <1>7, <1>8 DEF CInv

-----------------------------------------------------------------------------
(* The steps *)

\* A connection is opened: under the lock, and after the old one was closed.
LEMMA ConnectKeeps ==
    ASSUME CInv, NEW r \in Requests, Connect(r)
    PROVE  CInv'
<1>1. lock = Nobody /\ pc[r] = "connect" /\ (\A q \in Requests : pc[q] # "opening")
  BY Bounds DEF Connect, MayConnect, CInv, OpenerAlone
<1>2. CASE Connected
  <2>1. Registers(r, writer) /\ UNCHANGED <<conn, lock>>
    BY <1>2 DEF Connect
  <2>2. writer \in Conns
    BY <1>2, Bounds DEF Connected, CInv, Types, Conns
  <2>3. Writing(r, writer')
    BY <2>1, RegistersWriting DEF conn
  <2> QED
    BY <1>1, <1>2, <2>1, <2>2, <2>3, WritingKeeps DEF Connected, conn, CInv, Types
<1>3. CASE ~Connected
  <2>1. lock' = r /\ Goto(r, "opening") /\ CloseSilent /\ wrote' = wrote
    BY <1>3 DEF Connect
  <2>2. Fades /\ writer' = 0
    BY <2>1, ClosingFades DEF CloseSilent
  <2>3. /\ pc'[r] = "opening" /\ \A q \in Requests \ {r} : pc'[q] = pc[q]
        /\ pc' \in [Requests -> {"idle", "again", "connect", "opening"} \cup Waiting]
    BY <2>1 DEF Goto, CInv, Types
  <2>4. Types'
    BY <2>1, <2>2, <2>3, Bounds DEF CInv, Types, Fades
  <2>5. OpenerAlone' /\ OthersClosed'
    BY <1>1, <2>1, <2>2, <2>3, Bounds DEF OpenerAlone, OthersClosed, Fades
  <2>6. WrittenToClosed'
    BY <1>1, <2>1, <2>2, <2>3 DEF CInv, WrittenToClosed, Fades, Conns
  <2> QED BY <2>4, <2>5, <2>6 DEF CInv
<1> QED BY <1>2, <1>3

LEMMA BeginKeeps ==
    ASSUME CInv, NEW r \in Requests, Begin(r)
    PROVE  CInv'
<1>1. pc[r] \in {"idle", "again"} /\ lock # r /\ UNCHANGED <<conn, lock>>
  BY DEF Begin, CInv, OpenerAlone
<1>2. CASE Connected
  <2>1. writer \in Conns
    BY <1>2, Bounds DEF Connected, CInv, Types, Conns
  <2>2. Writing(r, writer')
    BY <1>1, <1>2, RegistersWriting DEF Begin, conn
  <2> QED
    BY <1>1, <1>2, <2>1, <2>2, WritingKeeps DEF Connected, conn, CInv, Types
<1>3. CASE ~Connected
  <2>1. Goto(r, "connect") /\ wrote' = wrote
    BY <1>3 DEF Begin
  <2> QED
    BY <1>1, <2>1, SameFades, MovingKeeps DEF Labels, conn
<1> QED BY <1>2, <1>3

LEMMA OpensKeeps ==
    ASSUME CInv, NEW r \in Requests, Opens(r)
    PROVE  CInv'
<1>1. /\ lock = r /\ writer = 0 /\ lock' = Nobody
      /\ opened < MaxConns /\ opened' = opened + 1
      /\ writer' = opened + 1 /\ loop' = opened + 1
      /\ link' = [link EXCEPT ![opened + 1] = "up"]
  BY Bounds DEF Opens, CInv, OpenerAlone
<1>2. writer' \in Conns
  BY <1>1, Bounds DEF CInv, Types, Conns
<1>3. Writing(r, writer')
  BY <1>1, RegistersWriting DEF Opens
<1>4. pc[r] \notin {"drain", "wait"}
  BY DEF Opens
<1> QED BY <1>1, <1>2, <1>3, <1>4, WritingKeeps

\* The second attempt begins with everything closed; after it nothing remains.
LEMMA FailedAttemptKeeps ==
    ASSUME CInv, NEW r \in Requests, NotConnected(r),
           lock' = IF lock = r THEN Nobody ELSE lock
    PROVE  CInv'
<1>1. CASE tries[r] = 1
  <2>1. /\ Goto(r, "again") /\ wrote' = wrote /\ writer' = 0 /\ loop' = 0
        /\ UNCHANGED opened
        /\ IF writer = 0 THEN link' = link ELSE link' = [link EXCEPT ![writer] = "closed"]
    BY <1>1 DEF NotConnected
  <2>2. Fades
    BY <2>1, ClosingFades
  <2> QED BY <2>1, <2>2, MovingKeeps DEF Labels
<1>2. CASE tries[r] # 1
  <2>1. Ends(r) /\ UNCHANGED conn
    BY <1>2 DEF NotConnected
  <2> QED BY <2>1, SameFades, MovingKeeps DEF Labels, Ends, conn
<1> QED BY <1>1, <1>2

LEMMA WriteQueuedKeeps ==
    ASSUME CInv, NEW r \in Requests, WriteQueued(r)
    PROVE  CInv'
<1>1. /\ pc[r] = "queue" /\ UNCHANGED <<conn, lock>>
      /\ writer # 0 /\ link[writer] \in {"up", "eof"}
  BY DEF WriteQueued
<1>2. writer \in Conns
  BY <1>1, Bounds DEF CInv, Types, Conns
<1>3. Writing(r, writer')
  BY <1>1, WritesWriting DEF WriteQueued, conn
<1> QED BY <1>1, <1>2, <1>3, WritingKeeps DEF conn, CInv, Types

\* A write to a connection found broken breaks it for good.
LEMMA BreaksKeeps ==
    ASSUME CInv, NEW r \in Requests, QueuedBreaks(r) \/ BeginBreaks(r)
    PROVE  CInv'
<1>1. /\ Goto(r, "idle") /\ wrote' = [wrote EXCEPT ![r] = Unwritten]
      /\ UNCHANGED <<writer, loop, opened, lock>>
  BY DEF QueuedBreaks, BeginBreaks, Ends
<1>2. pc[r] # "opening" /\ lock # r
  BY DEF QueuedBreaks, BeginBreaks, CInv, OpenerAlone
<1>3. \/ UNCHANGED link
      \/ /\ writer # 0 /\ link[writer] = "eof"
         /\ link' = [link EXCEPT ![writer] = "reset"]
  BY DEF QueuedBreaks, BeginBreaks, Connected
<1>4. CASE UNCHANGED link
  BY <1>1, <1>4, SameFades, <1>2, MovingKeeps DEF Labels, conn
<1>5. CASE writer # 0 /\ link[writer] = "eof" /\ link' = [link EXCEPT ![writer] = "reset"]
  <2>1. Fades
    BY <1>1, <1>5, LinkFades DEF CInv, Types
  <2> QED BY <1>1, <1>2, <2>1, MovingKeeps DEF Labels
<1> QED BY <1>3, <1>4, <1>5

\* The other steps of a request leave the connections alone.
LEMMA RequestKeeps ==
    ASSUME CInv, NEW r \in Requests, Request(r) \/ Cancel(r)
    PROVE  CInv'
<1>1. CASE Begin(r) BY <1>1, BeginKeeps
<1>2. CASE Connect(r) BY <1>2, ConnectKeeps
<1>3. CASE Opens(r) BY <1>3, OpensKeeps
<1>4. CASE OpenFails(r)
  <2>1. lock = r
    BY <1>4 DEF OpenFails, CInv, OpenerAlone
  <2> QED BY <1>4, <2>1, FailedAttemptKeeps DEF OpenFails
<1>5. CASE Lost(r)
  <2>1. lock # r
    BY <1>5 DEF Lost, CInv, OpenerAlone
  <2> QED BY <1>5, <2>1, FailedAttemptKeeps DEF Lost
<1>6. CASE WriteQueued(r) BY <1>6, WriteQueuedKeeps
<1>7. CASE QueuedBreaks(r) \/ BeginBreaks(r) BY <1>7, BreaksKeeps
<1>8. CASE DrainEnds(r)
  <2>1. pc[r] = "drain" /\ Goto(r, "wait") /\ wrote' = wrote /\ UNCHANGED <<conn, lock>>
    BY <1>8 DEF DrainEnds
  <2>2. lock # r
    BY <2>1 DEF CInv, OpenerAlone
  <2> QED BY <2>1, <2>2, SameFades, MovingKeeps DEF Labels, Waiting, conn
<1>9. CASE Answered(r) \/ TimesOut(r) \/ DrainBreaks(r)
  <2>1. Ends(r)
    BY <1>9 DEF Answered, TimesOut, DrainBreaks
  <2>2. pc[r] # "opening" /\ UNCHANGED <<conn, lock>>
    BY <1>9 DEF Answered, TimesOut, DrainBreaks
  <2>3. lock # r
    BY <2>2 DEF CInv, OpenerAlone
  <2> QED BY <2>1, <2>2, <2>3, SameFades, MovingKeeps DEF Labels, Ends, conn
<1>10. CASE Cancel(r)
  <2>1. /\ lock' = (IF lock = r THEN Nobody ELSE lock)
        /\ Ends(r) /\ UNCHANGED conn
    BY <1>10 DEF Cancel
  <2> QED BY <2>1, SameFades, MovingKeeps DEF Labels, Ends, conn
<1> QED
  BY <1>1, <1>2, <1>3, <1>4, <1>5, <1>6, <1>7, <1>8, <1>9, <1>10 DEF Request

\* The loop, the pool, vehicle and network only ever close a connection.
LEMMA OthersKeep ==
    ASSUME CInv,
           \/ Receive \/ LoopEnds \/ Drop
           \/ \E k \in Conns : Answers(k) \/ Noise(k) \/ PeerCloses(k)
    PROVE  CInv'
<1>1. CASE Receive
  BY <1>1, SameFades, FadingKeeps DEF Receive, conn
<1>2. CASE LoopEnds
  <2>1. /\ writer # 0 /\ loop' = 0 /\ link' = [link EXCEPT ![writer] = "closed"]
        /\ UNCHANGED <<writer, opened, lock, pc, wrote>>
    BY <1>2 DEF LoopEnds, CInv, Types
  <2>2. Fades
    BY <2>1, LinkFades
  <2> QED BY <2>1, <2>2, FadingKeeps
<1>3. CASE Drop
  <2>1. CloseSilent /\ UNCHANGED <<lock, pc, wrote>>
    BY <1>3 DEF Drop
  <2>2. Fades
    BY <2>1, ClosingFades DEF CloseSilent
  <2> QED BY <2>1, <2>2, FadingKeeps
<1>4. ASSUME NEW k \in Conns, Answers(k) \/ Noise(k) \/ PeerCloses(k)
      PROVE  CInv'
  <2>1. CASE Answers(k)
    BY <2>1, SameFades, FadingKeeps DEF Answers, conn
  <2>2. CASE Noise(k)
    BY <2>2, SameFades, FadingKeeps DEF Noise
  <2>3. CASE PeerCloses(k)
    <3>1. /\ k = writer /\ writer # 0 /\ link[writer] = "up"
          /\ UNCHANGED <<writer, loop, opened, lock, pc, wrote>>
      BY <2>3 DEF PeerCloses, CInv, OthersClosed, Conns
    <3>2. PICK v \in {"eof", "reset"} : link' = [link EXCEPT ![writer] = v]
      BY <2>3, <3>1 DEF PeerCloses
    <3>3. Fades
      BY <3>1, <3>2, LinkFades DEF CInv, Types
    <3> QED BY <3>1, <3>3, FadingKeeps
  <2> QED BY <1>4, <2>1, <2>2, <2>3
<1> QED BY <1>1, <1>2, <1>3, <1>4

LEMMA ClientNext == CInv /\ [Next]_vars => CInv'
<1> SUFFICES ASSUME CInv, [Next]_vars PROVE CInv'
  OBVIOUS
<1>1. CASE UNCHANGED vars
  BY <1>1, SameFades, FadingKeeps DEF vars, conn
<1>2. CASE Next
  BY <1>2, RequestKeeps, OthersKeep DEF Next
<1> QED BY <1>1, <1>2

-----------------------------------------------------------------------------
\* Whatever breaks, is dropped, reconnected or canceled, and in whatever order.
THEOREM ClientInvariance == Spec => []CInv
BY ClientInitial, ClientNext, PTL DEF Spec

\* No connection is left open behind the one in use (_close_silent, connect).
THEOREM OneOpen == Spec => []OneConnection
<1>1. CInv => OneConnection
  BY DEF CInv, OthersClosed, OneConnection
<1> QED BY <1>1, ClientInvariance, PTL

\* The retry of send_request never writes to the connection it failed on.
THEOREM NeverTwice == Spec => []WrittenOnce
<1>1. CInv => WrittenOnce
  BY DEF CInv, Types, WrittenToClosed, WrittenOnce
<1> QED BY <1>1, ClientInvariance, PTL

-----------------------------------------------------------------------------
(* The locks *)

Queued == {"queue", "drain"}

\* _send_lock: in its queue is, once, every request that waits for it or holds
\* it, and only the holder drains
QueueOK ==
    /\ queue \in Seq(Requests)
    /\ \A r \in Requests : pc[r] \in Queued <=> \E i \in 1..Len(queue) : queue[i] = r
    /\ \A i, j \in 1..Len(queue) : queue[i] = queue[j] => i = j
    /\ \A i \in 1..Len(queue) : pc[queue[i]] = "drain" => i = 1

\* after is before without the request at some position
Without(before, after, r) ==
    /\ after \in Seq(Requests)
    /\ \E a \in 1..Len(before) :
          /\ before[a] = r
          /\ Len(after) = Len(before) - 1
          /\ \A i \in 1..Len(after) : after[i] = IF i < a THEN before[i] ELSE before[i + 1]

Moves(r, l) == pc'[r] = l /\ \A q \in Requests \ {r} : pc'[q] = pc[q]

LEMMA GotoMoves ==
    ASSUME CInv, NEW r \in Requests, NEW l, Goto(r, l)
    PROVE  Moves(r, l)
BY DEF CInv, Types, Goto, Moves

\* The head leaves a queue.
LEMMA TailWithout ==
    ASSUME NEW s, s \in Seq(Requests), s # <<>>
    PROVE  Without(s, Tail(s), Head(s))
<1>1. /\ Tail(s) \in Seq(Requests) /\ Len(Tail(s)) = Len(s) - 1
      /\ \A i \in 1..Len(Tail(s)) : Tail(s)[i] = s[i + 1]
  BY HeadTailProperties
<1>2. 1 \in 1..Len(s) /\ Head(s) = s[1] /\ Len(s) \in Nat
  BY EmptySeq
<1>3. \A i \in 1..Len(Tail(s)) : Tail(s)[i] = IF i < 1 THEN s[i] ELSE s[i + 1]
  BY <1>1, <1>2
<1> QED BY <1>1, <1>2, <1>3 DEF Without

\* RemoveFirst takes one element out, wherever it is.
LEMMA RemovedWithout ==
    ASSUME NEW s, s \in Seq(Requests), NEW r, NEW k \in 1..Len(s), s[k] = r
    PROVE  Without(s, RemoveFirst(s, r), r)
<1> DEFINE T == {i \in 1..Len(s) : s[i] = r}
           a == Min(T)
<1>1. RemoveFirst(s, r) = RemoveAt(s, a)
  BY DEF RemoveFirst, SelectInSeq
<1>2. a \in T
  <2>1. \E i \in T : \A j \in T : i <= j
    <3>1. T \subseteq Nat /\ T # {}
      OBVIOUS
    <3> HIDE DEF T
    <3> QED BY <3>1, Least
  <2> HIDE DEF T
  <2> QED BY <2>1 DEF Min
<1>3. a \in 1..Len(s) /\ s[a] = r /\ Len(s) \in Nat
  BY <1>2
<1> HIDE DEF T, a
<1>t. PICK t, u : t = SubSeq(s, 1, a - 1) /\ u = SubSeq(s, a + 1, Len(s))
  OBVIOUS
<1>4. /\ t \in Seq(Requests) /\ Len(t) = a - 1 /\ \A i \in 1..(a - 1) : t[i] = s[i]
  <2>1. \A i \in 1..(a - 1) : s[i] \in Requests
    BY <1>3
  <2>2. /\ t \in Seq(Requests) /\ Len(t) = (IF 1 <= a - 1 THEN a - 1 - 1 + 1 ELSE 0)
        /\ \A i \in 1..(a - 1 - 1 + 1) : t[i] = s[1 + i - 1]
    BY <1>3, <1>t, <2>1, SubSeqProperties
  <2> QED BY <1>3, <2>2
<1>5. /\ u \in Seq(Requests) /\ Len(u) = Len(s) - a
      /\ \A i \in 1..(Len(s) - a) : u[i] = s[i + a]
  <2>1. \A i \in (a + 1)..Len(s) : s[i] \in Requests
    BY <1>3
  <2>2. /\ u \in Seq(Requests)
        /\ Len(u) = (IF a + 1 <= Len(s) THEN Len(s) - (a + 1) + 1 ELSE 0)
        /\ \A i \in 1..(Len(s) - (a + 1) + 1) : u[i] = s[a + 1 + i - 1]
    BY <1>3, <1>t, <2>1, SubSeqProperties
  <2> QED BY <1>3, <2>2
<1>6. /\ t \o u \in Seq(Requests) /\ Len(t \o u) = Len(s) - 1
      /\ \A i \in 1..(a - 1) : (t \o u)[i] = t[i]
      /\ \A i \in 1..(Len(s) - a) : (t \o u)[a - 1 + i] = u[i]
  <2>1. /\ t \o u \in Seq(Requests) /\ Len(t \o u) = Len(t) + Len(u)
        /\ \A i \in 1..Len(t) : (t \o u)[i] = t[i]
        /\ \A i \in 1..Len(u) : (t \o u)[Len(t) + i] = u[i]
    <3>1. t \in Seq(Requests) /\ u \in Seq(Requests)
      BY <1>4, <1>5
    <3> QED BY ONLY <3>1, ConcatAt
  <2>2. PICK v : v = t \o u
    OBVIOUS
  <2>3. /\ v \in Seq(Requests) /\ Len(v) = Len(s) - 1
        /\ \A i \in 1..(a - 1) : v[i] = t[i]
        /\ \A i \in 1..(Len(s) - a) : v[a - 1 + i] = u[i]
    <3>1. v \in Seq(Requests) /\ \A i \in 1..(a - 1) : v[i] = t[i]
      BY ONLY <1>4, <2>1, <2>2
    <3>2. Len(v) = Len(s) - 1
      <4>1. Len(v) = Len(t) + Len(u) /\ Len(t) = a - 1 /\ Len(u) = Len(s) - a
        BY <1>4, <1>5, <2>1, <2>2
      <4> QED BY ONLY <1>3, <4>1
    <3>3. \A i \in 1..(Len(s) - a) : v[a - 1 + i] = u[i]
      BY ONLY <1>4, <1>5, <2>1, <2>2
    <3> QED BY <3>1, <3>2, <3>3
  <2> QED BY <2>2, <2>3
<1>7. ASSUME NEW i \in 1..(Len(s) - 1)
      PROVE  (t \o u)[i] = IF i < a THEN s[i] ELSE s[i + 1]
  <2>1. CASE i < a
    BY <1>3, <1>4, <1>6, <2>1
  <2>2. CASE ~(i < a)
    <3> DEFINE j == i - a + 1
    <3>1. j \in 1..(Len(s) - a) /\ i = a - 1 + j /\ i + 1 = j + a
      BY <1>3, <2>2
    <3> HIDE DEF j
    <3> QED BY <1>5, <1>6, <2>2, <3>1
  <2> QED BY <2>1, <2>2
<1>8. RemoveFirst(s, r) = t \o u
  BY <1>1, <1>t DEF RemoveAt
<1> QED BY <1>3, <1>6, <1>7, <1>8 DEF Without

\* A request that leaves the queue, from whatever place.
LEMMA LeavingKeeps ==
    ASSUME QueueOK, NEW r \in Requests, NEW l, Moves(r, l), l \notin Queued,
           Without(queue, queue', r)
    PROVE  QueueOK'
<1>1. PICK a \in 1..Len(queue) :
          /\ queue[a] = r
          /\ Len(queue') = Len(queue) - 1
          /\ \A i \in 1..Len(queue') : queue'[i] = IF i < a THEN queue[i] ELSE queue[i + 1]
  BY DEF Without
<1>2. /\ queue' \in Seq(Requests) /\ Len(queue) \in Nat
      /\ \A i \in 1..Len(queue) : queue[i] \in Requests /\ (queue[i] = r => i = a)
  BY <1>1 DEF Without, QueueOK
<1>3. ASSUME NEW i \in 1..Len(queue')
      PROVE  \E k \in 1..Len(queue) : queue'[i] = queue[k] /\ k # a /\ i = IF k < a THEN k ELSE k - 1
  <2>1. CASE i < a
    <3>1. i \in 1..Len(queue) /\ queue'[i] = queue[i] /\ i # a
      BY <1>1, <1>2, <2>1
    <3> QED BY <2>1, <3>1
  <2>2. CASE ~(i < a)
    <3>1. /\ i + 1 \in 1..Len(queue) /\ queue'[i] = queue[i + 1] /\ i + 1 # a
          /\ ~(i + 1 < a) /\ i = i + 1 - 1
      BY <1>1, <1>2, <2>2
    <3> QED BY <3>1
  <2> QED BY <2>1, <2>2
<1>4. ASSUME NEW k \in 1..Len(queue), k # a
      PROVE  \E i \in 1..Len(queue') : queue'[i] = queue[k]
  <2>1. CASE k < a
    BY <1>1, <1>2, <2>1
  <2>2. CASE k > a
    <3>1. k - 1 \in 1..Len(queue') /\ ~(k - 1 < a) /\ k - 1 + 1 = k
      BY <1>1, <1>2, <2>2
    <3> QED BY <1>1, <3>1
  <2> QED BY <1>2, <1>4, <2>1, <2>2
<1>5. ASSUME NEW q \in Requests
      PROVE  pc'[q] \in Queued <=> \E i \in 1..Len(queue') : queue'[i] = q
  <2>1. CASE q = r
    BY <1>2, <1>3, <2>1 DEF Moves
  <2>2. CASE q # r
    <3>1. pc'[q] = pc[q] /\ (pc[q] \in Queued <=> \E k \in 1..Len(queue) : queue[k] = q)
      BY <2>2 DEF Moves, QueueOK
    <3>2. (\E k \in 1..Len(queue) : queue[k] = q) <=> \E i \in 1..Len(queue') : queue'[i] = q
      BY <1>1, <1>3, <1>4, <2>2
    <3> QED BY <3>1, <3>2
  <2> QED BY <2>1, <2>2
<1>6. ASSUME NEW i \in 1..Len(queue'), NEW j \in 1..Len(queue'), queue'[i] = queue'[j]
      PROVE  i = j
  <2>1. PICK k \in 1..Len(queue) : queue'[i] = queue[k] /\ k # a /\ i = IF k < a THEN k ELSE k - 1
    BY <1>3
  <2>2. PICK m \in 1..Len(queue) : queue'[j] = queue[m] /\ m # a /\ j = IF m < a THEN m ELSE m - 1
    BY <1>3
  <2>3. k = m
    <3>1. queue[k] = queue[m]
      BY <1>6, <2>1, <2>2
    <3>2. \A b, c \in 1..Len(queue) : queue[b] = queue[c] => b = c
      BY DEF QueueOK
    <3> QED BY <3>1, <3>2
  <2> QED BY ONLY <2>1, <2>2, <2>3
<1>7. ASSUME NEW i \in 1..Len(queue'), pc'[queue'[i]] = "drain"
      PROVE  i = 1
  <2>1. PICK k \in 1..Len(queue) : queue'[i] = queue[k] /\ k # a /\ i = IF k < a THEN k ELSE k - 1
    BY <1>3
  <2>2. pc[queue[k]] = "drain"
    BY <1>2, <1>7, <2>1 DEF Moves
  <2>3. k = 1
    BY <2>2 DEF QueueOK
  <2> QED BY <1>2, <2>1, <2>3
<1> QED BY <1>2, <1>5, <1>6, <1>7 DEF QueueOK

\* A request that was and is not in it.
LEMMA OutsideKeeps ==
    ASSUME QueueOK, NEW r \in Requests, NEW l, Moves(r, l), l \notin Queued,
           pc[r] \notin Queued, queue' = queue
    PROVE  QueueOK'
<1>1. \A i \in 1..Len(queue) : queue[i] # r /\ queue[i] \in Requests
  BY DEF QueueOK
<1> QED BY <1>1 DEF QueueOK, Moves

LEMMA StillKeeps == QueueOK /\ UNCHANGED <<queue, pc>> => QueueOK'
BY DEF QueueOK

\* What Writes and Registers do to the queue.
LEMMA JoinKeeps ==
    ASSUME QueueOK, NEW r \in Requests, pc[r] \notin Queued,
           \/ queue = <<>> /\ queue' = <<r>> /\ Moves(r, "drain")
           \/ queue' = Append(queue, r) /\ Moves(r, "queue")
    PROVE  QueueOK'
<1> DEFINE n == Len(queue)
<1>1. n \in Nat /\ queue \in Seq(Requests) /\ \A i \in 1..n : queue[i] # r /\ queue[i] \in Requests
  BY DEF QueueOK
<1>2. PICK l \in Queued : Moves(r, l) /\ (l = "drain" => n = 0)
  BY DEF Queued
<1>3. /\ queue' \in Seq(Requests) /\ Len(queue') = n + 1
      /\ queue'[n + 1] = r /\ \A i \in 1..n : queue'[i] = queue[i]
  <2>1. CASE queue = <<>> /\ queue' = <<r>>
    BY <2>1
  <2>2. CASE queue' = Append(queue, r)
    BY <1>1, <2>2, AppendProperties
  <2> QED BY <2>1, <2>2
<1>4. \A i \in 1..(n + 1) : i \in 1..n \/ i = n + 1
  BY <1>1
<1>5. \A q \in Requests : pc'[q] \in Queued <=> \E i \in 1..Len(queue') : queue'[i] = q
  <2>1. 1..Len(queue') = 1..n \cup {n + 1}
    BY <1>1, <1>3
  <2> QED BY <1>1, <1>2, <1>3, <2>1 DEF QueueOK, Moves
<1>6. \A i, j \in 1..Len(queue') : queue'[i] = queue'[j] => i = j
  BY <1>1, <1>3, <1>4 DEF QueueOK
<1>7. \A i \in 1..Len(queue') : pc'[queue'[i]] = "drain" => i = 1
  BY <1>1, <1>2, <1>3, <1>4 DEF QueueOK, Moves
<1> QED BY <1>3, <1>5, <1>6, <1>7 DEF QueueOK

\* The holder of the lock stays in its place to drain.
LEMMA HolderKeeps ==
    ASSUME QueueOK, NEW r \in Requests, pc[r] \in Queued, Head(queue) = r,
           queue' = <<r>> \o Tail(queue), Moves(r, "drain")
    PROVE  QueueOK'
<1>1. queue \in Seq(Requests) /\ queue # <<>>
  BY DEF QueueOK
<1>2. queue' = queue
  BY <1>1
<1>3. Len(queue) \in Nat /\ 1 \in 1..Len(queue) /\ queue[1] = r
  BY <1>1
<1> QED BY <1>1, <1>2, <1>3 DEF QueueOK, Moves, Queued

-----------------------------------------------------------------------------
(* The numbers *)

\* Multiples of a number are that number apart.
LEMMA Multiples ==
    ASSUME NEW n \in Nat \ {0}, NEW a \in Nat, NEW b \in Nat
    PROVE  /\ n * a \in Nat /\ n * b \in Nat
           /\ a < b => n * a + n <= n * b
<1>1. ASSUME a < b PROVE n * a + n <= n * b
  <2>1. PICK k \in Nat : b = a + 1 + k
    <3>1. b - a - 1 \in Nat /\ b = a + 1 + (b - a - 1)
      BY <1>1
    <3> QED BY <3>1
  <2>2. n * b = n * a + n + n * k
    BY <2>1
  <2>3. n * k \in Nat
    BY <2>1
  <2> QED BY <2>2, <2>3
<1> QED BY <1>1

\* Division with a remainder,
LEMMA Divides ==
    ASSUME NEW n \in Nat \ {0}, NEW x \in Nat
    PROVE  \E q \in Nat, r \in 0..(n - 1) : x = n * q + r /\ x % n = r
<1>1. x = n * (x \div n) + (x % n)
  OBVIOUS
<1>2. x % n \in 0..(n - 1) /\ x \div n \in Nat
  OBVIOUS
<1> QED BY <1>1, <1>2

\* which is unique.
LEMMA Remainder ==
    ASSUME NEW n \in Nat \ {0}, NEW x \in Nat, NEW q \in Nat, NEW r \in 0..(n - 1), x = n * q + r
    PROVE  x % n = r
<1>1. PICK p \in Nat, s \in 0..(n - 1) : x = n * p + s /\ x % n = s
  BY Divides
<1>2. ~(p < q) /\ ~(q < p)
  <2>1. PICK a, b : a = n * p /\ b = n * q
    OBVIOUS
  <2>2. /\ p < q => a + n <= b
        /\ q < p => b + n <= a
        /\ a \in Nat /\ b \in Nat
    BY <2>1, Multiples
  <2> QED BY <1>1, <2>1, <2>2
<1>3. p = q
  BY <1>2
<1> QED BY <1>1, <1>3

\* The number that is drawn as the d-th one.
Nth(d) == IF d = 0 THEN 0 ELSE 1 + ((d - 1) % Numbers)

\* Numbers are drawn in turn.
LEMMA NextNth ==
    ASSUME Numbers \in Nat \ {0}, NEW d \in Nat
    PROVE  Nth(d) \in 0..Numbers /\ Nth(d + 1) \in 1..Numbers
           /\ Nth(d + 1) = IF Nth(d) = Numbers THEN 1 ELSE Nth(d) + 1
<1>1. CASE d = 0
  <2>1. 0 % Numbers = 0
    OBVIOUS
  <2> QED BY <1>1, <2>1 DEF Nth
<1>2. CASE d # 0
  <2> DEFINE x == d - 1
  <2>1. x \in Nat /\ d = x + 1
    BY <1>2
  <2> HIDE DEF x
  <2>2. PICK q \in Nat, r \in 0..(Numbers - 1) : x = Numbers * q + r /\ x % Numbers = r
    BY <2>1, Divides
  <2>3. (x + 1) % Numbers = IF r = Numbers - 1 THEN 0 ELSE r + 1
    <3>1. CASE r = Numbers - 1
      <4>1. x + 1 = Numbers * (q + 1) + 0
        BY <2>2, <3>1
      <4>2. x + 1 \in Nat /\ q + 1 \in Nat /\ 0 \in 0..(Numbers - 1)
        BY <2>1, <2>2
      <4> QED BY <3>1, <4>1, <4>2, Remainder
    <3>2. CASE r # Numbers - 1
      <4>1. x + 1 = Numbers * q + (r + 1)
        BY <2>2
      <4>2. x + 1 \in Nat /\ r + 1 \in 0..(Numbers - 1)
        BY <2>1, <2>2, <3>2
      <4> QED BY <2>2, <3>2, <4>1, <4>2, Remainder
    <3> QED BY <3>1, <3>2
  <2>4. Nth(d) = 1 + r /\ Nth(d + 1) = 1 + ((x + 1) % Numbers)
    <3>1. d - 1 = x /\ (d + 1) - 1 = x + 1 /\ d # 0 /\ d + 1 # 0
      BY <1>2, <2>1
    <3> QED BY <2>2, <3>1 DEF Nth
  <2> QED BY <2>2, <2>3, <2>4
<1> QED BY <1>1, <1>2

\* Two draws of one number are a whole round apart.
LEMMA RoundApart ==
    ASSUME Numbers \in Nat \ {0}, NEW d \in Nat \ {0}, NEW e \in Nat, d < e, Nth(d) = Nth(e)
    PROVE  d + Numbers <= e
<1> DEFINE x == d - 1
           y == e - 1
<1>1. x \in Nat /\ y \in Nat /\ x < y /\ x % Numbers = y % Numbers
  BY DEF Nth
<1> HIDE DEF x, y
<1>2. PICK p \in Nat, r \in 0..(Numbers - 1) : x = Numbers * p + r /\ x % Numbers = r
  BY <1>1, Divides
<1>3. PICK q \in Nat, s \in 0..(Numbers - 1) : y = Numbers * q + s /\ y % Numbers = s
  BY <1>1, Divides
<1>4. PICK a, b : a = Numbers * p /\ b = Numbers * q
  OBVIOUS
<1>5. /\ p < q => a + Numbers <= b
      /\ q < p => b + Numbers <= a
      /\ a \in Nat /\ b \in Nat
  BY <1>4, Multiples
<1>6. p # q
  BY <1>1, <1>2, <1>3
<1>7. x + Numbers <= y
  BY <1>1, <1>2, <1>3, <1>4, <1>5, <1>6
<1> QED BY <1>7 DEF x, y

-----------------------------------------------------------------------------
(* The table *)

Messages == [num : 1..Numbers, of : Nat]

TableTypes ==
    /\ drawn \in 0..MaxDraws
    /\ pending \in [1..Numbers -> Requests \cup {Nobody}]
    /\ fut \in [Requests -> {"none", "lost", "given"}]
    /\ num \in [Requests -> 0..Numbers]
    /\ mine \in [Requests -> 0..MaxDraws]
    /\ answer \in [Requests -> 0..MaxDraws]
    /\ shared \subseteq Requests
    /\ tries \in [Requests -> 1..2]
    /\ on \in [Requests -> 0..MaxConns]

\* who waits has drawn a number, one of its own unless it is shared
Drew ==
    \A r \in Requests :
        /\ pc[r] \in Waiting <=> num[r] # 0
        /\ num[r] # 0 => mine[r] \in 1..drawn /\ num[r] = Nth(mine[r])
        /\ \A q \in Requests \ {r} : num[q] = num[r] /\ num[r] # 0 => r \in shared

\* who is in the table was the last to draw that number
Latest ==
    \A n \in 1..Numbers : pending[n] # Nobody =>
        /\ num[pending[n]] = n
        /\ \A d \in 1..drawn : Nth(d) = n => d <= mine[pending[n]]

TableOK ==
    /\ TableTypes
    /\ last = Nth(drawn)
    /\ Drew
    /\ Latest

LEMMA Sizes == Numbers \in Nat \ {0} /\ MaxDraws \in Nat /\ MaxNoisy \in Nat /\ MaxConns \in Nat
               /\ Nobody \notin Requests
BY ClientAssumption

\* The numbers drawn so far and the next one.
LEMMA NextDraw ==
    ASSUME TableOK
    PROVE  /\ drawn \in Nat
           /\ NextNumber \in 1..Numbers /\ NextNumber = Nth(drawn + 1)
           /\ last \in 0..Numbers
<1>1. drawn \in Nat /\ last = Nth(drawn)
  BY Sizes DEF TableOK, TableTypes
<1>2. Nth(drawn) \in 0..Numbers /\ Nth(drawn + 1) \in 1..Numbers
      /\ Nth(drawn + 1) = IF Nth(drawn) = Numbers THEN 1 ELSE Nth(drawn) + 1
  BY <1>1, Sizes, NextNth
<1> QED BY <1>1, <1>2 DEF NextNumber

Stays(q) == pc'[q] \in Waiting <=> pc[q] \in Waiting

\* A step that leaves the table alone.
LEMMA StayKeeps ==
    ASSUME TableOK, AnswerIsOwn, UNCHANGED <<table, tries>>,
           on' \in [Requests -> 0..MaxConns], \A q \in Requests : Stays(q)
    PROVE  TableOK' /\ AnswerIsOwn'
<1>1. TableTypes'
  BY DEF TableOK, TableTypes, table
<1>2. last' = Nth(drawn)' /\ Drew' /\ Latest'
  BY DEF TableOK, Drew, Latest, Stays, table, Nth
<1>3. AnswerIsOwn'
  BY DEF AnswerIsOwn, table
<1> QED BY <1>1, <1>2, <1>3 DEF TableOK

\* A future that is open after everybody was rejected is nobody's.
LEMMA RejectedIsOver ==
    ASSUME TableOK, Served, NEW r \in Requests \ shared, pc[r] \in Waiting
    PROVE  Rejected[r] # "none"
<1>1. CASE fut[r] # "none"
  BY <1>1 DEF Rejected
<1>2. CASE fut[r] = "none"
  <2>1. pending[num[r]] = r /\ num[r] # 0 /\ num[r] \in 0..Numbers
    BY <1>2 DEF Served, TableOK, Drew, TableTypes
  <2>2. num[r] \in DOMAIN pending
    BY <2>1, Sizes DEF TableOK, TableTypes
  <2> QED BY <2>1, <2>2 DEF Rejected
<1> QED BY <1>1, <1>2

\* What everybody being rejected makes of futures and table.
LEMMA RejectedType ==
    TableOK =>
        /\ Rejected \in [Requests -> {"none", "lost", "given"}]
        /\ \A r \in Requests : Rejected[r] = "given" => fut[r] = "given"
        /\ NobodyPending \in [1..Numbers -> Requests \cup {Nobody}]
        /\ \A n \in 1..Numbers : NobodyPending[n] = Nobody
BY DEF TableOK, TableTypes, Rejected, NobodyPending

\* Everybody is rejected, and nothing else happens to the table.
LEMMA RejectKeeps ==
    ASSUME TableOK, AnswerIsOwn, Served, RejectAll,
           UNCHANGED <<draws, num, mine, answer, shared, tries, on>>,
           \A q \in Requests : Stays(q)
    PROVE  TableOK' /\ AnswerIsOwn' /\ Served'
<1>1. pending' = NobodyPending /\ fut' = Rejected /\ UNCHANGED <<last, drawn>>
  BY DEF RejectAll, draws
<1>2. TableTypes'
  BY <1>1, RejectedType DEF TableOK, TableTypes
<1>3. last' = Nth(drawn)' /\ Drew'
  BY <1>1 DEF TableOK, Drew, Stays, Nth
<1>4. Latest'
  BY <1>1, RejectedType DEF Latest
<1>5. AnswerIsOwn'
  BY <1>1, RejectedType DEF AnswerIsOwn
<1>6. Served'
  BY <1>1, RejectedIsOver DEF Served, Stays
<1> QED BY <1>2, <1>3, <1>4, <1>5, <1>6 DEF TableOK

\* A number that r gives up is in nobody else's way.
LEMMA ForgetKeeps ==
    ASSUME TableOK, NEW r \in Requests, Forgets(r), NEW l, Moves(r, l), l \notin Waiting
    PROVE  /\ num' \in [Requests -> 0..Numbers] /\ mine' \in [Requests -> 0..MaxDraws]
           /\ answer' \in [Requests -> 0..MaxDraws] /\ shared' \subseteq Requests
           /\ drawn' \in 0..MaxDraws
           /\ last' = Nth(drawn)' /\ Drew'
           /\ num'[r] = 0
           /\ \A q \in Requests \ {r} : /\ num'[q] = num[q] /\ mine'[q] = mine[q]
                                        /\ answer'[q] = answer[q]
                                        /\ q \in shared' <=> q \in shared
<1>1. /\ num' \in [Requests -> 0..Numbers] /\ mine' \in [Requests -> 0..MaxDraws]
      /\ answer' \in [Requests -> 0..MaxDraws] /\ shared' \subseteq Requests
      /\ drawn' \in 0..MaxDraws /\ last' = Nth(drawn)' /\ drawn' = drawn
  BY Sizes DEF TableOK, TableTypes, Forgets, draws, Nth
<1>2. /\ num'[r] = 0
      /\ \A q \in Requests \ {r} : /\ num'[q] = num[q] /\ mine'[q] = mine[q]
                                   /\ answer'[q] = answer[q]
                                   /\ q \in shared' <=> q \in shared
  BY DEF TableOK, TableTypes, Forgets
<1>3. pc'[r] \notin Waiting /\ \A q \in Requests \ {r} : pc'[q] = pc[q]
  BY DEF Moves
<1>4. Drew'
  <2> SUFFICES ASSUME NEW q \in Requests
               PROVE  /\ pc'[q] \in Waiting <=> num'[q] # 0
                      /\ num'[q] # 0 => mine'[q] \in 1..drawn' /\ num'[q] = Nth(mine'[q])
                      /\ \A p \in Requests \ {q} : num'[p] = num'[q] /\ num'[q] # 0 => q \in shared'
    BY DEF Drew, Nth
  <2>1. CASE q = r
    BY <1>2, <1>3, <2>1
  <2>2. CASE q # r
    BY <1>1, <1>2, <1>3, <2>2 DEF TableOK, Drew
  <2> QED BY <2>1, <2>2
<1> QED BY <1>1, <1>2, <1>4

\* A request that is over frees its number.
LEMMA EndKeeps ==
    ASSUME CInv, TableOK, AnswerIsOwn, Served, NEW r \in Requests, Ends(r),
           UNCHANGED <<writer, loop>>
    PROVE  TableOK' /\ AnswerIsOwn' /\ Served'
<1>1. /\ pending' = Pop(r) /\ fut' = [fut EXCEPT ![r] = "none"] /\ Forgets(r)
      /\ on' = [on EXCEPT ![r] = 0] /\ tries' = [tries EXCEPT ![r] = 1]
      /\ wrote' = [wrote EXCEPT ![r] = Unwritten]
      /\ Moves(r, "idle") /\ "idle" \notin Waiting
  BY GotoMoves DEF Ends, Waiting
<1>2. /\ num' \in [Requests -> 0..Numbers] /\ mine' \in [Requests -> 0..MaxDraws]
      /\ answer' \in [Requests -> 0..MaxDraws] /\ shared' \subseteq Requests
      /\ drawn' \in 0..MaxDraws
      /\ last' = Nth(drawn)' /\ Drew'
      /\ num'[r] = 0
      /\ \A q \in Requests \ {r} : /\ num'[q] = num[q] /\ mine'[q] = mine[q]
                                   /\ answer'[q] = answer[q]
                                   /\ q \in shared' <=> q \in shared
  BY <1>1, ForgetKeeps
<1>3. \A n \in 1..Numbers : pending'[n] = IF n = num[r] THEN Nobody ELSE pending[n]
  BY <1>1 DEF Pop, TableOK, TableTypes
<1>4. /\ fut'[r] = "none" /\ pc'[r] \notin Waiting
      /\ \A q \in Requests \ {r} : fut'[q] = fut[q] /\ wrote'[q] = wrote[q] /\ pc'[q] = pc[q]
  BY <1>1 DEF TableOK, TableTypes, CInv, Types, Moves
<1>5. TableTypes'
  <2>1. /\ pending' \in [1..Numbers -> Requests \cup {Nobody}]
        /\ fut' \in [Requests -> {"none", "lost", "given"}]
    BY <1>1 DEF TableOK, TableTypes, Pop
  <2>2. tries' \in [Requests -> 1..2] /\ on' \in [Requests -> 0..MaxConns]
    BY <1>1, Sizes DEF TableOK, TableTypes
  <2> QED BY <1>2, <2>1, <2>2 DEF TableTypes
<1>6. Latest'
  <2> SUFFICES ASSUME NEW n \in 1..Numbers, pending'[n] # Nobody
               PROVE  /\ num'[pending'[n]] = n
                      /\ \A d \in 1..drawn' : Nth(d) = n => d <= mine'[pending'[n]]
    BY DEF Latest, Nth
  <2>1. n # num[r] /\ pending'[n] = pending[n] /\ pending[n] \in Requests /\ num[pending[n]] = n
        /\ \A d \in 1..drawn : Nth(d) = n => d <= mine[pending[n]]
    BY <1>3 DEF TableOK, TableTypes, Latest
  <2>2. pending[n] # r /\ drawn' = drawn
    BY <1>1, <2>1 DEF Forgets, draws
  <2> QED BY <1>2, <2>1, <2>2
<1>7. AnswerIsOwn'
  BY <1>2, <1>4 DEF AnswerIsOwn
<1>8. Served'
  <2> SUFFICES ASSUME NEW q \in Requests \ shared', pc'[q] \in Waiting, fut'[q] = "none"
               PROVE  /\ pending'[num'[q]] = q /\ loop # 0 /\ loop = writer
                      /\ pc'[q] # "queue" => wrote'[q][loop] = 1
    BY DEF Served
  <2>1. q # r /\ pc[q] \in Waiting /\ fut[q] = "none" /\ num'[q] = num[q] /\ wrote'[q] = wrote[q]
        /\ q \notin shared /\ pc'[q] = pc[q]
    BY <1>2, <1>4
  <2>2. /\ pending[num[q]] = q /\ loop # 0 /\ loop = writer
        /\ pc[q] # "queue" => wrote[q][loop] = 1
    BY <2>1 DEF Served
  <2>3. num[q] # 0 /\ num[q] \in 0..Numbers
    BY <2>1 DEF TableOK, TableTypes, Drew
  <2>4. num[q] # num[r]
    BY <2>1, <2>3 DEF TableOK, Drew
  <2> QED BY <1>3, <2>1, <2>2, <2>3, <2>4, Sizes
<1> QED BY <1>2, <1>5, <1>6, <1>7, <1>8 DEF TableOK

\* The first attempt has failed: nobody is left in the table.
LEMMA FailKeeps ==
    ASSUME CInv, TableOK, AnswerIsOwn, Served, NEW r \in Requests, Goto(r, "again"),
           pending' = NobodyPending, fut' = [Rejected EXCEPT ![r] = "none"],
           Forgets(r), tries' = [tries EXCEPT ![r] = 2], UNCHANGED on
    PROVE  TableOK' /\ AnswerIsOwn' /\ Served'
<1>1. Moves(r, "again") /\ "again" \notin Waiting
  BY GotoMoves DEF Waiting
<1>2. /\ num' \in [Requests -> 0..Numbers] /\ mine' \in [Requests -> 0..MaxDraws]
      /\ answer' \in [Requests -> 0..MaxDraws] /\ shared' \subseteq Requests
      /\ drawn' \in 0..MaxDraws
      /\ last' = Nth(drawn)' /\ Drew'
      /\ num'[r] = 0
      /\ \A q \in Requests \ {r} : /\ num'[q] = num[q] /\ mine'[q] = mine[q]
                                   /\ answer'[q] = answer[q]
                                   /\ q \in shared' <=> q \in shared
  BY <1>1, ForgetKeeps
<1>3. /\ fut'[r] = "none" /\ pc'[r] \notin Waiting
      /\ \A q \in Requests \ {r} : fut'[q] = Rejected[q] /\ pc'[q] = pc[q]
  BY <1>1, RejectedType DEF Moves
<1>4. TableTypes'
  <2>1. fut' \in [Requests -> {"none", "lost", "given"}]
        /\ pending' \in [1..Numbers -> Requests \cup {Nobody}]
    BY RejectedType
  <2>2. tries' \in [Requests -> 1..2] /\ on' \in [Requests -> 0..MaxConns]
    BY DEF TableOK, TableTypes
  <2> QED BY <1>2, <2>1, <2>2 DEF TableTypes
<1>5. Latest'
  BY RejectedType DEF Latest
<1>6. AnswerIsOwn'
  BY <1>2, <1>3, RejectedType DEF AnswerIsOwn
<1>7. Served'
  <2> SUFFICES ASSUME NEW q \in Requests \ shared', pc'[q] \in Waiting, fut'[q] = "none"
               PROVE  FALSE
    BY DEF Served
  <2>1. q # r /\ q \in Requests \ shared /\ pc[q] \in Waiting /\ Rejected[q] = "none"
    BY <1>2, <1>3
  <2> QED BY <2>1, RejectedIsOver
<1> QED BY <1>2, <1>4, <1>5, <1>6, <1>7 DEF TableOK

\* A number is drawn, for r or, if r gives it up at once, for nobody.
LEMMA DrawKeeps ==
    ASSUME TableOK, noisy \in Nat, NEW r \in Requests, num[r] = 0, Draws, NEW l, Moves(r, l),
           NEW who \in {r, Nobody}, pending' = [pending EXCEPT ![NextNumber] = who],
           IF who = r THEN /\ l \in Waiting
                           /\ num' = [num EXCEPT ![r] = NextNumber]
                           /\ mine' = [mine EXCEPT ![r] = drawn + 1]
                           /\ shared' = shared \cup Same \cup (IF Same = {} THEN {} ELSE {r})
           ELSE l \notin Waiting /\ UNCHANGED <<num, mine>> /\ shared' = shared \cup Same
    PROVE  /\ drawn' = drawn + 1 /\ drawn' \in 0..MaxDraws
           /\ last' = Nth(drawn)' /\ Drew' /\ Latest'
           /\ pending' \in [1..Numbers -> Requests \cup {Nobody}]
           /\ num' \in [Requests -> 0..Numbers] /\ mine' \in [Requests -> 0..MaxDraws]
           /\ shared' \subseteq Requests
           /\ \A q \in Requests \ {r} : num'[q] = num[q] /\ mine'[q] = mine[q]
           /\ \A q \in Requests \ shared' : q \notin shared /\ num[q] # NextNumber
<1> DEFINE N == NextNumber
           d == drawn + 1
<1>1. drawn \in Nat /\ N \in 1..Numbers /\ N = Nth(d) /\ last' = N /\ drawn' = d
  BY NextDraw DEF Draws
<1>2. d \in 1..MaxDraws /\ drawn' \in 0..MaxDraws
  <2>1. drawn + noisy < MaxDraws /\ drawn \in 0..MaxDraws
    BY DEF Draws, TableOK, TableTypes
  <2> QED BY <1>1, <2>1, Sizes
<1>3. last' = Nth(drawn)'
  BY <1>1 DEF Nth
<1>4. Same \subseteq Requests /\ \A q \in Requests : q \in Same <=> num[q] = N
  BY DEF Same
<1> HIDE DEF N, d
<1>5. /\ num' \in [Requests -> 0..Numbers] /\ mine' \in [Requests -> 0..MaxDraws]
      /\ shared' \subseteq Requests
      /\ pending' \in [1..Numbers -> Requests \cup {Nobody}]
  <2>1. N \in 0..Numbers /\ d \in 0..MaxDraws
    BY <1>1, <1>2, Sizes
  <2>2. /\ num' = num \/ num' = [num EXCEPT ![r] = N]
        /\ mine' = mine \/ mine' = [mine EXCEPT ![r] = d]
        /\ pending' = [pending EXCEPT ![N] = who]
    BY DEF N, d
  <2>3. num' \in [Requests -> 0..Numbers] /\ mine' \in [Requests -> 0..MaxDraws]
    <3>1. num \in [Requests -> 0..Numbers] /\ mine \in [Requests -> 0..MaxDraws]
      BY DEF TableOK, TableTypes
    <3> QED BY ONLY r \in Requests, <2>1, <2>2, <3>1
  <2>4. pending' \in [1..Numbers -> Requests \cup {Nobody}]
    <3>1. pending \in [1..Numbers -> Requests \cup {Nobody}] /\ who \in Requests \cup {Nobody}
      BY DEF TableOK, TableTypes
    <3> QED BY ONLY <2>2, <3>1
  <2>5. shared' \subseteq Requests
    BY <1>4 DEF TableOK, TableTypes
  <2> QED BY <2>3, <2>4, <2>5
<1>6. /\ \A q \in Requests \ {r} : num'[q] = num[q] /\ mine'[q] = mine[q]
      /\ num'[r] = (IF who = r THEN N ELSE 0)
      /\ who = r => mine'[r] = d
      /\ \A q \in Requests \ shared' : q \notin shared /\ num[q] # N
  BY <1>4 DEF TableOK, TableTypes, N, d
<1>7. Drew'
  <2> SUFFICES ASSUME NEW q \in Requests
               PROVE  /\ pc'[q] \in Waiting <=> num'[q] # 0
                      /\ num'[q] # 0 => mine'[q] \in 1..drawn' /\ num'[q] = Nth(mine'[q])
                      /\ \A p \in Requests \ {q} : num'[p] = num'[q] /\ num'[q] # 0 => q \in shared'
    BY DEF Drew, Nth
  <2>1. CASE q = r
    <3>1. pc'[q] \in Waiting <=> num'[q] # 0
      <4>1. N # 0 /\ (who = r <=> l \in Waiting) /\ pc'[r] = l
        BY <1>1, Sizes DEF Moves
      <4> QED BY <1>6, <2>1, <4>1
    <3>2. num'[q] # 0 => mine'[q] \in 1..drawn' /\ num'[q] = Nth(mine'[q])
      <4>1. d \in 1..drawn'
        BY <1>1, <1>2
      <4> QED BY <1>1, <1>6, <2>1, <4>1
    <3>3. ASSUME NEW p \in Requests \ {q}, num'[p] = num'[q], num'[q] # 0 PROVE q \in shared'
      <4>1. who = r /\ num[p] = N
        BY <1>6, <2>1, <3>3
      <4>2. Same # {}
        BY <1>4, <4>1
      <4> QED BY <2>1, <4>1, <4>2
    <3> QED BY <3>1, <3>2, <3>3
  <2>2. CASE q # r
    <3>1. pc'[q] \in Waiting <=> num'[q] # 0
      BY <1>6, <2>2 DEF TableOK, Drew, Moves
    <3>2. num'[q] # 0 => mine'[q] \in 1..drawn' /\ num'[q] = Nth(mine'[q])
      <4>1. num[q] # 0 => mine[q] \in 1..drawn /\ num[q] = Nth(mine[q])
        BY DEF TableOK, Drew
      <4>2. mine[q] \in 1..drawn => mine[q] \in 1..drawn'
        BY <1>1 DEF d
      <4> QED BY <1>6, <2>2, <4>1, <4>2
    <3>3. ASSUME NEW p \in Requests \ {q}, num'[p] = num'[q], num'[q] # 0 PROVE q \in shared'
      <4>1. CASE p = r
        <5>1. num[q] = N
          BY <1>6, <2>2, <3>3, <4>1
        <5> QED BY <1>6, <5>1
      <4>2. CASE p # r
        <5>1. num[p] = num[q] /\ num[q] # 0
          BY <1>6, <2>2, <3>3, <4>2
        <5>2. q \in shared
          BY <5>1 DEF TableOK, Drew
        <5> QED BY <1>6, <5>2
      <4> QED BY <4>1, <4>2
    <3> QED BY <3>1, <3>2, <3>3
  <2> QED BY <2>1, <2>2
<1>8. /\ pending'[N] = who
      /\ \A n \in 1..Numbers : n # N => pending'[n] = pending[n]
  BY <1>1 DEF TableOK, TableTypes, N
<1>9. Latest'
  <2> SUFFICES ASSUME NEW n \in 1..Numbers, pending'[n] # Nobody
               PROVE  /\ num'[pending'[n]] = n
                      /\ \A e \in 1..drawn' : Nth(e) = n => e <= mine'[pending'[n]]
    BY DEF Latest, Nth
  <2>1. CASE n = N
    <3>1. who = r /\ pending'[n] = r /\ num'[r] = N /\ mine'[r] = d
      BY <1>6, <1>8, <2>1
    <3>2. \A e \in 1..drawn' : e <= d
      BY <1>1, <1>2
    <3> QED BY <2>1, <3>1, <3>2
  <2>2. CASE n # N
    <3>1. pending'[n] = pending[n] /\ pending[n] \in Requests /\ num[pending[n]] = n
          /\ \A e \in 1..drawn : Nth(e) = n => e <= mine[pending[n]]
      BY <1>8, <2>2 DEF TableOK, TableTypes, Latest
    <3>2. pending[n] # r
      BY <3>1
    <3>3. ASSUME NEW e \in 1..drawn', Nth(e) = n PROVE e \in 1..drawn
      <4>1. e # d
        BY <1>1, <2>2, <3>3
      <4> QED BY <1>1, <4>1 DEF d
    <3> QED BY <1>6, <3>1, <3>2, <3>3
  <2> QED BY <2>1, <2>2
<1> QED BY <1>1, <1>2, <1>3, <1>5, <1>6, <1>7, <1>9 DEF N, d

\* What Registers and Writes do to a request and to the table.
LEMMA RegistersTable ==
    ASSUME CInv, TableOK, NEW r \in Requests, NEW k \in Conns, Registers(r, k)
    PROVE  /\ UNCHANGED <<answer, tries>>
           /\ fut' = [fut EXCEPT ![r] = "none"]
           /\ on' \in [Requests -> 0..MaxConns]
           /\ \E l \in Waiting : Moves(r, l) /\ (l # "queue" => wrote' = [wrote EXCEPT ![r][k] = @ + 1])
           /\ \A q \in Requests \ {r} : wrote'[q] = wrote[q]
<1>1. on' = on \/ on' = [on EXCEPT ![r] = k]
  BY DEF Registers, Writes
<1>2. k \in 0..MaxConns
  BY Bounds DEF Conns
<1>3. on' \in [Requests -> 0..MaxConns]
  BY <1>1, <1>2 DEF TableOK, TableTypes
<1>4. PICK l \in Waiting : /\ Goto(r, l)
                           /\ \/ wrote' = wrote /\ l = "queue"
                              \/ wrote' = [wrote EXCEPT ![r][k] = @ + 1] /\ l \in {"drain", "wait"}
  BY RegistersWriting DEF Writing
<1>5. Moves(r, l) /\ (l # "queue" => wrote' = [wrote EXCEPT ![r][k] = @ + 1])
  BY <1>4, GotoMoves
<1>6. \A q \in Requests \ {r} : wrote'[q] = wrote[q]
  BY <1>4 DEF CInv, Types
<1> QED BY <1>3, <1>5, <1>6 DEF Registers

\* A request that begins over connection k, the one in use afterwards.
LEMMA RegisterKeeps ==
    ASSUME CInv, CInv', TableOK, AnswerIsOwn, Served, noisy \in Nat,
           NEW r \in Requests, pc[r] \notin Waiting,
           NEW k \in Conns, Registers(r, k), writer' = k, loop' = k,
           writer = 0 \/ UNCHANGED <<writer, loop>>
    PROVE  TableOK' /\ AnswerIsOwn' /\ Served' /\ drawn' = drawn + 1
<1>1. /\ UNCHANGED <<answer, tries>>
      /\ fut' = [fut EXCEPT ![r] = "none"]
      /\ on' \in [Requests -> 0..MaxConns]
      /\ \A q \in Requests \ {r} : wrote'[q] = wrote[q]
  BY RegistersTable
<1>2. PICK l \in Waiting : Moves(r, l) /\ (l # "queue" => wrote' = [wrote EXCEPT ![r][k] = @ + 1])
  BY RegistersTable
<1>3. num[r] = 0
  BY DEF TableOK, Drew
<1>4. PICK N : N = NextNumber
  OBVIOUS
<1>5. N \in 1..Numbers /\ drawn \in Nat
  BY <1>4, NextDraw
<1>6. /\ Draws
      /\ pending' = [pending EXCEPT ![N] = r]
      /\ num' = [num EXCEPT ![r] = N]
      /\ mine' = [mine EXCEPT ![r] = drawn + 1]
      /\ shared' = shared \cup Same \cup (IF Same = {} THEN {} ELSE {r})
  BY <1>4 DEF Registers
<1>7. /\ drawn' = drawn + 1 /\ drawn' \in 0..MaxDraws
      /\ last' = Nth(drawn)' /\ Drew' /\ Latest'
      /\ pending' \in [1..Numbers -> Requests \cup {Nobody}]
      /\ num' \in [Requests -> 0..Numbers] /\ mine' \in [Requests -> 0..MaxDraws]
      /\ shared' \subseteq Requests
      /\ \A q \in Requests \ {r} : num'[q] = num[q] /\ mine'[q] = mine[q]
      /\ \A q \in Requests \ shared' : q \notin shared /\ num[q] # N
  BY <1>2, <1>3, <1>4, <1>6, DrawKeeps
<1>8. fut'[r] = "none" /\ num'[r] = N
      /\ \A q \in Requests \ {r} : fut'[q] = fut[q]
  BY <1>1, <1>6 DEF TableOK, TableTypes
<1>9. TableTypes'
  <2>1. fut' \in [Requests -> {"none", "lost", "given"}]
        /\ answer' \in [Requests -> 0..MaxDraws] /\ tries' \in [Requests -> 1..2]
    BY <1>1 DEF TableOK, TableTypes
  <2> QED BY <1>1, <1>7, <2>1 DEF TableTypes
<1>10. AnswerIsOwn'
  BY <1>1, <1>7, <1>8 DEF AnswerIsOwn
<1>11. /\ pending'[N] = r
       /\ \A n \in 1..Numbers : n # N => pending'[n] = pending[n]
  BY <1>5, <1>6 DEF TableOK, TableTypes
<1>12. Served'
  <2> SUFFICES ASSUME NEW q \in Requests \ shared', pc'[q] \in Waiting, fut'[q] = "none"
               PROVE  /\ pending'[num'[q]] = q /\ loop' # 0 /\ loop' = writer'
                      /\ pc'[q] # "queue" => wrote'[q][loop'] = 1
    BY DEF Served
  <2>0. k # 0
    BY DEF Conns
  <2>1. CASE q = r
    <3>1. wrote \in [Requests -> [Conns -> Nat]]
      BY DEF CInv, Types
    <3>2. pc'[r] # "queue" => wrote'[r][k] # 0
      BY <1>2, <3>1 DEF Moves
    <3>3. wrote'[r][k] # 0 => wrote'[r][k] = 1
      BY DEF CInv, WrittenToClosed
    <3> QED BY <1>8, <1>11, <2>0, <2>1, <3>2, <3>3
  <2>2. CASE q # r
    <3>1. /\ pc'[q] = pc[q] /\ fut'[q] = fut[q] /\ num'[q] = num[q] /\ wrote'[q] = wrote[q]
      BY <1>1, <1>2, <1>7, <1>8, <2>2 DEF Moves
    <3>2. q \notin shared /\ num[q] # N
      BY <1>7
    <3>3. /\ pending[num[q]] = q /\ loop # 0 /\ loop = writer
          /\ pc[q] # "queue" => wrote[q][loop] = 1
      BY <3>1, <3>2 DEF Served
    <3>4. num[q] \in 1..Numbers
      BY <3>1, Sizes DEF TableOK, TableTypes, Drew
    <3> QED BY <1>11, <2>0, <3>1, <3>2, <3>3, <3>4
  <2> QED BY <2>1, <2>2
<1> QED BY <1>7, <1>9, <1>10, <1>12 DEF TableOK

-----------------------------------------------------------------------------
(* The connections *)

WireTypes ==
    /\ got \in [Conns -> SUBSET Messages]
    /\ sent \in [Conns -> Seq(Messages)]
    /\ buf \in [Conns -> Seq(Cells(Messages))]
    /\ stream \in [Conns -> Seq(Cells(Messages))]
    /\ owed \in [Conns -> Nat]

\* of d draws, one was for this message, or it comes from noise
Known(m, d) ==
    \/ m.of = 0
    \/ m.of \in 1..d /\ m.num = Nth(m.of)

Wires ==
    /\ WireTypes
    /\ \A k \in Conns : /\ \A m \in got[k] : Known(m, drawn)
                        /\ \A i \in 1..Len(sent[k]) : Known(sent[k][i], drawn)
                        /\ Found(Messages, buf[k] \o stream[k], sent[k], owed[k])

\* A message and its fields.
LEMMA MsgFields ==
    /\ \A n, d : Msg(n, d).num = n /\ Msg(n, d).of = d
    /\ \A n \in 1..Numbers, d \in Nat : Msg(n, d) \in Messages
BY DEF Msg, Messages

\* Nothing is to be found in nothing.
LEMMA FoundNothing == Found(Messages, <<>> \o <<>>, <<>>, 0)
<1>1. <<>> \in Seq(Cells(Messages)) /\ Len(<<>>) < 2 /\ Len(<<>>) <= 1
  OBVIOUS
<1>2. Packets(<<>>) = <<>> /\ Kept(<<>>) = <<>>
  BY <1>1, UnpackShort
<1>3. <<>> \o <<>> = <<>>
  BY <1>1, ConcatEmptySeq
<1> QED BY <1>1, <1>2, <1>3, Zenon DEF Found

\* What is known stays known when numbers are drawn.
LEMMA KnownMore ==
    ASSUME drawn \in Nat, drawn' \in Nat, drawn <= drawn', NEW m, Known(m, drawn)
    PROVE  Known(m, drawn')
BY DEF Known

Empty(k) == got[k] = {} /\ sent[k] = <<>> /\ buf[k] = <<>> /\ stream[k] = <<>> /\ owed[k] = 0

\* What most steps do to connection k: empty it, or nothing, except that the
\* vehicle has less to answer, or more.
Quiet(k) ==
    \/ Empty(k)'
    \/ /\ \A m \in got'[k] : m \in got[k] \/ Known(m, drawn')
       /\ sent'[k] = sent[k] /\ buf'[k] = buf[k] /\ stream'[k] = stream[k]
       /\ owed'[k] = owed[k]

LEMMA QuietKeeps ==
    ASSUME Wires, WireTypes', drawn \in Nat, drawn' \in Nat, drawn <= drawn',
           \A k \in Conns : Quiet(k)
    PROVE  Wires'
<1> SUFFICES ASSUME NEW k \in Conns
             PROVE  /\ \A m \in got'[k] : Known(m, drawn')
                    /\ \A i \in 1..Len(sent'[k]) : Known(sent'[k][i], drawn')
                    /\ Found(Messages, buf'[k] \o stream'[k], sent'[k], owed'[k])
  BY DEF Wires
<1>1. CASE Empty(k)'
  <2>1. 1..Len(<<>>) = {}
    OBVIOUS
  <2> QED BY <1>1, <2>1, FoundNothing DEF Empty
<1>2. CASE ~Empty(k)'
  <2>1. /\ \A m \in got'[k] : m \in got[k] \/ Known(m, drawn')
        /\ sent'[k] = sent[k] /\ buf'[k] = buf[k] /\ stream'[k] = stream[k]
        /\ owed'[k] = owed[k]
    BY <1>2 DEF Quiet
  <2>2. \A m : Known(m, drawn) => Known(m, drawn')
    BY KnownMore
  <2>3. /\ \A m \in got[k] : Known(m, drawn)
        /\ \A i \in 1..Len(sent[k]) : Known(sent[k][i], drawn)
        /\ Found(Messages, buf[k] \o stream[k], sent[k], owed[k])
    BY DEF Wires
  <2>4. \A m \in got'[k] : Known(m, drawn')
    BY ONLY <2>1, <2>2, <2>3
  <2>5. \A i \in 1..Len(sent'[k]) : Known(sent'[k][i], drawn')
    BY ONLY <2>1, <2>2, <2>3
  <2> QED BY <2>1, <2>3, <2>4, <2>5
<1> QED BY <1>1, <1>2

LEMMA StillWires ==
    ASSUME Wires, TableOK, UNCHANGED wires, drawn' \in Nat, drawn <= drawn'
    PROVE  Wires'
<1>1. WireTypes'
  BY DEF Wires, WireTypes, wires
<1>2. \A k \in Conns : Quiet(k)
  BY DEF Quiet, wires
<1>3. drawn \in Nat
  BY NextDraw
<1> QED BY <1>1, <1>2, <1>3, QuietKeeps

\* One connection is emptied.
LEMMA SilenceKeeps ==
    ASSUME Wires, TableOK, drawn' \in Nat, drawn <= drawn', NEW c \in Conns, Silence(c)
    PROVE  Wires'
<1>1. WireTypes'
  BY DEF Wires, WireTypes, Silence
<1>2. \A k \in Conns : Quiet(k)
  <2>1. Empty(c)'
    BY DEF Wires, WireTypes, Silence, Empty
  <2>2. \A k \in Conns : k # c => /\ got'[k] = got[k] /\ sent'[k] = sent[k]
                                  /\ buf'[k] = buf[k] /\ stream'[k] = stream[k]
                                  /\ owed'[k] = owed[k]
    BY DEF Wires, WireTypes, Silence
  <2> QED BY <2>1, <2>2 DEF Quiet
<1>3. drawn \in Nat
  BY NextDraw
<1> QED BY <1>1, <1>2, <1>3, QuietKeeps

\* _close_silent, as far as connections are concerned.
LEMMA ClosingKeeps ==
    ASSUME CInv, Wires, TableOK, drawn' = drawn,
           IF writer = 0 THEN UNCHANGED <<link, wires>>
           ELSE link' = [link EXCEPT ![writer] = "closed"] /\ Silence(writer)
    PROVE  Wires'
<1>1. drawn \in Nat
  BY NextDraw
<1>2. CASE writer = 0
  BY <1>1, <1>2, StillWires
<1>3. CASE writer # 0
  <2>1. writer \in Conns
    BY <1>3, Bounds DEF CInv, Types, Conns
  <2> QED BY <1>1, <1>3, <2>1, SilenceKeeps
<1> QED BY <1>2, <1>3

\* A request is written to connection k.
LEMMA WriteWires ==
    ASSUME Wires, TableOK, drawn' \in Nat, drawn <= drawn',
           NEW k \in Conns, NEW m \in Messages, Known(m, drawn'),
           got' = (IF link[k] = "eof" THEN got ELSE [got EXCEPT ![k] = @ \cup {m}]),
           UNCHANGED <<stream, buf, sent, owed>>
    PROVE  Wires'
<1>1. WireTypes'
  BY DEF Wires, WireTypes
<1>2. \A j \in Conns : Quiet(j)
  BY DEF Wires, WireTypes, Quiet
<1>3. drawn \in Nat
  BY NextDraw
<1> QED BY <1>1, <1>2, <1>3, QuietKeeps

\* Something arrives on connection k.
LEMMA BringsKeeps ==
    ASSUME Wires, TableOK, UNCHANGED <<drawn, buf>>,
           NEW k \in Conns, NEW cells, NEW ms, NEW l \in Nat, Piece(Messages, cells, ms, l),
           \A i \in 1..Len(ms) : Known(ms[i], drawn),
           Brings(k, cells, ms, l),
           got' \in [Conns -> SUBSET Messages], \A j \in Conns : got'[j] \subseteq got[j]
    PROVE  Wires'
<1>0. /\ WireTypes
      /\ cells \in Seq(Cells(Messages)) /\ ms \in Seq(Messages) /\ Len(cells) \in Nat
  BY PieceCells DEF Wires
<1>1. PICK b, t, S, o : b = buf[k] /\ t = stream[k] /\ S = sent[k] /\ o = owed[k]
  OBVIOUS
<1>2. /\ b \in Seq(Cells(Messages)) /\ t \in Seq(Cells(Messages)) /\ S \in Seq(Messages)
      /\ o \in Nat
  BY <1>0, <1>1 DEF WireTypes
<1>3. Found(Messages, b \o t, S, o) /\ \A i \in 1..Len(S) : Known(S[i], drawn)
  BY <1>1 DEF Wires
<1>4. PICK u, R, p : /\ u = t \o cells
                     /\ R = (IF o = 0 THEN S \o ms ELSE S)
                     /\ p = (IF o = 0 THEN l ELSE Max({0, o - Len(cells)}))
  OBVIOUS
<1>5. u \in Seq(Cells(Messages)) /\ b \o u = (b \o t) \o cells /\ b \o t \in Seq(Cells(Messages))
  <2>0. PICK C : C = Cells(Messages) /\ b \in Seq(C) /\ t \in Seq(C) /\ cells \in Seq(C)
    BY <1>0, <1>2
  <2>1. b \o (t \o cells) = (b \o t) \o cells
    BY ONLY <2>0, ConcatAssociative
  <2>2. t \o cells \in Seq(Cells(Messages)) /\ b \o t \in Seq(Cells(Messages))
    <3>1. t \o cells \in Seq(C) /\ b \o t \in Seq(C)
      BY ONLY <2>0, ConcatProperties, Zenon
    <3> QED BY <2>0, <3>1
  <2> QED BY <1>4, <2>1, <2>2
<1>6. Found(Messages, b \o u, R, p)
  <2>1. PICK w : w = b \o t
    OBVIOUS
  <2>2. w \in Seq(Cells(Messages)) /\ Found(Messages, w, S, o)
    BY <1>3, <1>5, <2>1
  <2>3. /\ o = 0 => Found(Messages, w \o cells, S \o ms, l)
        /\ o # 0 => Found(Messages, w \o cells, S, Max({0, o - Len(cells)}))
    BY ONLY l \in Nat, Piece(Messages, cells, ms, l), <1>2, <2>2, FoundMore, Zenon
  <2> QED BY <1>4, <1>5, <2>1, <2>3
<1>7. p \in Nat
  <2>1. CASE o = 0
    BY <1>4, <2>1
  <2>2. CASE o # 0
    <3> DEFINE two == {0, o - Len(cells)}
    <3>1. \E x \in two : \A y \in two : x >= y
      <4>1. CASE o > Len(cells)
        BY <1>0, <1>2, <4>1
      <4>2. CASE ~(o > Len(cells))
        BY <1>0, <1>2, <4>2
      <4> QED BY <4>1, <4>2
    <3>2. Max(two) \in two /\ \A y \in two : Max(two) >= y
      BY <3>1 DEF Max
    <3> QED BY <1>0, <1>2, <1>4, <2>2, <3>2
  <2> QED BY <2>1, <2>2
<1>8. R \in Seq(Messages) /\ \A i \in 1..Len(R) : Known(R[i], drawn)
  <2>1. CASE o = 0
    <3>1. R = S \o ms
      BY <1>4, <2>1
    <3>2. PICK n : n = Len(S)
      OBVIOUS
    <3>3. PICK q : q = Len(ms)
      OBVIOUS
    <3>4. /\ R \in Seq(Messages) /\ Len(R) = n + q /\ n \in Nat /\ q \in Nat
          /\ \A i \in 1..n : R[i] = S[i]
          /\ \A i \in 1..q : R[n + i] = ms[i]
      <4>1. /\ S \o ms \in Seq(Messages) /\ Len(S \o ms) = Len(S) + Len(ms)
            /\ \A i \in 1..Len(S) : (S \o ms)[i] = S[i]
            /\ \A i \in 1..Len(ms) : (S \o ms)[Len(S) + i] = ms[i]
        BY ONLY <1>0, <1>2
      <4> QED BY <1>0, <1>2, <3>1, <3>2, <3>3, <4>1
    <3>5. ASSUME NEW i \in 1..Len(R) PROVE Known(R[i], drawn)
      <4>1. i \in 1..n \/ (i - n \in 1..q /\ i = n + (i - n))
        BY <3>4
      <4>2. CASE i \in 1..n
        BY <1>3, <3>2, <3>4, <4>2
      <4>3. ASSUME NEW e \in 1..q, i = n + e PROVE Known(R[i], drawn)
        BY <3>3, <3>4, <4>3
      <4> QED BY <4>1, <4>2, <4>3
    <3> QED BY <3>4, <3>5
  <2>2. CASE o # 0
    BY <1>2, <1>3, <1>4, <2>2
  <2> QED BY <2>1, <2>2
<1>9. /\ stream' = [stream EXCEPT ![k] = u]
      /\ sent' = (IF o = 0 THEN [sent EXCEPT ![k] = R] ELSE sent)
      /\ owed' = [owed EXCEPT ![k] = p]
  BY <1>0, <1>1, <1>4 DEF Brings, WireTypes
<1>10. /\ stream'[k] = u /\ sent'[k] = R /\ owed'[k] = p /\ buf'[k] = b
       /\ \A j \in Conns : j # k => /\ stream'[j] = stream[j] /\ sent'[j] = sent[j]
                                    /\ owed'[j] = owed[j] /\ buf'[j] = buf[j]
  BY <1>0, <1>1, <1>4, <1>9 DEF WireTypes
<1>11. WireTypes'
  <2>1. stream' \in [Conns -> Seq(Cells(Messages))]
    BY <1>0, <1>5, <1>9 DEF WireTypes
  <2>2. sent' \in [Conns -> Seq(Messages)]
    BY <1>0, <1>8, <1>9 DEF WireTypes
  <2>3. owed' \in [Conns -> Nat]
    BY <1>0, <1>7, <1>9 DEF WireTypes
  <2> QED BY <1>0, <2>1, <2>2, <2>3 DEF WireTypes
<1>12. ASSUME NEW j \in Conns
       PROVE  /\ \A m \in got'[j] : Known(m, drawn')
              /\ \A i \in 1..Len(sent'[j]) : Known(sent'[j][i], drawn')
              /\ Found(Messages, buf'[j] \o stream'[j], sent'[j], owed'[j])
  <2>1. \A m \in got'[j] : Known(m, drawn')
    BY DEF Wires
  <2>2. CASE j = k
    BY <1>6, <1>8, <1>10, <2>1, <2>2
  <2>3. CASE j # k
    BY <1>10, <2>1, <2>3 DEF Wires
  <2> QED BY <2>2, <2>3
<1> QED BY <1>11, <1>12 DEF Wires

\* The vehicle sends an answer.
LEMMA AnswersWires ==
    ASSUME Wires, TableOK, NEW k \in Conns, Answers(k)
    PROVE  Wires'
<1>1. PICK m \in got[k] : got' = [got EXCEPT ![k] = @ \ {m}] /\ Brings(k, Pack(m), <<m>>, 0)
  BY DEF Answers
<1>2. m \in Messages /\ Known(m, drawn) /\ UNCHANGED <<drawn, buf>>
  BY DEF Answers, Wires, WireTypes, table
<1>3. got' \in [Conns -> SUBSET Messages] /\ \A j \in Conns : got'[j] \subseteq got[j]
  BY <1>1 DEF Wires, WireTypes
<1>4. PICK ms, cells : ms = <<m>> /\ cells = Pack(m)
  OBVIOUS
<1>5. Piece(Messages, cells, ms, 0) /\ 0 \in Nat
  BY <1>2, <1>4 DEF Piece
<1>6. \A i \in 1..Len(ms) : Known(ms[i], drawn)
  <2>1. Len(ms) = 1 /\ ms[1] = m
    BY <1>4
  <2> QED BY <1>2, <2>1
<1>7. Brings(k, cells, ms, 0)
  BY <1>1, <1>4
<1> QED BY <1>2, <1>3, <1>5, <1>6, <1>7, BringsKeeps

\* Noise arrives.
LEMMA NoiseWires ==
    ASSUME Wires, TableOK, NEW k \in Conns, Noise(k)
    PROVE  Wires'
<1> DEFINE Arrives(cells, ms, l) ==
               /\ l \in Nat /\ Piece(Messages, cells, ms, l) /\ Brings(k, cells, ms, l)
               /\ \A i \in 1..Len(ms) : Known(ms[i], drawn)
<1>1. \E cells, ms, l : Arrives(cells, ms, l)
  <2>1. ASSUME NEW cell \in {Junk, Start}, Brings(k, <<cell>>, <<>>, 0)
        PROVE  \E cells, ms, l : Arrives(cells, ms, l)
    <3>1. Piece(Messages, <<cell>>, <<>>, 0) /\ 0 \in Nat
      BY DEF Piece
    <3>2. \A i \in 1..Len(<<>>) : Known(<<>>[i], drawn)
      OBVIOUS
    <3> QED BY <2>1, <3>1, <3>2
  <2>2. ASSUME NEW n \in 1..Numbers, NEW l \in Lengths,
               Brings(k, <<Start, Header(Msg(n, 0), l)>>, <<Msg(n, 0)>>, l)
        PROVE  \E cells, ms, h : Arrives(cells, ms, h)
    <3>1. PICK m : m = Msg(n, 0)
      OBVIOUS
    <3>2. m \in Messages /\ Known(m, drawn) /\ l \in Nat
      BY <3>1, MsgFields, ClientAssumption DEF Known
    <3>3. PICK cells, ms : cells = <<Start, Header(m, l)>> /\ ms = <<m>>
      OBVIOUS
    <3>4. Piece(Messages, cells, ms, l)
      BY <3>2, <3>3 DEF Piece
    <3>6. Brings(k, cells, ms, l)
      BY <2>2, <3>1, <3>3
    <3>5. \A i \in 1..Len(ms) : Known(ms[i], drawn)
      <4>1. Len(ms) = 1 /\ ms[1] = m
        BY <3>3
      <4> QED BY <3>2, <4>1
    <3> QED BY <3>2, <3>4, <3>5, <3>6
  <2> HIDE DEF Arrives
  <2> QED BY <2>1, <2>2 DEF Noise
<1>2. UNCHANGED <<drawn, buf, got>>
  BY DEF Noise, table
<1>3. got' \in [Conns -> SUBSET Messages] /\ \A j \in Conns : got'[j] \subseteq got[j]
  BY <1>2 DEF Wires, WireTypes
<1> QED BY <1>1, <1>2, <1>3, BringsKeeps

\* Whatever a read returns, each packet goes to the request it answers.
LEMMA ReceiveKeeps ==
    ASSUME CInv, TableOK, AnswerIsOwn, Served, Wires, Receive
    PROVE  TableOK' /\ AnswerIsOwn' /\ Served' /\ Wires'
<1>1. PICK k \in Conns : k = loop /\ loop # 0
  <2>1. loop # 0 /\ loop = writer /\ writer \in 0..opened /\ opened \in 0..MaxConns
    BY DEF Receive, CInv, Types
  <2> QED BY <2>1, Bounds DEF Conns
<1> DEFINE Data(n) == buf[loop] \o SubSeq(stream[loop], 1, n)
           Nums(ps) == {ps[i].num : i \in DOMAIN ps}
           Given(nums) == {r \in Requests : \E m \in nums : pending[m] = r}
           Of(ps, r) == ps[Min({i \in DOMAIN ps : pending[ps[i].num] = r})].of
           Table(ps, nums, given) ==
               /\ pending' = [m \in DOMAIN pending |-> IF m \in nums THEN Nobody ELSE pending[m]]
               /\ fut' = [r \in Requests |-> IF r \in given THEN "given" ELSE fut[r]]
               /\ answer' = [r \in Requests |-> IF r \in given THEN Of(ps, r) ELSE answer[r]]
<1>a. PICK n \in 1..Len(stream[loop]) :
          /\ buf' = [buf EXCEPT ![loop] = Kept(Data(n))]
          /\ stream' = [stream EXCEPT ![loop] = SubSeq(@, n + 1, Len(@))]
          /\ sent' = [sent EXCEPT ![loop] = SubSeq(@, Len(Packets(Data(n))) + 1, Len(@))]
          /\ Table(Packets(Data(n)), Nums(Packets(Data(n))), Given(Nums(Packets(Data(n)))))
  BY DEF Receive
<1> HIDE DEF Table
<1>b. PICK data : data = Data(n)
  OBVIOUS
<1>c. PICK ps, nums, given : ps = Packets(data) /\ nums = Nums(ps) /\ given = Given(nums)
  OBVIOUS
<1>2. /\ n \in 1..Len(stream[k])
      /\ data = buf[k] \o SubSeq(stream[k], 1, n)
      /\ ps = Packets(data)
      /\ nums = {ps[i].num : i \in DOMAIN ps}
      /\ \A r \in Requests : r \in given <=> \E m \in nums : pending[m] = r
      /\ buf' = [buf EXCEPT ![k] = Kept(data)]
      /\ stream' = [stream EXCEPT ![k] = SubSeq(@, n + 1, Len(@))]
      /\ sent' = [sent EXCEPT ![k] = SubSeq(@, Len(ps) + 1, Len(@))]
  BY <1>1, <1>a, <1>b, <1>c
<1>d. Table(ps, nums, given)
  <2>1. Table(Packets(Data(n)), Nums(Packets(Data(n))), Given(Nums(Packets(Data(n)))))
    BY <1>a
  <2> HIDE DEF Data, Nums, Given
  <2> QED BY <1>b, <1>c, <2>1
<1>e. /\ pending' = [m \in DOMAIN pending |-> IF m \in nums THEN Nobody ELSE pending[m]]
      /\ fut' = [r \in Requests |-> IF r \in given THEN "given" ELSE fut[r]]
      /\ answer' = [r \in Requests |-> IF r \in given THEN Of(ps, r) ELSE answer[r]]
  BY <1>d DEF Table
<1> HIDE DEF Data, Nums, Given, Of
<1>3. /\ UNCHANGED <<last, drawn, num, mine, shared, tries, on, pc, got, owed, wrote>>
      /\ UNCHANGED <<loop, writer>>
  BY DEF Receive, conn, draws
<1>4. /\ WireTypes /\ buf[k] \in Seq(Cells(Messages)) /\ stream[k] \in Seq(Cells(Messages))
      /\ sent[k] \in Seq(Messages) /\ owed[k] \in Nat
      /\ \A i \in 1..Len(sent[k]) : Known(sent[k][i], drawn)
      /\ Found(Messages, buf[k] \o stream[k], sent[k], owed[k])
  BY DEF Wires, WireTypes
<1>5. PICK rest, s, o : /\ rest = SubSeq(stream[k], n + 1, Len(stream[k]))
                        /\ s = sent[k] /\ o = owed[k]
  OBVIOUS
<1>6. /\ data \in Seq(Cells(Messages)) /\ rest \in Seq(Cells(Messages))
      /\ data \o rest = buf[k] \o stream[k]
  <2>1. PICK t, head : t = stream[k] /\ head = SubSeq(t, 1, n)
    OBVIOUS
  <2>2. t \in Seq(Cells(Messages)) /\ n \in 1..Len(t) /\ Len(t) \in Nat
    BY <1>2, <1>4, <2>1
  <2>3. head \in Seq(Cells(Messages)) /\ rest \in Seq(Cells(Messages))
    <3>1. \A i \in 1..Len(t) : t[i] \in Cells(Messages)
      BY <2>2
    <3> QED BY <1>5, <2>1, <2>2, <3>1, SubSeqProperties
  <2>4. head \o rest = t
    <3>1. SubSeq(t, 1, n) \o SubSeq(t, n + 1, Len(t)) = SubSeq(t, 1, Len(t))
      BY <2>2, ConcatAdjacentSubSeq
    <3>2. SubSeq(t, 1, Len(t)) = t
      BY <2>2, SubSeqFull
    <3> QED BY <1>5, <2>1, <3>1, <3>2
  <2>5. data = buf[k] \o head
    BY <1>2, <2>1
  <2>6. PICK b : b = buf[k]
    OBVIOUS
  <2>7. b \in Seq(Cells(Messages))
    BY <1>4, <2>6
  <2>8. (b \o head) \o rest = b \o (head \o rest) /\ b \o head \in Seq(Cells(Messages))
    <3>1. (b \o head) \o rest = b \o (head \o rest)
      BY ONLY <2>3, <2>7, ConcatAssociative
    <3>2. b \o head \in Seq(Cells(Messages))
      BY ONLY <2>3, <2>7, ConcatProperties, Zenon
    <3> QED BY <3>1, <3>2
  <2> QED BY <2>1, <2>3, <2>4, <2>5, <2>6, <2>8
<1>7. PICK left : left = SubSeq(s, Len(ps) + 1, Len(s))
  OBVIOUS
<1>8. /\ ps \in Seq(Messages) /\ Len(ps) <= Len(s) /\ Len(ps) \in Nat
      /\ \A i \in 1..Len(ps) : ps[i] = s[i]
      /\ Kept(data) \in Seq(Cells(Messages))
      /\ Found(Messages, Kept(data) \o rest, left, o)
  <2>1. Found(Messages, data \o rest, s, o) /\ o \in Nat
    BY <1>4, <1>5, <1>6
  <2>2. /\ Packets(data) \in Seq(Messages) /\ Len(Packets(data)) <= Len(s)
        /\ \A i \in 1..Len(Packets(data)) : Packets(data)[i] = s[i]
        /\ Found(Messages, Kept(data) \o rest, SubSeq(s, Len(Packets(data)) + 1, Len(s)), o)
    BY ONLY <1>6, <2>1, FoundRead, Zenon
  <2>3. Kept(data) \in Seq(Cells(Messages))
    BY <1>6, UnpackTypes
  <2>4. ps = Packets(data)
    BY <1>2
  <2>5. ps \in Seq(Messages) => Len(ps) \in Nat
    OBVIOUS
  <2> QED BY ONLY <1>7, <2>2, <2>3, <2>4, <2>5, Zenon
<1>9. s \in Seq(Messages) /\ Len(s) \in Nat /\ \A i \in 1..Len(s) : Known(s[i], drawn)
  BY <1>4, <1>5
<1>10. \A i \in DOMAIN ps : ps[i] \in Messages /\ Known(ps[i], drawn)
  <2> SUFFICES ASSUME NEW i \in 1..Len(ps) PROVE ps[i] \in Messages /\ Known(ps[i], drawn)
    BY <1>8
  <2>1. i \in 1..Len(s)
    BY <1>8, <1>9
  <2> QED BY <1>8, <1>9, <2>1
<1>11. nums \subseteq 1..Numbers
  BY <1>2, <1>10 DEF Messages
<1>12. ASSUME NEW r \in Requests, r \in given
       PROVE  /\ fut'[r] = "given" /\ answer'[r] \in 0..MaxDraws
              /\ answer'[r] \in {mine[r], 0} \/ answer'[r] + Numbers <= mine[r]
  <2> DEFINE I == {i \in DOMAIN ps : pending[ps[i].num] = r}
  <2>0. DOMAIN ps = 1..Len(ps)
    BY <1>8
  <2>1. I \subseteq Nat /\ I # {}
    <3>1. PICK m0 \in nums : pending[m0] = r
      BY <1>2, <1>12
    <3>2. PICK i0 \in DOMAIN ps : m0 = ps[i0].num
      BY <1>2
    <3>3. i0 \in I
      BY <3>1, <3>2
    <3>4. \A i \in I : i \in 1..Len(ps)
      BY <2>0
    <3> QED BY <3>3, <3>4
  <2>2. PICK i : i = Min(I)
    OBVIOUS
  <2>3. i \in DOMAIN ps /\ pending[ps[i].num] = r
    <3>1. Min(I) \in I
      <4> HIDE DEF I
      <4> QED BY <2>1, Smallest
    <3> QED BY <2>2, <3>1
  <2>4. PICK m : m = ps[i]
    OBVIOUS
  <2>5. m \in Messages /\ Known(m, drawn) /\ pending[m.num] = r
    BY <1>10, <2>3, <2>4
  <2>6. answer'[r] = m.of /\ fut'[r] = "given"
    BY <1>e, <1>12, <2>2, <2>4 DEF Of
  <2>7. m.num \in 1..Numbers /\ m.of \in Nat
    BY <2>5 DEF Messages
  <2>8. /\ num[r] = m.num /\ num[r] # 0
        /\ \A d \in 1..drawn : Nth(d) = m.num => d <= mine[r]
    <3>1. pending[m.num] # Nobody
      BY <2>5, Sizes
    <3> QED BY <2>5, <2>7, <3>1 DEF TableOK, Latest
  <2>9. mine[r] \in 1..drawn /\ num[r] = Nth(mine[r]) /\ drawn \in 0..MaxDraws
    BY <2>8 DEF TableOK, TableTypes, Drew
  <2>10. CASE m.of = 0
    BY <2>6, <2>10, Sizes
  <2>11. CASE m.of # 0
    <3>1. m.of \in 1..drawn /\ m.num = Nth(m.of)
      BY <2>5, <2>11 DEF Known
    <3>2. m.of <= mine[r]
      BY <2>8, <3>1
    <3>3. PICK a, b : a = m.of /\ b = mine[r]
      OBVIOUS
    <3>4. a \in Nat \ {0} /\ b \in Nat /\ Nth(a) = Nth(b) /\ a <= b
      <4>1. Nth(a) = Nth(b) /\ a <= b
        BY ONLY <2>8, <2>9, <3>1, <3>2, <3>3, Zenon
      <4>2. a \in Nat \ {0} /\ b \in Nat
        BY ONLY <2>9, <3>1, <3>3, Sizes
      <4> QED BY <4>1, <4>2
    <3>5. a < b => a + Numbers <= b
      BY <3>4, RoundApart, Sizes
    <3>6. a = b \/ a + Numbers <= b
      BY <3>4, <3>5
    <3>7. a \in 0..MaxDraws
      BY <2>9, <3>1, <3>3, Sizes
    <3> QED BY <2>6, <3>3, <3>6, <3>7
  <2> QED BY <2>10, <2>11
<1>13. ASSUME NEW r \in Requests, r \notin given
       PROVE  fut'[r] = fut[r] /\ answer'[r] = answer[r]
  BY <1>e, <1>13
<1>14. \A m \in 1..Numbers : pending'[m] = IF m \in nums THEN Nobody ELSE pending[m]
  BY <1>e DEF TableOK, TableTypes
<1>15. TableOK'
  <2>1. pending' \in [1..Numbers -> Requests \cup {Nobody}]
    BY <1>e DEF TableOK, TableTypes
  <2>2. fut' \in [Requests -> {"none", "lost", "given"}]
    BY <1>e DEF TableOK, TableTypes
  <2>3. answer' \in [Requests -> 0..MaxDraws]
    <3>1. \A r \in Requests : answer'[r] \in 0..MaxDraws
      BY <1>12, <1>13 DEF TableOK, TableTypes
    <3>2. answer' = [r \in Requests |-> answer'[r]]
      BY <1>e
    <3> QED BY ONLY <3>1, <3>2
  <2>4. TableTypes'
    BY <1>3, <2>1, <2>2, <2>3 DEF TableOK, TableTypes
  <2>5. last' = Nth(drawn)' /\ Drew'
    BY <1>3 DEF TableOK, Drew, Nth
  <2>6. Latest'
    BY <1>3, <1>14 DEF TableOK, Latest, Nth
  <2> QED BY <2>4, <2>5, <2>6 DEF TableOK
<1>16. AnswerIsOwn'
  <2> SUFFICES ASSUME NEW r \in Requests, fut'[r] = "given"
               PROVE  answer'[r] \in {mine[r], 0} \/ answer'[r] + Numbers <= mine[r]
    BY <1>3 DEF AnswerIsOwn
  <2>1. CASE r \in given
    BY <1>12, <2>1
  <2>2. CASE r \notin given
    BY <1>13, <2>2 DEF AnswerIsOwn
  <2> QED BY <2>1, <2>2
<1>17. Served'
  <2> SUFFICES ASSUME NEW r \in Requests \ shared, pc[r] \in Waiting, fut'[r] = "none"
               PROVE  /\ pending'[num[r]] = r /\ loop # 0 /\ loop = writer
                      /\ pc[r] # "queue" => wrote[r][loop] = 1
    BY <1>3 DEF Served
  <2>1. r \notin given /\ fut[r] = "none"
    BY <1>12, <1>13
  <2>2. /\ pending[num[r]] = r /\ loop # 0 /\ loop = writer
        /\ pc[r] # "queue" => wrote[r][loop] = 1
    BY <2>1 DEF Served
  <2>3. num[r] \in 1..Numbers
    BY Sizes DEF TableOK, TableTypes, Drew
  <2>4. num[r] \notin nums
    BY <1>2, <2>1, <2>2
  <2> QED BY <1>14, <2>2, <2>3, <2>4
<1>18. Wires'
  <2>1. left \in Seq(Messages) /\ \A i \in 1..Len(left) : Known(left[i], drawn)
    <3>1. PICK a, b : a = Len(ps) + 1 /\ b = Len(s)
      OBVIOUS
    <3>2. a \in 1..(b + 1) /\ b \in Nat /\ \A i \in a..b : s[i] \in Messages /\ Known(s[i], drawn)
      BY <1>8, <1>9, <3>1
    <3>3. /\ SubSeq(s, a, b) \in Seq(Messages)
          /\ \A i \in 1..Len(SubSeq(s, a, b)) :
                a + i - 1 \in a..b /\ SubSeq(s, a, b)[i] = s[a + i - 1]
      <4>1. /\ SubSeq(s, a, b) \in Seq(Messages)
            /\ Len(SubSeq(s, a, b)) = (IF a <= b THEN b - a + 1 ELSE 0)
            /\ \A i \in 1..(b - a + 1) : SubSeq(s, a, b)[i] = s[a + i - 1]
        BY <1>9, <3>2, SubSeqProperties
      <4> QED BY <3>2, <4>1
    <3> QED BY <1>7, <3>1, <3>2, <3>3
  <2>2. /\ buf' = [buf EXCEPT ![k] = Kept(data)]
        /\ stream' = [stream EXCEPT ![k] = rest]
        /\ sent' = [sent EXCEPT ![k] = left]
    BY <1>2, <1>4, <1>5, <1>7 DEF WireTypes
  <2>3. /\ buf'[k] = Kept(data) /\ stream'[k] = rest /\ sent'[k] = left /\ owed'[k] = o
        /\ \A c \in Conns : c # k => /\ buf'[c] = buf[c] /\ stream'[c] = stream[c]
                                     /\ sent'[c] = sent[c] /\ owed'[c] = owed[c]
    BY <1>3, <1>4, <1>5, <2>2 DEF WireTypes
  <2>4. WireTypes'
    BY <1>3, <1>4, <1>6, <1>8, <2>1, <2>2 DEF WireTypes
  <2>5. ASSUME NEW c \in Conns
        PROVE  /\ \A m \in got'[c] : Known(m, drawn')
               /\ \A i \in 1..Len(sent'[c]) : Known(sent'[c][i], drawn')
               /\ Found(Messages, buf'[c] \o stream'[c], sent'[c], owed'[c])
    <3>1. \A m \in got'[c] : Known(m, drawn')
      BY <1>3 DEF Wires
    <3>2. CASE c = k
      BY <1>3, <1>8, <2>1, <2>3, <3>1, <3>2
    <3>3. CASE c # k
      BY <1>3, <2>3, <3>1, <3>3 DEF Wires
    <3> QED BY <3>2, <3>3
  <2> QED BY <2>4, <2>5 DEF Wires
<1> QED BY <1>15, <1>16, <1>17, <1>18

-----------------------------------------------------------------------------
(* The steps *)

Answering == TableOK /\ AnswerIsOwn /\ Served /\ Wires

SInv == CInv /\ QueueOK /\ Answering /\ noisy \in 0..MaxNoisy

LEMMA SInitial == Init => SInv
<1> SUFFICES ASSUME Init PROVE SInv
  OBVIOUS
<1>1. CInv
  BY ClientInitial
<1>2. QueueOK
  <2>1. queue = <<>> /\ \A r \in Requests : pc[r] = "idle"
    BY DEF Init
  <2>2. queue \in Seq(Requests) /\ 1..Len(queue) = {}
    BY <2>1
  <2> QED BY <2>1, <2>2 DEF QueueOK, Queued
<1>3. TableOK
  <2>1. TableTypes
    BY Sizes DEF Init, TableTypes
  <2>2. last = Nth(drawn)
    BY DEF Init, Nth
  <2>3. Drew /\ Latest
    BY DEF Init, Drew, Latest, Waiting
  <2> QED BY <2>1, <2>2, <2>3 DEF TableOK
<1>4. AnswerIsOwn /\ Served
  BY DEF Init, AnswerIsOwn, Served, Waiting
<1>5. Wires
  <2>1. WireTypes
    BY DEF Init, WireTypes
  <2>2. \A k \in Conns : Empty(k)
    BY DEF Init, Empty
  <2>3. 1..Len(<<>>) = {}
    OBVIOUS
  <2> QED BY <2>1, <2>2, <2>3, FoundNothing DEF Wires, Empty
<1>6. noisy \in 0..MaxNoisy
  BY Sizes DEF Init
<1> QED BY <1>1, <1>2, <1>3, <1>4, <1>5, <1>6 DEF SInv, Answering

\* A request begins.
LEMMA RegisterStep ==
    ASSUME CInv, CInv', QueueOK, Answering, noisy \in Nat,
           NEW r \in Requests, pc[r] \notin Waiting, NEW k \in Conns, Registers(r, k),
           writer' = k, loop' = k, writer = 0 \/ UNCHANGED <<writer, loop>>
    PROVE  QueueOK' /\ Answering'
<1>0. pc[r] \notin Queued
  BY DEF Waiting, Queued
<1>1. QueueOK'
  <2>1. CASE queue = <<>>
    <3>1. \/ Goto(r, "wait") /\ queue' = <<>>
          \/ Goto(r, "drain") /\ queue' = <<r>> \o <<>>
      BY <2>1 DEF Registers, Writes
    <3>2. <<r>> \o <<>> = <<r>> /\ "wait" \notin Queued
      BY DEF Queued
    <3> QED BY <1>0, <2>1, <3>1, <3>2, GotoMoves, OutsideKeeps, JoinKeeps
  <2>2. CASE queue # <<>>
    <3>1. Goto(r, "queue") /\ queue' = Append(queue, r)
      BY <2>2 DEF Registers
    <3> QED BY <1>0, <3>1, GotoMoves, JoinKeeps
  <2> QED BY <2>1, <2>2
<1>2. TableOK' /\ AnswerIsOwn' /\ Served' /\ drawn' = drawn + 1
  BY RegisterKeeps DEF Answering
<1>3. /\ drawn \in Nat /\ NextNumber \in 1..Numbers /\ NextNumber = Nth(drawn + 1)
      /\ drawn + 1 \in Nat /\ drawn <= drawn + 1
  BY NextDraw DEF Answering
<1>4. PICK m : m = Msg(NextNumber, drawn + 1)
  OBVIOUS
<1>5. m \in Messages /\ Known(m, drawn')
  <2>1. m \in Messages /\ m.num = NextNumber /\ m.of = drawn + 1
    BY <1>3, <1>4, MsgFields
  <2> QED BY <1>2, <1>3, <2>1 DEF Known
<1>6. Wires'
  <2>1. CASE queue = <<>>
    <3>1. /\ got' = (IF link[k] = "eof" THEN got ELSE [got EXCEPT ![k] = @ \cup {m}])
          /\ UNCHANGED <<stream, buf, sent, owed>>
      BY <1>4, <2>1 DEF Registers, Writes
    <3> QED BY <1>2, <1>3, <1>5, <3>1, WriteWires DEF Answering
  <2>2. CASE queue # <<>>
    <3>1. UNCHANGED wires
      BY <2>2 DEF Registers
    <3> QED BY <1>2, <1>3, <3>1, StillWires DEF Answering
  <2> QED BY <2>1, <2>2
<1> QED BY <1>1, <1>2, <1>6 DEF Answering

\* A request goes on without anything changing in the table.
LEMMA StayStep ==
    ASSUME Answering, UNCHANGED <<table, tries>>, on' \in [Requests -> 0..MaxConns],
           \A q \in Requests : Stays(q), Served', Wires'
    PROVE  Answering'
BY StayKeeps DEF Answering

\* Everybody is rejected.
LEMMA RejectStep ==
    ASSUME Answering, RejectAll, UNCHANGED <<draws, num, mine, answer, shared, tries, on>>,
           \A q \in Requests : Stays(q), Wires'
    PROVE  Answering'
BY RejectKeeps DEF Answering

\* A request is over.
LEMMA EndStep ==
    ASSUME CInv, Answering, NEW r \in Requests, Ends(r), UNCHANGED <<writer, loop>>, Wires'
    PROVE  Answering'
BY EndKeeps DEF Answering

\* The table, where no number is drawn.
LEMMA NoDraw ==
    ASSUME Answering, drawn' = drawn
    PROVE  drawn' \in Nat /\ drawn <= drawn' /\ TableOK /\ Wires
BY NextDraw DEF Answering

\* An attempt has failed for want of a connection: the first, or the second.
LEMMA NotConnectedStep ==
    ASSUME CInv, Answering, NEW r \in Requests, NotConnected(r)
    PROVE  Answering'
<1>1. CASE tries[r] = 1
  <2>1. drawn' = drawn
    BY <1>1 DEF NotConnected, Forgets, draws
  <2>2. TableOK' /\ AnswerIsOwn' /\ Served'
    BY <1>1, FailKeeps DEF Answering, NotConnected
  <2>3. Wires'
    BY <1>1, <2>1, ClosingKeeps DEF Answering, NotConnected
  <2> QED BY <2>2, <2>3 DEF Answering
<1>2. CASE tries[r] # 1
  <2>1. Ends(r) /\ UNCHANGED <<writer, loop, wires>> /\ drawn' = drawn
    BY <1>2 DEF NotConnected, conn, Ends, Forgets, draws
  <2>2. Wires'
    BY <2>1, NoDraw, StillWires
  <2> QED BY <2>1, <2>2, EndStep
<1> QED BY <1>1, <1>2

\* The move of one request, seen from all.
LEMMA MovesStay ==
    ASSUME NEW r \in Requests, NEW l, Moves(r, l), l \in Waiting <=> pc[r] \in Waiting
    PROVE  \A q \in Requests : Stays(q)
BY DEF Moves, Stays

\* A request finds a connection, or goes to open one.
LEMMA BeginStep ==
    ASSUME CInv, CInv', QueueOK, Answering, noisy \in Nat, NEW r \in Requests, Begin(r)
    PROVE  QueueOK' /\ Answering'
<1>1. pc[r] \notin Waiting /\ pc[r] \notin Queued /\ UNCHANGED <<writer, loop, link>>
  BY DEF Begin, Waiting, Queued, conn
<1>2. CASE Connected
  <2>1. writer \in Conns /\ loop = writer
    BY <1>2, Bounds DEF Connected, CInv, Types, Conns
  <2>2. Registers(r, writer)
    BY <1>2 DEF Begin
  <2> QED BY <1>1, <2>1, <2>2, RegisterStep
<1>3. CASE ~Connected
  <2>1. Moves(r, "connect") /\ UNCHANGED <<queue, table, tries, on, wires, wrote>>
    BY <1>3, GotoMoves DEF Begin
  <2>2. "connect" \notin Waiting /\ "connect" \notin Queued
    BY DEF Waiting, Queued
  <2>3. QueueOK'
    BY <1>1, <2>1, <2>2, OutsideKeeps
  <2>4. \A q \in Requests : Stays(q)
    BY <1>1, <2>1, <2>2, MovesStay
  <2>5. Served'
    BY <1>1, <2>1, <2>4 DEF Answering, Served, Stays, Moves, Waiting, table
  <2>6. Wires'
    BY <2>1, NoDraw, StillWires DEF table
  <2>7. on' \in [Requests -> 0..MaxConns]
    BY <2>1 DEF Answering, TableOK, TableTypes
  <2>8. Answering'
    BY <2>1, <2>4, <2>5, <2>6, <2>7, StayStep
  <2> QED BY <2>3, <2>8
<1> QED BY <1>2, <1>3

\* It finds one after all, or closes what is left of the old one.
LEMMA ConnectStep ==
    ASSUME CInv, CInv', QueueOK, Answering, noisy \in Nat, NEW r \in Requests, Connect(r)
    PROVE  QueueOK' /\ Answering'
<1>1. pc[r] \notin Waiting /\ pc[r] \notin Queued
  BY DEF Connect, Waiting, Queued
<1>2. CASE Connected
  <2>1. writer \in Conns /\ loop = writer
    BY <1>2, Bounds DEF Connected, CInv, Types, Conns
  <2>2. Registers(r, writer) /\ UNCHANGED <<writer, loop, link>>
    BY <1>2 DEF Connect, conn
  <2> QED BY <1>1, <2>1, <2>2, RegisterStep
<1>3. CASE ~Connected
  <2>1. /\ Moves(r, "opening") /\ CloseSilent
        /\ UNCHANGED <<queue, draws, num, mine, answer, shared, tries, on, wrote>>
    BY <1>3, GotoMoves DEF Connect
  <2>2. "opening" \notin Waiting /\ "opening" \notin Queued
    BY DEF Waiting, Queued
  <2>3. QueueOK'
    BY <1>1, <2>1, <2>2, OutsideKeeps
  <2>4. \A q \in Requests : Stays(q)
    BY <1>1, <2>1, <2>2, MovesStay
  <2>5. Wires'
    BY <2>1, ClosingKeeps DEF CloseSilent, Answering, draws
  <2>6. Answering'
    BY <2>1, <2>4, <2>5, RejectStep DEF CloseSilent
  <2> QED BY <2>3, <2>6
<1> QED BY <1>2, <1>3

\* It has opened one.
LEMMA OpensStep ==
    ASSUME CInv, CInv', QueueOK, Answering, noisy \in Nat, NEW r \in Requests, Opens(r)
    PROVE  QueueOK' /\ Answering'
<1>1. /\ pc[r] \notin Waiting /\ writer = 0
      /\ opened < MaxConns /\ writer' = opened + 1 /\ loop' = opened + 1
      /\ Registers(r, opened + 1)
  BY Bounds DEF Opens, CInv, OpenerAlone, Waiting
<1>2. PICK k \in Conns : k = opened + 1
  BY <1>1, Bounds DEF CInv, Types, Conns
<1> QED BY <1>1, <1>2, RegisterStep

\* An attempt fails, before or after the request was written.
LEMMA FailStep ==
    ASSUME CInv, QueueOK, Answering, NEW r \in Requests, OpenFails(r) \/ Lost(r)
    PROVE  QueueOK' /\ Answering'
<1>1. NotConnected(r) /\ pc[r] \notin Queued /\ queue' = queue
  BY DEF OpenFails, Lost, NotConnected, Queued
<1>2. PICK l \in {"again", "idle"} : Moves(r, l)
  BY <1>1, GotoMoves DEF NotConnected, Ends
<1>3. QueueOK'
  BY <1>1, <1>2, OutsideKeeps DEF Queued
<1> QED BY <1>1, <1>3, NotConnectedStep

\* A request gets the send lock and writes.
LEMMA WriteQueuedStep ==
    ASSUME CInv, CInv', QueueOK, Answering, NEW r \in Requests, WriteQueued(r)
    PROVE  QueueOK' /\ Answering'
<1>1. /\ pc[r] = "queue" /\ Head(queue) = r /\ writer # 0
      /\ Writes(r, Msg(num[r], mine[r]), writer, Tail(queue))
      /\ UNCHANGED <<writer, loop, table, tries>>
  BY DEF WriteQueued, conn
<1>2. PICK k \in Conns : k = writer
  BY <1>1, Bounds DEF CInv, Types, Conns
<1>3. queue \in Seq(Requests) /\ queue # <<>>
  <2>1. queue \in Seq(Requests) /\ \E i \in 1..Len(queue) : queue[i] = r
    BY <1>1 DEF QueueOK, Queued
  <2>2. 1..Len(<<>>) = {}
    OBVIOUS
  <2> QED BY <2>1, <2>2
<1>4. PICK l \in {"wait", "drain"} :
          /\ Moves(r, l)
          /\ \/ l = "wait" /\ queue' = Tail(queue) /\ on' = on
             \/ l = "drain" /\ queue' = <<r>> \o Tail(queue) /\ on' = [on EXCEPT ![r] = k]
  BY <1>1, <1>2, GotoMoves DEF Writes
<1>5. QueueOK'
  <2>1. CASE l = "wait" /\ queue' = Tail(queue)
    <3>1. Without(queue, queue', r) /\ l \notin Queued
      BY <1>1, <1>3, <2>1, TailWithout DEF Queued
    <3> QED BY <1>4, <3>1, LeavingKeeps
  <2>2. CASE l = "drain" /\ queue' = <<r>> \o Tail(queue)
    BY <1>1, <1>4, <2>2, HolderKeeps DEF Queued
  <2> QED BY <1>4, <2>1, <2>2
<1>6. on' \in [Requests -> 0..MaxConns]
  <2>1. k \in 0..MaxConns /\ on \in [Requests -> 0..MaxConns]
    BY Bounds DEF Conns, Answering, TableOK, TableTypes
  <2> QED BY <1>4, <2>1
<1>7. \A q \in Requests : Stays(q)
  BY <1>1, <1>4, MovesStay DEF Waiting
<1>8. Wires'
  <2>1. PICK m : m = Msg(num[r], mine[r])
    OBVIOUS
  <2>2. /\ num[r] \in 1..Numbers /\ mine[r] \in 1..drawn /\ num[r] = Nth(mine[r])
    BY <1>1, Sizes DEF Answering, TableOK, TableTypes, Drew, Waiting
  <2>3. drawn' = drawn /\ drawn \in Nat
    BY <1>1, NextDraw DEF table, Answering
  <2>4. m \in Messages /\ Known(m, drawn')
    <3>1. m \in Messages /\ m.num = num[r] /\ m.of = mine[r]
      BY <2>1, <2>2, <2>3, MsgFields
    <3> QED BY <2>2, <2>3, <3>1 DEF Known
  <2>5. /\ got' = (IF link[k] = "eof" THEN got ELSE [got EXCEPT ![k] = @ \cup {m}])
        /\ UNCHANGED <<stream, buf, sent, owed>>
    BY <1>1, <1>2, <2>1 DEF Writes
  <2> QED BY <2>3, <2>4, <2>5, WriteWires DEF Answering
<1>9. Served'
  <2>1. wrote' = [wrote EXCEPT ![r][k] = @ + 1] /\ wrote \in [Requests -> [Conns -> Nat]]
    BY <1>1, <1>2 DEF Writes, CInv, Types
  <2>2. /\ wrote'[r][k] # 0
        /\ \A q \in Requests \ {r} : wrote'[q] = wrote[q]
    BY <2>1
  <2>3. wrote'[r][k] = 1
    BY <2>2 DEF CInv, WrittenToClosed
  <2> SUFFICES ASSUME NEW q \in Requests \ shared, pc'[q] \in Waiting, fut[q] = "none"
               PROVE  /\ pending[num[q]] = q /\ loop # 0 /\ loop = writer
                      /\ pc'[q] # "queue" => wrote'[q][loop] = 1
    BY <1>1 DEF Served, table
  <2>4. pc[q] \in Waiting
    BY <1>7 DEF Stays
  <2>5. /\ pending[num[q]] = q /\ loop # 0 /\ loop = writer
        /\ pc[q] # "queue" => wrote[q][loop] = 1
    BY <2>4 DEF Answering, Served
  <2>6. CASE q = r
    BY <1>2, <2>3, <2>5, <2>6
  <2>7. CASE q # r
    BY <1>4, <2>2, <2>5, <2>7 DEF Moves
  <2> QED BY <2>6, <2>7
<1>10. Answering'
  BY <1>1, <1>6, <1>7, <1>8, <1>9, StayStep
<1> QED BY <1>5, <1>10

\* The send buffer has room again.
LEMMA DrainEndsStep ==
    ASSUME CInv, QueueOK, Answering, NEW r \in Requests, DrainEnds(r)
    PROVE  QueueOK' /\ Answering'
<1>1. /\ pc[r] = "drain" /\ Moves(r, "wait") /\ queue' = Tail(queue)
      /\ on' = [on EXCEPT ![r] = 0]
      /\ UNCHANGED <<writer, loop, table, tries, wires, wrote>>
  BY GotoMoves DEF DrainEnds, conn
<1>2. queue \in Seq(Requests) /\ queue # <<>> /\ Head(queue) = r
  <2>1. queue \in Seq(Requests) /\ \E i \in 1..Len(queue) : queue[i] = r /\ i = 1
    BY <1>1 DEF QueueOK, Queued
  <2> QED BY <2>1
<1>3. QueueOK'
  <2>1. Without(queue, queue', r)
    BY <1>1, <1>2, TailWithout
  <2> QED BY <1>1, <2>1, LeavingKeeps DEF Queued
<1>4. \A q \in Requests : Stays(q)
  BY <1>1, MovesStay DEF Waiting
<1>5. on' \in [Requests -> 0..MaxConns]
  BY <1>1, Sizes DEF Answering, TableOK, TableTypes
<1>6. Served'
  <2> SUFFICES ASSUME NEW q \in Requests \ shared, pc'[q] \in Waiting, fut[q] = "none"
               PROVE  /\ pending[num[q]] = q /\ loop # 0 /\ loop = writer
                      /\ pc'[q] # "queue" => wrote'[q][loop] = 1
    BY <1>1 DEF Served, table
  <2>1. pc[q] \in Waiting /\ (pc[q] = "queue" => pc'[q] = "queue")
    BY <1>1, <1>4 DEF Stays, Moves
  <2> QED BY <1>1, <2>1 DEF Answering, Served
<1>7. Wires'
  BY <1>1, NoDraw, StillWires DEF table
<1>8. Answering'
  BY <1>1, <1>4, <1>5, <1>6, <1>7, StayStep
<1> QED BY <1>3, <1>8

\* A request is over, well or not.
LEMMA OverStep ==
    ASSUME CInv, QueueOK, Answering, NEW r \in Requests,
           \/ Answered(r) \/ TimesOut(r) \/ DrainBreaks(r) \/ QueuedBreaks(r) \/ Cancel(r)
    PROVE  QueueOK' /\ Answering'
<1>1. Ends(r) /\ UNCHANGED <<writer, loop>> /\ drawn' = drawn
  BY DEF Answered, TimesOut, DrainBreaks, QueuedBreaks, Cancel, conn, Ends, Forgets, draws
<1>2. Moves(r, "idle") /\ "idle" \notin Queued
  BY <1>1, GotoMoves DEF Ends, Queued
<1>3. QueueOK'
  <2>1. CASE Answered(r) \/ TimesOut(r)
    <3>1. queue' = queue /\ pc[r] \notin Queued
      BY <2>1 DEF Answered, TimesOut, Queued
    <3> QED BY <1>2, <3>1, OutsideKeeps
  <2>2. CASE DrainBreaks(r) \/ QueuedBreaks(r)
    <3>1. queue' = Tail(queue) /\ pc[r] \in Queued /\ (pc[r] = "drain" \/ Head(queue) = r)
      BY <2>2 DEF DrainBreaks, QueuedBreaks, Queued
    <3>2. queue \in Seq(Requests) /\ queue # <<>> /\ Head(queue) = r
      <4>1. queue \in Seq(Requests) /\ \E i \in 1..Len(queue) : queue[i] = r /\ (pc[r] = "drain" => i = 1)
        BY <3>1 DEF QueueOK
      <4> QED BY <3>1, <4>1
    <3>3. Without(queue, queue', r)
      BY <3>1, <3>2, TailWithout
    <3> QED BY <1>2, <3>3, LeavingKeeps
  <2>3. CASE Cancel(r)
    <3>1. queue' = RemoveFirst(queue, r)
      BY <2>3 DEF Cancel
    <3>2. CASE pc[r] \in Queued
      <4>1. PICK i \in 1..Len(queue) : queue[i] = r
        BY <3>2 DEF QueueOK
      <4>2. Without(queue, queue', r)
        BY <3>1, <4>1, RemovedWithout DEF QueueOK
      <4> QED BY <1>2, <4>2, LeavingKeeps
    <3>3. CASE pc[r] \notin Queued
      <4>1. ~ \E i \in 1..Len(queue) : queue[i] = r
        BY <3>3 DEF QueueOK
      <4>2. queue' = queue
        BY <3>1, <4>1 DEF RemoveFirst
      <4> QED BY <1>2, <3>3, <4>2, OutsideKeeps
    <3> QED BY <3>2, <3>3
  <2> QED BY <2>1, <2>2, <2>3
<1>4. Wires'
  <2>1. CASE UNCHANGED wires
    BY <1>1, <2>1, NoDraw, StillWires
  <2>2. CASE QueuedBreaks(r) /\ ~ UNCHANGED wires
    <3>1. writer # 0 /\ Silence(writer)
      BY <2>2 DEF QueuedBreaks
    <3>2. writer \in Conns
      BY <3>1, Bounds DEF CInv, Types, Conns
    <3> QED BY <1>1, <3>1, <3>2, NoDraw, SilenceKeeps
  <2> QED BY <2>1, <2>2 DEF Answered, TimesOut, DrainBreaks, Cancel, conn
<1> QED BY <1>1, <1>3, <1>4, EndStep

\* The write of a request that has just drawn its number fails.
LEMMA BeginBreaksStep ==
    ASSUME CInv, QueueOK, Answering, noisy \in Nat, NEW r \in Requests, BeginBreaks(r)
    PROVE  QueueOK' /\ Answering'
<1>1. /\ pc[r] \notin Waiting /\ pc[r] \notin Queued /\ Moves(r, "idle") /\ writer # 0
      /\ Draws /\ pending' = [pending EXCEPT ![NextNumber] = Nobody]
      /\ shared' = shared \cup Same
      /\ tries' = [tries EXCEPT ![r] = 1] /\ wrote' = [wrote EXCEPT ![r] = Unwritten]
      /\ Silence(writer)
      /\ UNCHANGED <<writer, loop, queue, fut, num, mine, answer, on>>
  BY GotoMoves DEF BeginBreaks, Connected, Waiting, Queued
<1>2. "idle" \notin Waiting /\ "idle" \notin Queued
  BY DEF Waiting, Queued
<1>3. QueueOK'
  BY <1>1, <1>2, OutsideKeeps
<1>4. num[r] = 0
  BY <1>1 DEF Answering, TableOK, Drew
<1>5. /\ drawn' = drawn + 1 /\ drawn' \in 0..MaxDraws
      /\ last' = Nth(drawn)' /\ Drew' /\ Latest'
      /\ pending' \in [1..Numbers -> Requests \cup {Nobody}]
      /\ num' \in [Requests -> 0..Numbers] /\ mine' \in [Requests -> 0..MaxDraws]
      /\ shared' \subseteq Requests
      /\ \A q \in Requests \ shared' : q \notin shared /\ num[q] # NextNumber
  <2>1. PICK who : who = Nobody
    OBVIOUS
  <2>2. who \in {r, Nobody} /\ who # r /\ pending' = [pending EXCEPT ![NextNumber] = who]
    BY <1>1, <2>1, Sizes
  <2> QED BY <1>1, <1>2, <1>4, <2>2, DrawKeeps DEF Answering
<1>6. TableOK'
  <2>1. fut' \in [Requests -> {"none", "lost", "given"}] /\ tries' \in [Requests -> 1..2]
        /\ answer' \in [Requests -> 0..MaxDraws] /\ on' \in [Requests -> 0..MaxConns]
    BY <1>1 DEF Answering, TableOK, TableTypes
  <2>2. TableTypes'
    BY <1>5, <2>1 DEF TableTypes
  <2> QED BY <1>5, <2>2 DEF TableOK
<1>7. AnswerIsOwn'
  BY <1>1 DEF Answering, AnswerIsOwn
<1>8. Served'
  <2> SUFFICES ASSUME NEW q \in Requests \ shared', pc'[q] \in Waiting, fut[q] = "none"
               PROVE  /\ pending'[num[q]] = q /\ loop # 0 /\ loop = writer
                      /\ pc'[q] # "queue" => wrote'[q][loop] = 1
    BY <1>1 DEF Served
  <2>1. q # r /\ pc'[q] = pc[q] /\ wrote'[q] = wrote[q]
    BY <1>1, <1>2 DEF Moves, CInv, Types
  <2>2. q \notin shared /\ num[q] # NextNumber
    BY <1>5
  <2>3. /\ pending[num[q]] = q /\ loop # 0 /\ loop = writer
        /\ pc[q] # "queue" => wrote[q][loop] = 1
    BY <2>1, <2>2 DEF Answering, Served
  <2>4. num[q] \in 1..Numbers
    BY <2>1, Sizes DEF Answering, TableOK, TableTypes, Drew
  <2>5. pending'[num[q]] = pending[num[q]]
    <3>1. PICK N : N = NextNumber
      OBVIOUS
    <3>2. pending' = [pending EXCEPT ![N] = Nobody] /\ num[q] # N
      BY <1>1, <2>2, <3>1
    <3> QED BY <2>4, <3>2 DEF Answering, TableOK, TableTypes
  <2> QED BY <2>1, <2>3, <2>5
<1>9. Wires'
  <2>1. writer \in Conns
    BY <1>1, Bounds DEF CInv, Types, Conns
  <2>2. drawn' \in Nat /\ drawn <= drawn'
    BY <1>5, NextDraw DEF Answering
  <2> QED BY <1>1, <2>1, <2>2, SilenceKeeps DEF Answering
<1> QED BY <1>3, <1>6, <1>7, <1>8, <1>9 DEF Answering

\* The loop, the pool, the vehicle and the network.
LEMMA OthersStep ==
    ASSUME CInv, QueueOK, Answering,
           \/ Receive \/ LoopEnds \/ Drop \/ UNCHANGED vars
           \/ \E k \in Conns : Answers(k) \/ Noise(k) \/ PeerCloses(k)
    PROVE  QueueOK' /\ Answering'
<1>1. QueueOK'
  <2>1. UNCHANGED <<queue, pc>>
    BY DEF Receive, LoopEnds, Drop, vars, Answers, Noise, PeerCloses
  <2> QED BY <2>1, StillKeeps
<1>2. pc' = pc => \A q \in Requests : Stays(q)
  BY DEF Stays
<1>3. CASE Receive
  BY <1>1, <1>3, ReceiveKeeps DEF Answering
<1>4. CASE LoopEnds
  <2>1. /\ RejectAll /\ UNCHANGED <<draws, num, mine, answer, shared, tries, on, pc>>
        /\ writer # 0 /\ Silence(writer)
    BY <1>4 DEF LoopEnds, CInv, Types
  <2>2. writer \in Conns
    BY <2>1, Bounds DEF CInv, Types, Conns
  <2>3. Wires'
    BY <2>1, <2>2, NoDraw, SilenceKeeps DEF draws
  <2> QED BY <1>1, <1>2, <2>1, <2>3, RejectStep
<1>5. CASE Drop
  <2>1. CloseSilent /\ RejectAll /\ UNCHANGED <<draws, num, mine, answer, shared, tries, on, pc>>
    BY <1>5 DEF Drop, CloseSilent
  <2>2. Wires'
    BY <2>1, ClosingKeeps DEF Answering, CloseSilent, draws
  <2> QED BY <1>1, <1>2, <2>1, <2>2, RejectStep
<1>6. ASSUME UNCHANGED <<writer, loop, table, pc, tries, on, wrote>>, Wires'
      PROVE  QueueOK' /\ Answering'
  <2>1. Served'
    BY <1>6 DEF Answering, Served, table
  <2>2. on' \in [Requests -> 0..MaxConns]
    BY <1>6 DEF Answering, TableOK, TableTypes
  <2> QED BY <1>1, <1>2, <1>6, <2>1, <2>2, StayStep
<1>7. CASE UNCHANGED vars
  <2>1. UNCHANGED <<writer, loop, table, pc, tries, on, wrote, wires>>
    BY <1>7 DEF vars, table, wires
  <2> QED BY <1>6, <2>1, NoDraw, StillWires DEF table
<1>8. ASSUME NEW k \in Conns, Answers(k)
      PROVE  QueueOK' /\ Answering'
  <2>1. UNCHANGED <<writer, loop, table, pc, tries, on, wrote>>
    BY <1>8 DEF Answers, conn
  <2> QED BY <1>6, <1>8, <2>1, AnswersWires DEF Answering
<1>9. ASSUME NEW k \in Conns, Noise(k)
      PROVE  QueueOK' /\ Answering'
  <2>1. UNCHANGED <<writer, loop, table, pc, tries, on, wrote>>
    BY <1>9 DEF Noise
  <2> QED BY <1>6, <1>9, <2>1, NoiseWires DEF Answering
<1>10. ASSUME NEW k \in Conns, PeerCloses(k)
       PROVE  QueueOK' /\ Answering'
  <2>1. UNCHANGED <<writer, loop, table, pc, tries, on, wrote>>
    BY <1>10 DEF PeerCloses
  <2>2. drawn' = drawn
    BY <2>1 DEF table
  <2>3. Wires'
    <3>1. CASE Silence(k)
      BY <2>2, <3>1, NoDraw, SilenceKeeps
    <3>2. CASE got' = [got EXCEPT ![k] = {}] /\ UNCHANGED <<stream, buf, sent, owed>>
      <4>1. WireTypes'
        BY <3>2 DEF Answering, Wires, WireTypes
      <4>2. \A j \in Conns : Quiet(j)
        BY <3>2 DEF Answering, Wires, WireTypes, Quiet
      <4> QED BY <2>2, <4>1, <4>2, NoDraw, QuietKeeps
    <3> QED BY <1>10, <3>1, <3>2 DEF PeerCloses
  <2> QED BY <1>6, <2>1, <2>3
<1> QED BY <1>3, <1>4, <1>5, <1>7, <1>8, <1>9, <1>10

\* Noise arrives at most MaxNoisy times.
LEMMA NoisyKeeps ==
    ASSUME noisy \in 0..MaxNoisy, [Next]_vars
    PROVE  noisy' \in 0..MaxNoisy
<1>1. ASSUME NEW r \in Requests, Request(r) \/ Cancel(r) PROVE noisy' = noisy
  <2>1. CASE \/ Begin(r) \/ Connect(r) \/ Opens(r) \/ OpenFails(r) \/ Lost(r)
    BY <2>1 DEF Begin, Connect, Opens, OpenFails, Lost, NotConnected, CloseSilent, conn
  <2>2. CASE \/ WriteQueued(r) \/ DrainEnds(r) \/ DrainBreaks(r) \/ QueuedBreaks(r)
             \/ BeginBreaks(r) \/ Answered(r) \/ TimesOut(r) \/ Cancel(r)
    BY <2>2 DEF WriteQueued, DrainEnds, DrainBreaks, QueuedBreaks, BeginBreaks, Answered,
                TimesOut, Cancel, conn
  <2> QED BY <1>1, <2>1, <2>2 DEF Request
<1>2. CASE Receive \/ LoopEnds \/ Drop \/ UNCHANGED vars
  BY <1>2 DEF Receive, LoopEnds, Drop, CloseSilent, conn, vars
<1>3. ASSUME NEW k \in Conns, Answers(k) \/ Noise(k) \/ PeerCloses(k)
      PROVE  noisy' \in 0..MaxNoisy
  BY <1>3, Sizes DEF Answers, Noise, PeerCloses, conn
<1> QED BY <1>1, <1>2, <1>3 DEF Next

LEMMA SNext == SInv /\ [Next]_vars => SInv'
<1> SUFFICES ASSUME SInv, [Next]_vars PROVE SInv'
  OBVIOUS
<1>1. CInv /\ CInv' /\ QueueOK /\ Answering /\ noisy \in Nat
  BY ClientNext, Sizes DEF SInv
<1>2. ASSUME NEW r \in Requests, Request(r) \/ Cancel(r)
      PROVE  QueueOK' /\ Answering'
  <2>1. CASE Begin(r) BY <1>1, <2>1, BeginStep
  <2>2. CASE Connect(r) BY <1>1, <2>2, ConnectStep
  <2>3. CASE Opens(r) BY <1>1, <2>3, OpensStep
  <2>4. CASE OpenFails(r) \/ Lost(r) BY <1>1, <2>4, FailStep
  <2>5. CASE WriteQueued(r) BY <1>1, <2>5, WriteQueuedStep
  <2>6. CASE DrainEnds(r) BY <1>1, <2>6, DrainEndsStep
  <2>7. CASE \/ Answered(r) \/ TimesOut(r) \/ DrainBreaks(r) \/ QueuedBreaks(r) \/ Cancel(r)
    BY <1>1, <2>7, OverStep
  <2>8. CASE BeginBreaks(r) BY <1>1, <2>8, BeginBreaksStep
  <2> QED BY <1>2, <2>1, <2>2, <2>3, <2>4, <2>5, <2>6, <2>7, <2>8 DEF Request
<1>3. QueueOK' /\ Answering'
  BY <1>1, <1>2, OthersStep DEF Next
<1>4. noisy' \in 0..MaxNoisy
  BY NoisyKeeps DEF SInv
<1> QED BY <1>1, <1>3, <1>4 DEF SInv

-----------------------------------------------------------------------------
\* Locks, table, numbers and connections fit together, whatever happens
\* (send_request, _send_and_wait, _recv_loop, connect, close).
THEOREM AnswersInvariance == Spec => []SInv
BY SInitial, SNext, PTL DEF Spec

\* Every variable holds a value of its kind.
THEOREM ClientTypeCorrect == Spec => []STypeOK
<1>1. SInv => STypeOK
  <2> SUFFICES ASSUME SInv PROVE STypeOK
    OBVIOUS
  <2>1. CInv /\ QueueOK /\ TableOK /\ noisy \in 0..MaxNoisy
    BY DEF SInv, Answering
  <2>2. last \in 0..Numbers
    BY <2>1, NextDraw
  <2>3. writer \in 0..MaxConns /\ loop \in 0..MaxConns
    BY <2>1, Bounds DEF CInv, Types
  <2> QED BY <2>1, <2>2, <2>3 DEF STypeOK, CInv, Types, QueueOK, TableOK, TableTypes
<1> QED BY <1>1, AnswersInvariance, PTL

\* Nobody waits for an answer that cannot come (_reject_all, _send_and_wait):
\* an open future is in _pending under its number while a loop reads the
\* connection it was written to, unless another request under way has drawn the
\* same number.
THEOREM EverybodyServed == Spec => []Served
<1>1. SInv => Served
  BY DEF SInv, Answering
<1> QED BY <1>1, AnswersInvariance, PTL

\* However long the client runs, and however often its numbers begin again at 1,
\* the answer a request is given is its own, noise, or at least a whole round of
\* numbers late (_next_req_id, _recv_loop).
THEOREM OwnAnswers == Spec => []AnswerIsOwn
<1>1. SInv => AnswerIsOwn
  BY DEF SInv, Answering
<1> QED BY <1>1, AnswersInvariance, PTL

\* Neither _connect_lock nor _send_lock is ever left taken, and no request stands
\* in the queue in another one's place.
THEOREM LocksGoRound == Spec => []LocksMove
<1>1. SInv => LocksMove
  <2> SUFFICES ASSUME SInv PROVE LocksMove
    OBVIOUS
  <2>1. DOMAIN queue = 1..Len(queue)
    BY DEF SInv, QueueOK
  <2>2. lock # Nobody => pc[lock] = "opening"
    BY DEF SInv, CInv, Types, OpenerAlone
  <2> QED BY <2>1, <2>2 DEF SInv, CInv, OpenerAlone, QueueOK, Queued, LocksMove
<1> QED BY <1>1, AnswersInvariance, PTL

\* However the stream is cut into reads, and whatever noise with or without false
\* headers is between the packets, the loop finds those that no false header
\* covers, in their order, and those headers themselves (AGVProtocol.unpack).
THEOREM PacketsFound == Spec => []PacketsIntact
<1>1. SInv => PacketsIntact
  <2> SUFFICES ASSUME SInv, loop # 0
               PROVE  Packets(buf[loop] \o stream[loop]) =
                          IF owed[loop] = 0 THEN sent[loop] ELSE Front(sent[loop])
    BY DEF PacketsIntact
  <2>1. PICK k \in Conns : k = loop
    <3>1. loop = writer /\ writer \in 0..opened /\ opened \in 0..MaxConns
      BY DEF SInv, CInv, Types
    <3> QED BY <3>1, Bounds DEF Conns
  <2>2. PICK b, t, s, o : b = buf[k] /\ t = stream[k] /\ s = sent[k] /\ o = owed[k]
    OBVIOUS
  <2>3. /\ b \in Seq(Cells(Messages)) /\ t \in Seq(Cells(Messages)) /\ o \in Nat
        /\ Found(Messages, b \o t, s, o)
    BY <2>2 DEF SInv, Answering, Wires, WireTypes
  <2>4. PICK w : w = b \o t
    OBVIOUS
  <2>5. w \in Seq(Cells(Messages))
    BY ONLY <2>3, <2>4, ConcatProperties
  <2>6. Packets(w) = IF o = 0 THEN s ELSE Front(s)
    BY ONLY <2>3, <2>4, <2>5, FoundNow, Zenon
  <2> QED BY <2>1, <2>2, <2>4, <2>6
<1> QED BY <1>1, AnswersInvariance, PTL
=============================================================================
