--------------------------- MODULE Adapters_proof ---------------------------
(***************************************************************************)
(* Proofs about the three adapters.  The filesystem adapter, for every     *)
(* tree, every set of links and requests and any number of threads:        *)
(* nothing outside the workspace changes, no file is seen half written,    *)
(* and no file is lost by another operation than the one that removes it.  *)
(* The command adapter, for every command, output limit, pipe capacity and *)
(* chunk size, and every way the child, its descendants, the readers and   *)
(* the clock interleave.  The network adapter, for every address there is, *)
(* every answer of the resolver and every chain of redirects: it connects  *)
(* to vetted addresses.                                                    *)
(***************************************************************************)
EXTENDS FilesystemEnforcer, CommandEnforcer, NetworkEnforcer, Iteration,
        SequenceTheorems

-----------------------------------------------------------------------------
(***************************************************************************)
(* Paths.                                                                  *)
(***************************************************************************)
AllNames == Names \cup Suffixes

LEMMA AppendParts ==
    ASSUME NEW S, NEW p \in Seq(S), NEW x \in S
    PROVE  /\ Append(p, x) \in Seq(S) /\ Append(p, x) # <<>>
           /\ Parent(Append(p, x)) = p /\ Last(Append(p, x)) = x
           /\ Len(Append(p, x)) = Len(p) + 1
BY DEF Parent, Last

LEMMA ParentParts ==
    ASSUME NEW S, NEW p \in Seq(S), p # <<>>
    PROVE  /\ Parent(p) \in Seq(S) /\ Last(p) \in S
           /\ Len(Parent(p)) = Len(p) - 1 /\ Len(p) > 0
           /\ Append(Parent(p), Last(p)) = p
           /\ \A n \in 1 .. Len(p) - 1 : SubSeq(Parent(p), 1, n) = SubSeq(p, 1, n)
<1>1. Len(p) \in Nat /\ Len(p) > 0
  OBVIOUS
<1>2. Parent(p) \in Seq(S) /\ Len(Parent(p)) = Len(p) - 1
  <2> DEFINE n == Len(p) - 1
             q == SubSeq(p, 1, n)
  <2>1. n \in Nat /\ \A i \in 1 .. n : p[i] \in S
    BY <1>1
  <2>2. q \in Seq(S) /\ Len(q) = IF 1 <= n THEN n - 1 + 1 ELSE 0
    <3> HIDE DEF n
    <3> QED BY <2>1, SubSeqProperties
  <2>3. Parent(p) = q
    BY DEF Parent
  <2> HIDE DEF n, q
  <2>4. Len(q) = n
    BY <2>1, <2>2
  <2> QED BY <2>2, <2>3, <2>4 DEF n
<1>5. Last(p) \in S
  BY <1>1 DEF Last
<1>3. Append(Parent(p), Last(p)) = p
  BY <1>1 DEF Parent, Last
<1>4. \A n \in 1 .. Len(p) - 1 : SubSeq(Parent(p), 1, n) = SubSeq(p, 1, n)
  BY <1>1 DEF Parent
<1> QED BY <1>1, <1>2, <1>3, <1>4, <1>5

LEMMA HeadParts ==
    ASSUME NEW S, NEW p \in Seq(S), p # <<>>
    PROVE  /\ Head(p) \in S /\ Tail(p) \in Seq(S) /\ Len(Tail(p)) = Len(p) - 1
           /\ Len(p) > 0
OBVIOUS

LEMMA StartsWithAppend ==
    ASSUME NEW S, NEW p \in Seq(S), NEW q \in Seq(S), NEW x \in S, StartsWith(p, q)
    PROVE  StartsWith(Append(p, x), q)
BY DEF StartsWith

LEMMA StartsWithParent ==
    ASSUME NEW S, NEW p \in Seq(S), NEW q \in Seq(S), StartsWith(p, q), p # q
    PROVE  p # <<>> /\ StartsWith(Parent(p), q) /\ Len(p) > Len(q)
<1>1. Len(p) # Len(q)
  BY DEF StartsWith
<1>2. Len(p) > Len(q) /\ p # <<>>
  BY <1>1 DEF StartsWith
<1>3. /\ Len(Parent(p)) = Len(p) - 1 /\ Len(p) \in Nat /\ Len(q) \in Nat
      /\ \A n \in 1 .. Len(p) - 1 : SubSeq(Parent(p), 1, n) = SubSeq(p, 1, n)
  BY <1>2, ParentParts
<1>4. SubSeq(Parent(p), 1, Len(q)) = q
  <2>1. CASE Len(q) = 0
    <3>1. q = <<>> /\ SubSeq(Parent(p), 1, 0) = <<>>
      BY <2>1, SubSeqEmpty
    <3> QED BY <2>1, <3>1
  <2>2. CASE Len(q) # 0
    <3>1. Len(q) \in 1 .. Len(p) - 1
      BY <1>2, <1>3, <2>2
    <3> QED BY <1>3, <3>1 DEF StartsWith
  <2> QED BY <2>1, <2>2
<1> QED BY <1>2, <1>3, <1>4 DEF StartsWith

LEMMA StartsWithConcat ==
    ASSUME NEW S, NEW p \in Seq(S), NEW q \in Seq(S)
    PROVE  StartsWith(q \o p, q)
BY DEF StartsWith

LEMMA StartsWithSelf ==
    ASSUME NEW S, NEW p \in Seq(S)
    PROVE  StartsWith(p, p)
BY DEF StartsWith

LEMMA StartsWithTrans ==
    ASSUME NEW S, NEW p \in Seq(S), NEW q \in Seq(S), NEW r \in Seq(S),
           StartsWith(p, q), StartsWith(q, r)
    PROVE  StartsWith(p, r)
<1>1. /\ Len(p) \in Nat /\ Len(q) \in Nat /\ Len(r) \in Nat /\ Len(p) >= Len(q) /\ Len(q) >= Len(r)
      /\ SubSeq(p, 1, Len(q)) = q /\ SubSeq(q, 1, Len(r)) = r
  BY DEF StartsWith
<1>2. ASSUME NEW i \in 1 .. Len(r) PROVE p[i] = r[i]
  <2>1. i \in 1 .. Len(q) /\ i \in 1 .. Len(p)
    BY <1>1
  <2>2. SubSeq(p, 1, Len(q))[i] = p[i]
    BY <1>1, <2>1
  <2>3. SubSeq(q, 1, Len(r))[i] = q[i]
    BY <1>1, <2>1
  <2> QED BY <1>1, <2>2, <2>3
<1>3. SubSeq(p, 1, Len(r)) = r
  BY <1>1, <1>2
<1> QED BY <1>1, <1>3 DEF StartsWith

\* A path below another is that one and a rest.
LEMMA RestParts ==
    ASSUME NEW S, NEW p \in Seq(S), NEW a \in Seq(S), StartsWith(p, a)
    PROVE  \E s \in Seq(S) : p = a \o s
<1> DEFINE n == Len(a)
           m == Len(p)
           s == SubSeq(p, n + 1, m)
<1>1. /\ n \in Nat /\ m \in Nat /\ m >= n /\ SubSeq(p, 1, n) = a
  BY DEF StartsWith
<1>2. \A i \in n + 1 .. m : p[i] \in S
  BY <1>1
<1>3. /\ s \in Seq(S) /\ Len(s) = IF n + 1 <= m THEN m - (n + 1) + 1 ELSE 0
      /\ \A i \in 1 .. m - (n + 1) + 1 : s[i] = p[n + 1 + i - 1]
  <2> HIDE DEF n, m
  <2> QED BY <1>1, <1>2, SubSeqProperties
<1> HIDE DEF s
<1>4. Len(s) = m - n /\ \A i \in 1 .. m - n : s[i] = p[n + i]
  <2>1. Len(s) = m - n
    <3> HIDE DEF n, m
    <3> QED BY <1>1, <1>3
  <2>2. ASSUME NEW i \in 1 .. m - n PROVE s[i] = p[n + i]
    <3> HIDE DEF n, m
    <3>1. i \in 1 .. m - (n + 1) + 1 /\ n + 1 + i - 1 = n + i
      BY <1>1
    <3> QED BY <1>3, <3>1
  <2> QED BY <2>1, <2>2
<1>5. ASSUME NEW i \in 1 .. n PROVE p[i] = a[i]
  <2>1. SubSeq(p, 1, n)[i] = p[i]
    BY <1>1
  <2> QED BY <1>1, <2>1
<1>6. a \o s \in Seq(S) /\ Len(a \o s) = m
  BY <1>1, <1>3, <1>4
<1>7. ASSUME NEW i \in 1 .. m PROVE p[i] = (a \o s)[i]
  <2>1. CASE i <= n
    BY <1>1, <1>3, <1>4, <1>5, <2>1
  <2>2. CASE i > n
    <3>1. i - n \in 1 .. m - n /\ n + (i - n) = i
      <4> HIDE DEF n, m
      <4> QED BY <1>1, <2>2
    <3>2. (a \o s)[i] = s[i - n]
      BY <1>1, <1>3, <1>4, <2>2
    <3>3. s[i - n] = p[n + (i - n)]
      BY <1>4, <3>1
    <3> QED BY <3>1, <3>2, <3>3
  <2>3. i <= n \/ i > n
    <3> HIDE DEF n, m
    <3> QED BY <1>1
  <2> QED BY <2>1, <2>2, <2>3
<1>8. p = a \o s
  BY <1>1, <1>6, <1>7, SMTT(20)
<1> QED BY <1>3, <1>8

LEMMA RestCut ==
    ASSUME NEW S, NEW a \in Seq(S), NEW s \in Seq(S)
    PROVE  SubSeq(a \o s, Len(a) + 1, Len(a \o s)) = s
<1> DEFINE n == Len(a)
           k == Len(s)
           p == a \o s
           q == SubSeq(p, n + 1, n + k)
<1>1. /\ n \in Nat /\ k \in Nat /\ p \in Seq(S) /\ Len(p) = n + k
      /\ \A i \in 1 .. k : p[n + i] = s[i]
  OBVIOUS
<1> HIDE DEF p
<1>2. \A i \in n + 1 .. n + k : p[i] \in S
  BY <1>1
<1>3. /\ q \in Seq(S) /\ Len(q) = IF n + 1 <= n + k THEN n + k - (n + 1) + 1 ELSE 0
      /\ \A i \in 1 .. n + k - (n + 1) + 1 : q[i] = p[n + 1 + i - 1]
  <2> HIDE DEF n, k
  <2>1. n + 1 \in Int /\ n + k \in Int
    BY <1>1
  <2> QED BY <1>1, <1>2, <2>1, SubSeqProperties
<1> HIDE DEF q
<1>4. Len(q) = k
  <2> HIDE DEF n, k
  <2> QED BY <1>1, <1>3
<1>5. ASSUME NEW i \in 1 .. k PROVE q[i] = s[i]
  <2> HIDE DEF n, k
  <2>1. i \in 1 .. n + k - (n + 1) + 1 /\ n + 1 + i - 1 = n + i
    BY <1>1
  <2>2. q[i] = p[n + i]
    BY <1>3, <2>1
  <2> QED BY <1>1, <2>2
<1>6. q = s
  BY <1>3, <1>4, <1>5
<1> QED BY <1>1, <1>6 DEF q, p

\* What is below one path is below the other with the same names.
LEMMA RebasedParts ==
    ASSUME NEW S, NEW p \in Seq(S), NEW a \in Seq(S), NEW b \in Seq(S), StartsWith(p, a)
    PROVE  /\ Rebased(p, a, b) \in Seq(S) /\ StartsWith(Rebased(p, a, b), b)
           /\ Rebased(Rebased(p, a, b), b, a) = p
           /\ p = a <=> Rebased(p, a, b) = b
           /\ p # a => /\ Rebased(p, a, b) # <<>> /\ p # <<>>
                       /\ Parent(Rebased(p, a, b)) = Rebased(Parent(p), a, b)
                       /\ Last(Rebased(p, a, b)) = Last(p)
<1>1. ASSUME NEW x \in Seq(S), NEW y \in Seq(S), NEW s \in Seq(S)
      PROVE  Rebased(x \o s, x, y) = y \o s
  <2>1. SubSeq(x \o s, Len(x) + 1, Len(x \o s)) = s
    BY RestCut
  <2> QED BY <2>1 DEF Rebased
<1>2. PICK s \in Seq(S) : p = a \o s
  BY RestParts, SMTT(20)
<1>3. Rebased(p, a, b) = b \o s /\ Rebased(b \o s, b, a) = p
  BY <1>1, <1>2
<1>4. b \o s \in Seq(S) /\ StartsWith(b \o s, b)
  BY StartsWithConcat
<1>5. ASSUME NEW x \in Seq(S) PROVE x \o s = x <=> s = <<>>
  <2>1. Len(x \o s) = Len(x) + Len(s) /\ Len(x) \in Nat /\ Len(s) \in Nat
    OBVIOUS
  <2>2. s # <<>> => Len(s) # 0
    OBVIOUS
  <2>3. s = <<>> => x \o s = x
    OBVIOUS
  <2> QED BY <2>1, <2>2, <2>3
<1>6. p = a <=> b \o s = b
  BY <1>2, <1>5
<1>7. ASSUME p # a
      PROVE  /\ b \o s # <<>> /\ p # <<>> /\ Parent(b \o s) = Rebased(Parent(p), a, b)
             /\ Last(b \o s) = Last(p)
  <2>1. s # <<>>
    BY <1>2, <1>5, <1>7
  <2>2. Parent(s) \in Seq(S) /\ Last(s) \in S /\ Append(Parent(s), Last(s)) = s
    BY <2>1, ParentParts
  <2>3. ASSUME NEW x \in Seq(S)
        PROVE  /\ x \o s # <<>> /\ Parent(x \o s) = x \o Parent(s) /\ Last(x \o s) = Last(s)
    <3> DEFINE q == Parent(s)
               l == Last(s)
    <3>1. q \in Seq(S) /\ l \in S /\ s = Append(q, l)
      BY <2>2
    <3> HIDE DEF q, l
    <3>2. x \o Append(q, l) = Append(x \o q, l)
      BY <3>1
    <3>3. x \o q \in Seq(S)
      BY <3>1
    <3>4. /\ Append(x \o q, l) # <<>> /\ Parent(Append(x \o q, l)) = x \o q
          /\ Last(Append(x \o q, l)) = l
      BY <3>1, <3>3, AppendParts
    <3> QED BY <3>1, <3>2, <3>4 DEF q, l
  <2>4. Parent(p) = a \o Parent(s) /\ p # <<>> /\ Last(p) = Last(s)
    BY <1>2, <2>3
  <2>5. Rebased(a \o Parent(s), a, b) = b \o Parent(s)
    BY <1>1, <2>2
  <2> QED BY <2>3, <2>4, <2>5
<1> QED BY <1>3, <1>4, <1>6, <1>7

-----------------------------------------------------------------------------
(***************************************************************************)
(* The walk of a path.                                                     *)
(***************************************************************************)

\* A tree whose links have targets that are paths.
Linked(t) ==
    /\ DOMAIN t \subseteq Seq(AllNames)
    /\ \A p \in DOMAIN t : t[p].kind = "link" => t[p].target \in Seq(Names)

Stages == [done : Seq(Names), rest : Seq(Names)]
From(path) == [done |-> <<>>, rest |-> path]

LEMMA StagesMade ==
    ASSUME NEW a \in Seq(Names), NEW b \in Seq(Names)
    PROVE  [done |-> a, rest |-> b] \in Stages
BY DEF Stages

LEMMA FromParts ==
    ASSUME NEW path \in Seq(Names)
    PROVE  From(path) \in Stages /\ From(path).done = <<>> /\ From(path).rest = path
<1>1. <<>> \in Seq(Names)
  OBVIOUS
<1> QED BY <1>1, StagesMade DEF From

LEMMA WalkStepType ==
    ASSUME NEW t, Linked(t), NEW at \in Stages
    PROVE  WalkStep(t, at) \in Stages
<1>1. CASE at.rest = <<>>
  BY <1>1 DEF WalkStep
<1>2. CASE at.rest # <<>>
  <2> DEFINE here == Append(at.done, Head(at.rest))
             node == Node(t, here)
  <2>1. here \in Seq(Names) /\ Tail(at.rest) \in Seq(Names)
    BY <1>2, HeadParts, AppendParts DEF Stages
  <2>2. node.kind = "link" => node.target \in Seq(Names)
    BY DEF Linked, Node, Absent
  <2>3. node.kind = "link" => node.target \o Tail(at.rest) \in Seq(Names)
    BY <2>1, <2>2
  <2>4. WalkStep(t, at) \in {at, [done |-> <<>>, rest |-> node.target \o Tail(at.rest)],
                             [done |-> here, rest |-> Tail(at.rest)]}
    BY DEF WalkStep
  <2>5. node.kind # "link" => WalkStep(t, at) \in {at, [done |-> here, rest |-> Tail(at.rest)]}
    BY DEF WalkStep
  <2>6. <<>> \in Seq(Names)
    OBVIOUS
  <2> HIDE DEF here, node
  <2>7. CASE node.kind = "link"
    <3>1. [done |-> <<>>, rest |-> node.target \o Tail(at.rest)] \in Stages
      BY <2>3, <2>6, <2>7, StagesMade
    <3>2. [done |-> here, rest |-> Tail(at.rest)] \in Stages
      BY <2>1, StagesMade
    <3> QED BY <2>4, <3>1, <3>2, Zenon
  <2>8. CASE node.kind # "link"
    <3>1. [done |-> here, rest |-> Tail(at.rest)] \in Stages
      BY <2>1, StagesMade
    <3> QED BY <2>5, <2>8, <3>1, Zenon
  <2> QED BY <2>7, <2>8
<1> QED BY <1>1, <1>2

\* A walk is the iteration of its step.
LEMMA WalkUnfolds ==
    ASSUME NEW t, Linked(t), NEW path \in Seq(Names)
    PROVE  /\ Walk(t, path) \in [Nat -> Stages]
           /\ Walk(t, path)[0] = From(path)
           /\ \A n \in Nat : Walk(t, path)[n + 1] = WalkStep(t, Walk(t, path)[n])
<1> DEFINE Unrolled(f) == [n \in Nat |-> IF n = 0 THEN From(path) ELSE WalkStep(t, f[n - 1])]
           F == [n \in Nat |-> [at \in Stages |-> WalkStep(t, at)]]
           w == Walk(t, path)
<1>1. F \in [Nat -> [Stages -> Stages]] /\ From(path) \in Stages
  BY WalkStepType DEF Stages, From
<1>2. PICK f \in [Nat -> Stages] : f[0] = From(path) /\ \A n \in Nat : f[n + 1] = F[n][f[n]]
  <2>1. Iterations(Stages, F, From(path)) # {}
    <3> HIDE DEF F
    <3> QED BY <1>1, Iteration
  <2>2. PICK f : f \in Iterations(Stages, F, From(path))
    BY <2>1
  <2> HIDE DEF F
  <2> QED BY <2>2 DEF Iterations
<1>3. f = Unrolled(f)
  <2>1. ASSUME NEW n \in Nat PROVE f[n] = Unrolled(f)[n]
    <3>1. CASE n = 0
      BY <1>2, <3>1
    <3>2. CASE n # 0
      <4>1. n - 1 \in Nat /\ (n - 1) + 1 = n
        BY <3>2
      <4>2. f[n] = F[n - 1][f[n - 1]]
        BY <1>2, <4>1
      <4> QED BY <1>2, <3>2, <4>1, <4>2
    <3> QED BY <3>1, <3>2
  <2> HIDE DEF F
  <2> QED BY <1>2, <2>1
<1>4. w = CHOOSE g : g = Unrolled(g)
  BY DEF Walk, From
<1>5. w = Unrolled(w)
  <2> HIDE DEF Unrolled, w
  <2> QED BY <1>3, <1>4
<1>6. w[0] = From(path) /\ \A n \in Nat : w[n + 1] = WalkStep(t, w[n])
  <2>1. \A n \in Nat : w[n] = IF n = 0 THEN From(path) ELSE WalkStep(t, w[n - 1])
    <3> HIDE DEF w
    <3> QED BY <1>5
  <2>2. ASSUME NEW n \in Nat PROVE w[n + 1] = WalkStep(t, w[n])
    <3>1. n + 1 \in Nat /\ n + 1 # 0 /\ (n + 1) - 1 = n
      OBVIOUS
    <3> HIDE DEF w
    <3> QED BY <2>1, <3>1
  <2> HIDE DEF w
  <2> QED BY <2>1, <2>2
<1>7. w \in [Nat -> Stages]
  <2>1. \A n \in Nat : n \in {m \in Nat : w[m] \in Stages}
    <3>1. 0 \in {m \in Nat : w[m] \in Stages}
      BY <1>1, <1>6
    <3>2. ASSUME NEW n \in Nat, w[n] \in Stages PROVE w[n + 1] \in Stages
      <4>1. WalkStep(t, w[n]) \in Stages
        BY <3>2, WalkStepType
      <4> QED BY <1>6, <4>1
    <3> DEFINE S == {m \in Nat : w[m] \in Stages}
    <3>3. 0 \in S /\ \A n \in Nat : n \in S => n + 1 \in S
      <4> HIDE DEF w
      <4> QED BY <3>1, <3>2
    <3> HIDE DEF S
    <3>4. \A n \in Nat : n \in S
      BY <3>3, NatSetInduction
    <3> QED BY <3>4 DEF S
  <2>2. DOMAIN w = Nat /\ w = [n \in Nat |-> w[n]]
    <3> HIDE DEF w
    <3> QED BY <1>5
  <2> HIDE DEF w
  <2> QED BY <2>1, <2>2
<1> QED BY <1>6, <1>7

\* What every step of a walk keeps holds at its end.
LEMMA WalkKeeps ==
    ASSUME NEW t, Linked(t), NEW path \in Seq(Names), NEW I,
           From(path) \in I,
           \A at \in Stages : at \in I => WalkStep(t, at) \in I
    PROVE  \A n \in Nat : Walk(t, path)[n] \in I
<1> DEFINE w == Walk(t, path)
           S == {n \in Nat : w[n] \in I}
<1>1. w \in [Nat -> Stages] /\ w[0] = From(path) /\ \A n \in Nat : w[n + 1] = WalkStep(t, w[n])
  BY WalkUnfolds
<1> HIDE DEF w
<1>2. 0 \in S
  BY <1>1
<1>3. \A n \in Nat : n \in S => n + 1 \in S
  BY <1>1
<1> HIDE DEF S
<1>4. \A n \in Nat : n \in S
  BY <1>2, <1>3, NatSetInduction
<1> QED BY <1>4 DEF S, w

LEMMA CanonicalType ==
    ASSUME NEW t, Linked(t), NEW path \in Seq(Names)
    PROVE  /\ Walk(t, path)[MaxHops] \in Stages
           /\ Canonicalize(t, path).path \in Seq(Names)
           /\ Canonicalize(t, path).ok <=> Walk(t, path)[MaxHops].rest = <<>>
           /\ Canonicalize(t, path).ok =>
                 Canonicalize(t, path).path = Walk(t, path)[MaxHops].done
           /\ ~ Canonicalize(t, path).ok => Canonicalize(t, path).path = path
<1>1. Walk(t, path)[MaxHops] \in Stages
  BY WalkUnfolds, FilesystemAssumption
<1>2. Walk(t, path)[MaxHops].done \in Seq(Names)
  BY <1>1 DEF Stages
<1> QED BY <1>1, <1>2 DEF Canonicalize

\* No component of the path is a link.
LinkFree(t, path) == \A n \in 1 .. Len(path) : Node(t, SubSeq(path, 1, n)).kind # "link"

LEMMA LinkFreeAppend ==
    ASSUME NEW S, NEW p \in Seq(S), NEW x \in S, NEW t,
           LinkFree(t, p), Node(t, Append(p, x)).kind # "link"
    PROVE  LinkFree(t, Append(p, x))
<1> SUFFICES ASSUME NEW n \in 1 .. Len(p) + 1
             PROVE  Node(t, SubSeq(Append(p, x), 1, n)).kind # "link"
  BY DEF LinkFree
<1>1. CASE n = Len(p) + 1
  <2>1. SubSeq(Append(p, x), 1, n) = Append(p, x)
    BY <1>1
  <2> QED BY <2>1
<1>2. CASE n # Len(p) + 1
  <2>1. n \in 1 .. Len(p) /\ SubSeq(Append(p, x), 1, n) = SubSeq(p, 1, n)
    BY <1>2
  <2> QED BY <2>1 DEF LinkFree
<1> QED BY <1>1, <1>2

LEMMA LinkFreeParent ==
    ASSUME NEW S, NEW p \in Seq(S), p # <<>>, NEW t, LinkFree(t, p)
    PROVE  LinkFree(t, Parent(p))
<1> SUFFICES ASSUME NEW n \in 1 .. Len(p) - 1
             PROVE  Node(t, SubSeq(Parent(p), 1, n)).kind # "link"
  BY ParentParts DEF LinkFree
<1>1. SubSeq(Parent(p), 1, n) = SubSeq(p, 1, n) /\ n \in 1 .. Len(p)
  BY ParentParts
<1> QED BY <1>1 DEF LinkFree

\* canonicalize returns a path without links.
LEMMA CanonicalLinkFree ==
    ASSUME NEW t, Linked(t), NEW path \in Seq(Names), Canonicalize(t, path).ok
    PROVE  LinkFree(t, Canonicalize(t, path).path)
<1> DEFINE I == {at \in Stages : LinkFree(t, at.done)}
<1>1. From(path) \in I
  <2>1. LinkFree(t, <<>>)
    BY DEF LinkFree
  <2> QED BY <2>1, FromParts
<1>2. ASSUME NEW at \in Stages, at \in I PROVE WalkStep(t, at) \in I
  <2> DEFINE here == Append(at.done, Head(at.rest))
  <2>1. WalkStep(t, at) \in Stages
    BY WalkStepType
  <2>2. CASE WalkStep(t, at) = at
    BY <1>2, <2>2
  <2>3. CASE WalkStep(t, at).done = <<>>
    BY <2>1, <2>3 DEF LinkFree
  <2>4. CASE WalkStep(t, at).done = here /\ at.rest # <<>> /\ Node(t, here).kind # "link"
    <3>1. at.done \in Seq(Names) /\ Head(at.rest) \in Names /\ LinkFree(t, at.done)
      BY <1>2, <2>4 DEF Stages
    <3>2. LinkFree(t, here)
      BY <2>4, <3>1, LinkFreeAppend
    <3> HIDE DEF here
    <3> QED BY <2>1, <2>4, <3>2
  <2> QED BY <2>2, <2>3, <2>4 DEF WalkStep
<1> HIDE DEF I
<1>3. Walk(t, path)[MaxHops] \in I
  BY <1>1, <1>2, WalkKeeps, FilesystemAssumption
<1> QED BY <1>3, CanonicalType DEF I

LEMMA NextPart ==
    ASSUME NEW S, NEW a \in Seq(S), NEW b \in Seq(S), b # <<>>
    PROVE  /\ Append(a, Head(b)) \o Tail(b) = a \o b
           /\ SubSeq(a \o b, 1, Len(a) + 1) = Append(a, Head(b))
           /\ Len(a) + 1 \in 1 .. Len(a \o b)
<1>1. Len(b) \in Nat /\ Len(b) > 0 /\ Len(a) \in Nat
  OBVIOUS
<1>2. Append(a, Head(b)) \o Tail(b) = a \o b
  BY <1>1
<1>3. SubSeq(a \o b, 1, Len(a) + 1) = Append(a, Head(b))
  BY <1>1
<1> QED BY <1>1, <1>2, <1>3

\* A path without links is its own canonical form.
LEMMA CanonicalFixed ==
    ASSUME NEW t, Linked(t), NEW path \in Seq(Names), LinkFree(t, path)
    PROVE  Canonicalize(t, path).path = path
<1> DEFINE I == {at \in Stages : at.done \o at.rest = path}
<1>1. From(path) \in I
  <2>1. <<>> \o path = path
    OBVIOUS
  <2> QED BY <2>1, FromParts
<1>2. ASSUME NEW at \in Stages, at \in I PROVE WalkStep(t, at) \in I
  <2> DEFINE here == Append(at.done, Head(at.rest))
  <2>1. at.done \in Seq(Names) /\ at.rest \in Seq(Names) /\ at.done \o at.rest = path
    BY <1>2 DEF Stages
  <2>2. CASE at.rest = <<>>
    BY <1>2, <2>2 DEF WalkStep
  <2>3. CASE at.rest # <<>>
    <3>1. here \o Tail(at.rest) = path /\ Node(t, here).kind # "link"
      BY <2>1, <2>3, NextPart DEF LinkFree
    <3>2. WalkStep(t, at) \in {at, [done |-> here, rest |-> Tail(at.rest)]}
      BY <3>1 DEF WalkStep
    <3>3. here \in Seq(Names) /\ Tail(at.rest) \in Seq(Names)
      BY <2>1, <2>3, HeadParts, AppendParts
    <3> HIDE DEF here
    <3>4. [done |-> here, rest |-> Tail(at.rest)] \in I
      BY <3>1, <3>3, StagesMade
    <3> HIDE DEF I
    <3> QED BY <1>2, <3>2, <3>4
  <2> QED BY <2>2, <2>3
<1> HIDE DEF I
<1>3. Walk(t, path)[MaxHops] \in I
  BY <1>1, <1>2, WalkKeeps, FilesystemAssumption
<1>4. CASE Canonicalize(t, path).ok
  <2>1. Walk(t, path)[MaxHops].done \o <<>> = path
    BY <1>3, <1>4, CanonicalType DEF I
  <2>2. Walk(t, path)[MaxHops].done \in Seq(Names)
    BY CanonicalType DEF Stages
  <2> QED BY <1>4, <2>1, <2>2, CanonicalType
<1>5. CASE ~ Canonicalize(t, path).ok
  BY <1>5, CanonicalType
<1> QED BY <1>4, <1>5

LEMMA EntryFixed ==
    ASSUME NEW t, Linked(t), NEW S, NEW path \in Seq(S), path # <<>>,
           Parent(path) \in Seq(Names), LinkFree(t, Parent(path))
    PROVE  /\ Entry(t, path) = path
           /\ HasParent(t, path) => Node(t, Parent(path)).kind = "dir"
<1>1. Canonicalize(t, Parent(path)).path = Parent(path)
  BY CanonicalFixed
<1>2. Entry(t, path) = path
  BY <1>1, ParentParts DEF Entry
<1>3. HasParent(t, path) => Node(t, Parent(path)).kind = "dir"
  BY <1>1 DEF HasParent, KindOf
<1> QED BY <1>2, <1>3

-----------------------------------------------------------------------------
(***************************************************************************)
(* What the adapter and the other programs may do to the tree.             *)
(***************************************************************************)
Inside(path) == StartsWith(path, Root)

\* What exists is in a directory.
Rooted(t) ==
    \A p \in DOMAIN t : p # <<>> /\ t[p].kind # "none" => Node(t, Parent(p)).kind = "dir"

\* No directory has the name of a temporary file.
Plain(t) == \A p \in DOMAIN t : p # <<>> /\ t[p].kind = "dir" => Last(p) \notin Suffixes

\* No link appears, a directory becomes nothing else at once, and nothing
\* changes outside the workspace.
Evolves(t, u) ==
    /\ DOMAIN u = DOMAIN t
    /\ \A p \in DOMAIN t :
          /\ u[p].kind = "link" => u[p] = t[p]
          /\ u[p] # t[p] => Inside(p)
          /\ t[p].kind = "dir" => u[p].kind \in {"dir", "none"}

LEMMA EvolvesNode ==
    ASSUME NEW t, NEW u, Evolves(t, u), NEW p
    PROVE  /\ Node(u, p).kind = "link" => Node(u, p) = Node(t, p)
           /\ Node(u, p).kind # Node(t, p).kind => Inside(p)
           /\ Node(t, p).kind = "dir" => Node(u, p).kind \in {"dir", "none"}
BY DEF Evolves, Node, Absent

LEMMA EvolvesLinked ==
    ASSUME NEW t, NEW u, Evolves(t, u), Linked(t)
    PROVE  Linked(u)
BY DEF Evolves, Linked

LEMMA EvolvesLinkFree ==
    ASSUME NEW t, NEW u, Evolves(t, u), NEW p, LinkFree(t, p)
    PROVE  LinkFree(u, p)
<1> SUFFICES ASSUME NEW n \in 1 .. Len(p), Node(u, SubSeq(p, 1, n)).kind = "link" PROVE FALSE
  BY DEF LinkFree
<1>1. Node(u, SubSeq(p, 1, n)) = Node(t, SubSeq(p, 1, n))
  BY EvolvesNode
<1> QED BY <1>1 DEF LinkFree

\* A walk goes one component further or stays.
LEMMA WalkStepCases ==
    ASSUME NEW t, NEW at \in Stages, at.rest # <<>>
    PROVE  LET here == Append(at.done, Head(at.rest))
               kind == Node(t, here).kind
           IN  /\ kind = "none" => WalkStep(t, at) = at
               /\ kind = "file" => \/ WalkStep(t, at) = at
                                   \/ /\ WalkStep(t, at) = [done |-> here, rest |-> Tail(at.rest)]
                                      /\ Tail(at.rest) = <<>>
               /\ kind = "link" => WalkStep(t, at) =
                     [done |-> <<>>, rest |-> Node(t, here).target \o Tail(at.rest)]
               /\ kind \notin {"none", "file", "link"} =>
                     WalkStep(t, at) = [done |-> here, rest |-> Tail(at.rest)]
               /\ kind # "link" => WalkStep(t, at) \in {at, [done |-> here, rest |-> Tail(at.rest)]}
<1>1. Len(at.rest) > 1 \/ Tail(at.rest) = <<>>
  BY DEF Stages
<1> QED BY <1>1 DEF WalkStep

\* A walk that is not where the same walk in the older tree t would be: it is
\* stuck, or it is inside the workspace and stays there, at its end or in a
\* directory that t does not have.
Strayed(t, u, at) ==
    \/ at.rest # <<>> /\ WalkStep(u, at) = at
    \/ Inside(at.done) /\ (at.rest = <<>> \/ Node(t, at.done).kind # "dir")

LEMMA StrayedStep ==
    ASSUME NEW t, NEW u, Linked(t), Rooted(t), Evolves(t, u), NEW at \in Stages, Strayed(t, u, at)
    PROVE  Strayed(t, u, WalkStep(u, at))
<1>1. CASE WalkStep(u, at) = at
  BY <1>1
<1>2. CASE WalkStep(u, at) # at
  <2> DEFINE here == Append(at.done, Head(at.rest))
  <2>1. at.rest # <<>> /\ Inside(at.done) /\ Node(t, at.done).kind # "dir"
    BY <1>2 DEF Strayed, WalkStep
  <2>2. /\ at.done \in Seq(Names) /\ Head(at.rest) \in Names /\ Root \in Seq(Names)
        /\ here # <<>> /\ Parent(here) = at.done
    BY <2>1, HeadParts, AppendParts, TreeAssumption DEF Stages
  <2>3. Inside(here)
    BY <2>1, <2>2, StartsWithAppend DEF Inside
  <2>4. Node(t, here).kind = "none"
    <3> HIDE DEF here
    <3> QED BY <2>1, <2>2 DEF Rooted, Node, Absent
  <2>5. Node(u, here).kind # "link"
    BY <2>4, EvolvesNode
  <2>6. WalkStep(u, at) = [done |-> here, rest |-> Tail(at.rest)]
    BY <1>2, <2>1, <2>5, WalkStepCases
  <2> HIDE DEF here
  <2> QED BY <2>3, <2>4, <2>6 DEF Strayed
<1> QED BY <1>1, <1>2

LEMMA CommonStep ==
    ASSUME NEW t, NEW u, Linked(t), Evolves(t, u), NEW at \in Stages
    PROVE  WalkStep(u, at) = WalkStep(t, at) \/ Strayed(t, u, WalkStep(u, at))
<1> DEFINE here == Append(at.done, Head(at.rest))
           next == [done |-> here, rest |-> Tail(at.rest)]
<1>1. CASE at.rest = <<>>
  BY <1>1 DEF WalkStep
<1>2. CASE at.rest # <<>> /\ Node(u, here).kind = Node(t, here).kind
  <2>1. CASE Node(u, here).kind = "link"
    <3>1. Node(u, here) = Node(t, here)
      BY <2>1, EvolvesNode
    <3> QED BY <3>1 DEF WalkStep
  <2>2. CASE Node(u, here).kind # "link"
    BY <1>2, <2>2 DEF WalkStep
  <2> QED BY <2>1, <2>2
<1>3. CASE at.rest # <<>> /\ Node(u, here).kind # Node(t, here).kind
  <2>1. Inside(here) /\ Node(u, here).kind # "link"
    BY <1>3, EvolvesNode
  <2>2. CASE WalkStep(u, at) = at
    BY <1>3, <2>2 DEF Strayed
  <2>3. CASE WalkStep(u, at) # at
    <3>1. WalkStep(u, at) = next
      BY <1>3, <2>1, <2>3, WalkStepCases
    <3>2. next.done = here /\ next.rest = Tail(at.rest)
      OBVIOUS
    <3>3. Node(t, here).kind = "dir" => FALSE
      <4> SUFFICES ASSUME Node(t, here).kind = "dir" PROVE FALSE
        OBVIOUS
      <4>1. Node(u, here).kind = "none"
        BY <1>3, EvolvesNode
      <4> QED BY <1>3, <2>3, <4>1, WalkStepCases
    <3> HIDE DEF next, here
    <3> QED BY <2>1, <3>1, <3>2, <3>3 DEF Strayed
  <2> QED BY <2>2, <2>3
<1> QED BY <1>1, <1>2, <1>3

\* A path that leads inside, if it leads anywhere.
LeadsInside(t, path) ==
    Canonicalize(t, path).ok => Inside(Canonicalize(t, path).path)

\* A path that was seen to lead inside cannot be made to lead outside: the two
\* walks agree until the newer one meets something new, and what is new has no
\* links below it.
LEMMA LeadsInsideKept ==
    ASSUME NEW t, NEW u, Linked(t), Rooted(t), Evolves(t, u), NEW path \in Seq(Names),
           LeadsInside(t, path)
    PROVE  LeadsInside(u, path)
<1> DEFINE v == Walk(t, path)
           w == Walk(u, path)
           S == {n \in Nat : w[n] = v[n] \/ Strayed(t, u, w[n])}
<1>0. Linked(u)
  BY EvolvesLinked
<1>1. v \in [Nat -> Stages] /\ v[0] = From(path) /\ \A n \in Nat : v[n + 1] = WalkStep(t, v[n])
  BY WalkUnfolds
<1>2. w \in [Nat -> Stages] /\ w[0] = From(path) /\ \A n \in Nat : w[n + 1] = WalkStep(u, w[n])
  BY <1>0, WalkUnfolds
<1>3. Canonicalize(u, path).ok =>
          w[MaxHops].rest = <<>> /\ Canonicalize(u, path).path = w[MaxHops].done
  BY <1>0, CanonicalType
<1>4. v[MaxHops].rest = <<>> => Inside(v[MaxHops].done)
  BY CanonicalType DEF LeadsInside
<1> HIDE DEF v, w
<1>5. 0 \in S
  BY <1>1, <1>2
<1>6. ASSUME NEW n \in Nat, n \in S PROVE n + 1 \in S
  <2>0. w[n] \in Stages /\ w[n + 1] = WalkStep(u, w[n]) /\ v[n + 1] = WalkStep(t, v[n])
    BY <1>1, <1>2
  <2>1. CASE w[n] = v[n]
    <3>1. WalkStep(u, w[n]) = WalkStep(t, w[n]) \/ Strayed(t, u, WalkStep(u, w[n]))
      BY <2>0, CommonStep
    <3> QED BY <2>0, <2>1, <3>1
  <2>2. CASE Strayed(t, u, w[n])
    <3>1. Strayed(t, u, WalkStep(u, w[n]))
      BY <2>0, <2>2, StrayedStep
    <3> QED BY <2>0, <3>1
  <2> QED BY <1>6, <2>1, <2>2
<1> HIDE DEF S
<1>7. MaxHops \in S
  BY <1>5, <1>6, NatSetInduction, FilesystemAssumption
<1> QED BY <1>3, <1>4, <1>7 DEF S, Strayed, LeadsInside

-----------------------------------------------------------------------------
(***************************************************************************)
(* The invariant.                                                          *)
(***************************************************************************)
Writing == {"data", "replace"}

\* A path that was canonical and inside when it was resolved, and still has no links.
Canonical(t, path) == path \in Seq(Names) /\ Inside(path) /\ LinkFree(t, path)

\* A name below such a path.
Slot(t, path) == path \in Seq(Names) /\ path # <<>> /\ Canonical(t, Parent(path))

\* A request that execute has let through.
Accepted(req) ==
    /\ req \in FileRequests /\ req.op \in FileOps \cup DirectoryOps
    /\ req.op = "file_write" => req.payload # Null
    /\ req.op = "file_move" => req.dest # Null

\* There is no link at or below the path.
Bare(t, path) == \A q \in DOMAIN t : StartsWith(q, path) => t[q].kind # "link"

\* What a thread knows of its paths; the tree may have changed since it resolved them.
Paths(t, j) ==
    /\ j.pc = "resolve" => Accepted(j.req)
    /\ j.pc \in {"temp", "data", "replace", "remove", "move"} =>
          Canonical(t, j.path) /\ j.path # Root
    /\ j.pc \in {"create", "mkdir"} => Slot(t, j.path)
    /\ j.pc \in {"empty", "rmdir"} => Canonical(t, j.path)
    /\ j.pc = "move" => /\ j.temp \in Seq(Names) /\ j.temp # <<>> /\ LeadsInside(t, Parent(j.temp))
                        /\ Bare(t, j.path)

\* How far a write has got.
Progress(j) ==
    /\ j.pc \in {"resolve", "temp"} => j.data = <<>>
    /\ j.pc \in {"temp", "data", "replace"} => j.req \in FileRequests /\ j.req.payload # Null
    /\ j.pc \in Writing => \E suffix \in Suffixes : j.temp = Append(Parent(j.path), suffix)
    /\ j.pc = "data" => \E n \in 0 .. Len(j.req.payload) : j.data = SubSeq(j.req.payload, 1, n)
    /\ j.pc = "replace" => j.data = j.req.payload

\* The temporary file is as its thread left it, unless a directory was moved.
Owns(s, t, j) ==
    ~ s /\ j.pc \in Writing /\ j.temp \in DOMAIN t => t[j.temp] = Regular(j.data)

\* Two threads never write to the same temporary file.
Apart ==
    ~ shifted => \A v, w \in Workers :
        v # w /\ job[v].pc \in Writing /\ job[w].pc \in Writing /\ job[v].temp = job[w].temp =>
            job[w].temp \notin DOMAIN tree

TreeInv ==
    /\ DOMAIN tree = DOMAIN Start
    /\ Linked(tree)
    /\ Rooted(tree)
    /\ Plain(tree)
    /\ Node(tree, Root).kind \in {"dir", "none"}

\* A job has the fields of a free one.
Fields(j) ==
    j = [pc |-> j.pc, req |-> j.req, path |-> j.path, temp |-> j.temp,
         permit |-> j.permit, outcome |-> j.outcome, data |-> j.data]

JobInv ==
    /\ DOMAIN job = Workers
    /\ \A w \in Workers : Fields(job[w]) /\ Paths(tree, job[w]) /\ Progress(job[w])
                          /\ Owns(shifted, tree, job[w])
    /\ Apart

FileInv == TreeInv /\ OutsideUntouched /\ NeverHalfWritten /\ JobInv

-----------------------------------------------------------------------------
(***************************************************************************)
(* Changes of the tree.                                                    *)
(***************************************************************************)

\* The tree after a step is still one, and still has the workspace or nothing in its place.
Sound(t, u) ==
    Evolves(t, u) /\ Rooted(u) /\ Plain(u) /\ Node(u, Root).kind \in {"dir", "none"}

\* Nothing exists below the path.
Childless(t, path) == \A q \in DOMAIN t : q # <<>> /\ Parent(q) = path => t[q].kind = "none"

LEMMA ParentDiffers ==
    ASSUME NEW S, NEW p \in Seq(S), p # <<>>
    PROVE  Parent(p) # p
BY ParentParts

LEMMA NotDirChildless ==
    ASSUME NEW t, Rooted(t), NEW p, Node(t, p).kind # "dir"
    PROVE  Childless(t, p)
BY DEF Rooted, Childless

LEMMA ChildrenChildless ==
    ASSUME NEW t, NEW p, Children(t, p) = {}
    PROVE  Childless(t, p)
BY DEF Children, Childless

\* u is t with n at p.
Sets(t, u, p, n) ==
    DOMAIN u = DOMAIN t /\ \A q \in DOMAIN t : u[q] = IF q = p THEN n ELSE t[q]

LEMMA SetNode ==
    ASSUME NEW t, Linked(t), Rooted(t), Plain(t), Node(t, Root).kind \in {"dir", "none"},
           NEW p \in Seq(AllNames), Inside(p), NEW n, NEW u, Sets(t, u, p, n),
           n.kind # "link",
           Node(t, p).kind = "dir" => n.kind \in {"dir", "none"},
           p = Root => n.kind \in {"dir", "none"},
           n.kind # "none" /\ p # <<>> => Node(t, Parent(p)).kind = "dir",
           n.kind = "dir" \/ Childless(t, p),
           n.kind = "dir" => Last(p) \notin Suffixes
    PROVE  Sound(t, u)
<1> USE DEF Sets
<1>1. Evolves(t, u)
  BY DEF Evolves, Node
<1>2. Node(u, Root).kind \in {"dir", "none"}
  BY DEF Node
<1>3. Rooted(u)
  <2> SUFFICES ASSUME NEW q \in DOMAIN u, q # <<>>, u[q].kind # "none"
               PROVE  Node(u, Parent(q)).kind = "dir"
    BY DEF Rooted
  <2>0. q \in DOMAIN t /\ q \in Seq(AllNames)
    BY DEF Linked
  <2>1. CASE q = p
    <3>1. Parent(q) # q /\ Node(t, Parent(q)).kind = "dir"
      BY <2>0, <2>1, ParentDiffers
    <3> QED BY <2>0, <2>1, <3>1 DEF Node
  <2>2. CASE q # p
    <3>1. t[q].kind # "none" /\ Node(t, Parent(q)).kind = "dir"
      BY <2>0, <2>2 DEF Rooted
    <3>2. CASE Parent(q) = p
      <4>1. n.kind = "dir"
        BY <2>0, <3>1, <3>2 DEF Childless
      <4> QED BY <3>1, <3>2, <4>1 DEF Node, Absent
    <3>3. CASE Parent(q) # p
      BY <3>1, <3>3 DEF Node
    <3> QED BY <3>2, <3>3
  <2> QED BY <2>1, <2>2
<1>4. Plain(u)
  BY DEF Plain
<1> QED BY <1>1, <1>2, <1>3, <1>4 DEF Sound

LEMMA TypesOfConstants ==
    /\ Root \in Seq(Names) /\ Root \in Seq(AllNames) /\ MaxHops \in Nat
    /\ \A p \in Seq(Names) : p \in Seq(AllNames)
    /\ \A x \in Names : x \notin Suffixes
BY TreeAssumption, FilesystemAssumption DEF AllNames

\* Nothing exists below the path, at any depth.
Hollow(t, path) == \A q \in DOMAIN t : StartsWith(q, path) /\ q # path => t[q].kind = "none"

\* What has no entries has nothing below it: what exists is in a directory, and
\* so in the end in an entry of the path.
LEMMA NothingBelow ==
    ASSUME NEW t, Linked(t), Rooted(t), NEW p \in Seq(AllNames), Childless(t, p)
    PROVE  Hollow(t, p)
<1> DEFINE Deep(n) == \A q \in DOMAIN t : Len(q) = n /\ StartsWith(q, p) /\ q # p => t[q].kind = "none"
           S == {n \in Nat : Deep(n)}
<1>1. 0 \in S
  <2>1. ASSUME NEW q \in DOMAIN t, Len(q) = 0, StartsWith(q, p), q # p PROVE FALSE
    <3>1. q \in Seq(AllNames)
      BY DEF Linked
    <3>2. q # <<>>
      BY <2>1, <3>1, StartsWithParent
    <3> QED BY <2>1, <3>1, <3>2
  <2> QED BY <2>1
<1>2. ASSUME NEW n \in Nat, n \in S PROVE n + 1 \in S
  <2> SUFFICES ASSUME NEW q \in DOMAIN t, Len(q) = n + 1, StartsWith(q, p), q # p,
                      t[q].kind # "none"
               PROVE  FALSE
    OBVIOUS
  <2>1. q \in Seq(AllNames) /\ q # <<>> /\ StartsWith(Parent(q), p)
    BY StartsWithParent DEF Linked
  <2>2. Len(Parent(q)) = n
    BY <2>1, ParentParts
  <2>3. Node(t, Parent(q)).kind = "dir"
    BY <2>1 DEF Rooted
  <2>4. Parent(q) \in DOMAIN t /\ t[Parent(q)].kind # "none"
    BY <2>3 DEF Node, Absent
  <2>5. Parent(q) # p
    BY <2>1 DEF Childless
  <2> QED BY <1>2, <2>1, <2>2, <2>4, <2>5
<1> HIDE DEF S
<1>3. \A n \in Nat : n \in S
  BY <1>1, <1>2, NatSetInduction
<1>4. \A n \in Nat : Deep(n)
  BY <1>3 DEF S
<1> SUFFICES ASSUME NEW q \in DOMAIN t, StartsWith(q, p), q # p PROVE t[q].kind = "none"
  BY DEF Hollow
<1>5. Len(q) \in Nat
  BY DEF Linked
<1> QED BY <1>4, <1>5

\* u is t with what is at p, and all that is below it, moved to q.
Carries(t, u, p, q) ==
    /\ DOMAIN u = DOMAIN t
    /\ \A r \in DOMAIN t :
          u[r] = IF StartsWith(r, q) THEN Node(t, Rebased(r, q, p))
                 ELSE IF StartsWith(r, p) THEN Absent ELSE t[r]

\* The tree has a path for everything below p that moves to q.
Fits(t, p, q) ==
    \A r \in DOMAIN t : StartsWith(r, p) /\ t[r].kind # "none" => Rebased(r, p, q) \in DOMAIN t

\* A rename that rename(2) allows: p is a file or a directory without links
\* below it, q is free or may be replaced by it, and is not below p.
Renamable(t, p, q) ==
    /\ p \in Seq(AllNames) /\ q \in Seq(AllNames) /\ q # <<>>
    /\ Inside(p) /\ Inside(q) /\ p # Root /\ q # Root
    /\ Bare(t, p) /\ Hollow(t, q) /\ Fits(t, p, q)
    /\ Node(t, Parent(q)).kind = "dir" /\ ~ StartsWith(Parent(q), p)
    /\ Node(t, q).kind = "dir" => Node(t, p).kind = "dir"
    /\ Node(t, p).kind = "dir" => Last(q) \notin Suffixes

LEMMA CarriedNode ==
    ASSUME NEW t, NEW p, NEW q, NEW u, Carries(t, u, p, q), NEW r
    PROVE  /\ ~ StartsWith(r, q) /\ ~ StartsWith(r, p) => Node(u, r) = Node(t, r)
           /\ StartsWith(r, q) /\ r \in DOMAIN t => Node(u, r) = Node(t, Rebased(r, q, p))
BY DEF Carries, Node

LEMMA RenameTree ==
    ASSUME NEW t, Linked(t), Rooted(t), Plain(t), Node(t, Root).kind \in {"dir", "none"},
           NEW p, NEW q, Renamable(t, p, q), NEW u, Carries(t, u, p, q)
    PROVE  Sound(t, u)
<1>1. /\ p \in Seq(AllNames) /\ q \in Seq(AllNames) /\ q # <<>> /\ Inside(p) /\ Inside(q)
      /\ p # Root /\ q # Root /\ Root \in Seq(AllNames) /\ DOMAIN u = DOMAIN t
      /\ DOMAIN t \subseteq Seq(AllNames)
  BY TypesOfConstants DEF Renamable, Carries, Linked
<1>2. ASSUME NEW r \in DOMAIN t, StartsWith(r, q)
      PROVE  LET o == Rebased(r, q, p) IN
             /\ u[r] = Node(t, o) /\ StartsWith(o, p) /\ o \in Seq(AllNames) /\ Inside(r)
             /\ Rebased(o, p, q) = r /\ (r = q => o = p)
             /\ r # q => /\ o # <<>> /\ r # <<>> /\ Parent(o) = Rebased(Parent(r), q, p)
                         /\ Last(o) = Last(r)
  <2>1. r \in Seq(AllNames)
    BY <1>1
  <2>2. Inside(r)
    BY <1>1, <1>2, <2>1, StartsWithTrans DEF Inside
  <2>3. u[r] = Node(t, Rebased(r, q, p))
    BY <1>2 DEF Carries
  <2> QED BY <1>1, <1>2, <2>1, <2>2, <2>3, RebasedParts
<1>3. ASSUME NEW r \in DOMAIN t, ~ StartsWith(r, q), StartsWith(r, p)
      PROVE  u[r] = Absent /\ Inside(r)
  <2>1. r \in Seq(AllNames) /\ u[r] = Absent
    BY <1>1, <1>3 DEF Carries
  <2> QED BY <1>1, <1>3, <2>1, StartsWithTrans DEF Inside
<1>4. ASSUME NEW r \in DOMAIN t, ~ StartsWith(r, q), ~ StartsWith(r, p) PROVE u[r] = t[r]
  BY <1>4 DEF Carries
<1>5. Absent.kind = "none"
  BY DEF Absent
<1>6. Evolves(t, u)
  <2> SUFFICES ASSUME NEW r \in DOMAIN t
               PROVE  /\ u[r].kind = "link" => u[r] = t[r]
                      /\ u[r] # t[r] => Inside(r)
                      /\ t[r].kind = "dir" => u[r].kind \in {"dir", "none"}
    BY <1>1 DEF Evolves
  <2>1. CASE StartsWith(r, q)
    <3> DEFINE o == Rebased(r, q, p)
    <3>1. u[r] = Node(t, o) /\ StartsWith(o, p) /\ Inside(r) /\ (r = q => o = p)
      BY <1>2, <2>1
    <3> HIDE DEF o
    <3>2. u[r].kind # "link"
      BY <1>5, <3>1 DEF Node, Renamable, Bare
    <3>3. t[r].kind = "dir" => r = q
      BY <2>1 DEF Renamable, Hollow
    <3>4. t[r].kind = "dir" => u[r].kind = "dir"
      BY <3>1, <3>3 DEF Renamable, Node
    <3> QED BY <3>1, <3>2, <3>4
  <2>2. CASE ~ StartsWith(r, q) /\ StartsWith(r, p)
    BY <1>3, <1>5, <2>2
  <2>3. CASE ~ StartsWith(r, q) /\ ~ StartsWith(r, p)
    BY <1>4, <2>3
  <2> QED BY <2>1, <2>2, <2>3
<1>7. Node(u, Root).kind \in {"dir", "none"}
  <2>1. ASSUME NEW x \in {p, q} PROVE ~ StartsWith(Root, x)
    <3>1. Len(x) > Len(Root) /\ Len(x) \in Nat /\ Len(Root) \in Nat
      BY <1>1, <2>1, StartsWithParent DEF Inside
    <3> QED BY <3>1 DEF StartsWith
  <2>2. Node(u, Root) = Node(t, Root)
    BY <2>1, CarriedNode
  <2> QED BY <2>2
<1>8. Plain(u)
  <2> SUFFICES ASSUME NEW r \in DOMAIN u, r # <<>>, u[r].kind = "dir"
               PROVE  Last(r) \notin Suffixes
    BY DEF Plain
  <2>0. r \in DOMAIN t
    BY <1>1
  <2>1. CASE StartsWith(r, q)
    <3> DEFINE o == Rebased(r, q, p)
    <3>1. /\ u[r] = Node(t, o) /\ (r = q => o = p)
          /\ r # q => o # <<>> /\ Last(o) = Last(r)
      BY <1>2, <2>0, <2>1
    <3> HIDE DEF o
    <3>2. o \in DOMAIN t /\ t[o].kind = "dir"
      BY <1>5, <3>1 DEF Node
    <3>3. CASE r = q
      BY <3>1, <3>2, <3>3 DEF Renamable, Node
    <3>4. CASE r # q
      BY <3>1, <3>2, <3>4 DEF Plain
    <3> QED BY <3>3, <3>4
  <2>2. CASE ~ StartsWith(r, q) /\ StartsWith(r, p)
    BY <1>3, <1>5, <2>0, <2>2
  <2>3. CASE ~ StartsWith(r, q) /\ ~ StartsWith(r, p)
    BY <1>4, <2>0, <2>3 DEF Plain
  <2> QED BY <2>1, <2>2, <2>3
<1>9. Rooted(u)
  <2> SUFFICES ASSUME NEW r \in DOMAIN u, r # <<>>, u[r].kind # "none"
               PROVE  Node(u, Parent(r)).kind = "dir"
    BY DEF Rooted
  <2>0. r \in DOMAIN t /\ r \in Seq(AllNames)
    BY <1>1
  <2>1. CASE r = q
    <3>0. q \in Seq(AllNames) /\ q # <<>>
      BY <1>1
    <3>1. Len(Parent(q)) = Len(q) - 1 /\ Len(q) \in Nat
      BY <3>0, ParentParts
    <3>2. ~ StartsWith(Parent(q), q)
      BY <3>1 DEF StartsWith
    <3>3. Node(u, Parent(q)) = Node(t, Parent(q))
      BY <3>2, CarriedNode DEF Renamable
    <3> QED BY <2>1, <3>3 DEF Renamable
  <2>2. CASE StartsWith(r, q) /\ r # q
    <3> DEFINE o == Rebased(r, q, p)
    <3>1. /\ u[r] = Node(t, o) /\ o # <<>> /\ Parent(o) = Rebased(Parent(r), q, p)
          /\ o \in Seq(AllNames) /\ StartsWith(o, p) /\ Rebased(o, p, q) = r
      BY <1>2, <2>0, <2>2
    <3>2. Parent(r) \in Seq(AllNames) /\ StartsWith(Parent(r), q)
      BY <1>1, <2>0, <2>2, StartsWithParent, ParentParts
    <3>3. StartsWith(Parent(o), p) /\ Rebased(Parent(o), p, q) = Parent(r)
      BY <1>1, <3>1, <3>2, RebasedParts
    <3> HIDE DEF o
    <3>4. Node(t, Parent(o)).kind = "dir"
      BY <1>5, <3>1 DEF Node, Rooted
    <3>5. Parent(o) \in DOMAIN t /\ t[Parent(o)].kind # "none"
      BY <1>5, <3>4 DEF Node
    <3>6. Parent(r) \in DOMAIN t
      BY <3>3, <3>5 DEF Renamable, Fits
    <3>7. Node(u, Parent(r)) = Node(t, Parent(o))
      BY <3>1, <3>2, <3>6, CarriedNode
    <3> QED BY <3>4, <3>7
  <2>3. CASE ~ StartsWith(r, q) /\ StartsWith(r, p)
    BY <1>3, <1>5, <2>0, <2>3
  <2>4. CASE ~ StartsWith(r, q) /\ ~ StartsWith(r, p)
    <3>1. u[r] = t[r] /\ Node(t, Parent(r)).kind = "dir"
      BY <1>4, <2>0, <2>4 DEF Rooted
    <3>2. ASSUME NEW x \in {p, q}, StartsWith(Parent(r), x) PROVE FALSE
      <4>1. /\ Parent(r) \in Seq(AllNames) /\ Last(r) \in AllNames
            /\ Append(Parent(r), Last(r)) = r
        BY <2>0, ParentParts
      <4>2. StartsWith(r, x)
        BY <1>1, <3>2, <4>1, StartsWithAppend
      <4> QED BY <2>4, <3>2, <4>2
    <3>3. Node(u, Parent(r)) = Node(t, Parent(r))
      BY <3>2, CarriedNode
    <3> QED BY <3>1, <3>3
  <2>5. r = q => StartsWith(r, q)
    BY <1>1, StartsWithSelf
  <2> QED BY <2>1, <2>2, <2>3, <2>4
<1> QED BY <1>6, <1>7, <1>8, <1>9 DEF Sound

\* u is t with the file at p moved to q; what does not exist may differ.
MovedAt(t, u, p, q, r) ==
    \/ r = q /\ u[r] = t[p]
    \/ r = p /\ u[r].kind = "none"
    \/ u[r] = t[r]
    \/ u[r].kind = "none" /\ t[r].kind = "none"

Moves(t, u, p, q) ==
    /\ DOMAIN u = DOMAIN t
    /\ \A r \in DOMAIN t : MovedAt(t, u, p, q, r)

LEMMA RenameFile ==
    ASSUME NEW t, Linked(t), Rooted(t), NEW p \in Seq(AllNames), NEW q \in Seq(AllNames),
           Node(t, p).kind = "file", Hollow(t, q), NEW u, Carries(t, u, p, q)
    PROVE  Hollow(t, p) /\ Moves(t, u, p, q)
<1>1. Hollow(t, p)
  BY NotDirChildless, NothingBelow
<1>2. Absent.kind = "none" /\ DOMAIN u = DOMAIN t /\ p \in DOMAIN t
  BY DEF Absent, Carries, Node
<1> SUFFICES ASSUME NEW r \in DOMAIN t PROVE MovedAt(t, u, p, q, r)
  BY <1>1, <1>2 DEF Moves
<1> USE DEF MovedAt
<1>3. r \in Seq(AllNames)
  BY DEF Linked
<1>4. CASE StartsWith(r, q)
  <2> DEFINE o == Rebased(r, q, p)
  <2>1. u[r] = Node(t, o)
    BY <1>4 DEF Carries
  <2>2. StartsWith(o, p) /\ (r = q <=> o = p)
    BY <1>3, <1>4, RebasedParts
  <2> HIDE DEF o
  <2>3. CASE r = q
    BY <1>2, <2>1, <2>2, <2>3 DEF Node
  <2>4. CASE r # q
    <3>1. t[r].kind = "none"
      BY <1>4, <2>4 DEF Hollow
    <3>2. Node(t, o).kind = "none"
      BY <1>1, <1>2, <2>2, <2>4 DEF Hollow, Node
    <3> QED BY <2>1, <3>1, <3>2
  <2> QED BY <2>3, <2>4
<1>5. CASE ~ StartsWith(r, q) /\ StartsWith(r, p)
  <2>1. u[r] = Absent
    BY <1>5 DEF Carries
  <2> QED BY <1>1, <1>2, <1>5, <2>1 DEF Hollow
<1>6. CASE ~ StartsWith(r, q) /\ ~ StartsWith(r, p)
  BY <1>6 DEF Carries
<1> QED BY <1>4, <1>5, <1>6

LEMMA SoundSame ==
    ASSUME NEW t, Rooted(t), Plain(t), Node(t, Root).kind \in {"dir", "none"}
    PROVE  Sound(t, t)
BY DEF Sound, Evolves

-----------------------------------------------------------------------------
(***************************************************************************)
(* A step of one thread.                                                   *)
(***************************************************************************)

LEMMA PathsKept ==
    ASSUME NEW t, NEW u, Linked(t), Rooted(t), Evolves(t, u), NEW j, Paths(t, j)
    PROVE  Paths(u, j)
<1>1. ASSUME NEW p, Canonical(t, p) PROVE Canonical(u, p)
  BY <1>1, EvolvesLinkFree DEF Canonical
<1>2. ASSUME NEW p, Slot(t, p) PROVE Slot(u, p)
  BY <1>1, <1>2 DEF Slot
<1>3. ASSUME NEW p \in Seq(Names), p # <<>>, LeadsInside(t, Parent(p))
      PROVE  LeadsInside(u, Parent(p))
  <2>1. Parent(p) \in Seq(Names)
    BY <1>3, ParentParts
  <2> QED BY <1>3, <2>1, LeadsInsideKept
<1>4. ASSUME NEW p, Bare(t, p) PROVE Bare(u, p)
  BY <1>4 DEF Bare, Evolves
<1> QED BY <1>1, <1>2, <1>3, <1>4 DEF Paths

\* A path that names no temporary file.
Named(path) == path \in Seq(Names) \/ Last(path) \notin Suffixes

LEMMA TempParts ==
    ASSUME NEW t, NEW j, Paths(t, j), Progress(j), j.pc \in Writing
    PROVE  /\ j.temp \in Seq(AllNames) /\ j.temp # <<>> /\ ~ Named(j.temp)
           /\ Parent(j.temp) = Parent(j.path) /\ Last(j.temp) \in Suffixes
           /\ Inside(Parent(j.temp)) /\ Inside(j.temp) /\ j.temp # Root
           /\ Slot(t, j.path) /\ Canonical(t, j.path) /\ j.path # Root
<1>1. Canonical(t, j.path) /\ j.path # Root
  BY DEF Paths, Writing
<1>2. PICK suffix \in Suffixes : j.temp = Append(Parent(j.path), suffix)
  BY DEF Progress
<1>3. /\ j.path \in Seq(Names) /\ Inside(j.path) /\ j.path # <<>>
      /\ Inside(Parent(j.path)) /\ Parent(j.path) \in Seq(Names)
  BY <1>1, TypesOfConstants, StartsWithParent, ParentParts DEF Canonical, Inside
<1>4. Parent(j.path) \in Seq(AllNames) /\ suffix \in AllNames
  BY <1>3, TypesOfConstants DEF AllNames
<1>5. /\ j.temp \in Seq(AllNames) /\ j.temp # <<>> /\ Parent(j.temp) = Parent(j.path)
      /\ Last(j.temp) = suffix /\ Len(j.temp) = Len(Parent(j.path)) + 1
  BY <1>2, <1>4, AppendParts
<1>6. j.temp \notin Seq(Names)
  BY <1>5, ParentParts, TypesOfConstants
<1>7. Inside(j.temp)
  BY <1>2, <1>3, <1>4, TypesOfConstants, StartsWithAppend DEF Inside
<1>8. Slot(t, j.path)
  BY <1>1, <1>3, LinkFreeParent DEF Slot, Canonical
<1>9. j.temp # Root
  BY <1>6, TypesOfConstants
<1> QED BY <1>1, <1>3, <1>5, <1>6, <1>7, <1>8, <1>9 DEF Named

\* What a step of w may change without disturbing the others: what they cannot
\* name, what is its own, and what does not exist.
May(w, p) ==
    \/ Named(p)
    \/ job[w].pc \in Writing /\ p = job[w].temp
    \/ tree[p].kind = "none"

LEMMA JobStep ==
    ASSUME FileInv, NEW w \in Workers, DOMAIN job' = Workers,
           \A v \in Workers : v # w => job'[v] = job[v],
           Sound(tree, tree'), NeverHalfWritten', shifted => shifted',
           ~ shifted' => \A p \in DOMAIN tree : tree'[p] # tree[p] => May(w, p),
           Fields(job'[w]), Paths(tree', job'[w]), Progress(job'[w]), Owns(shifted', tree', job'[w]),
           ~ shifted' /\ job'[w].pc \in Writing =>
               \/ job[w].pc \in Writing /\ job'[w].temp = job[w].temp
               \/ Node(tree, job'[w].temp).kind = "none"
    PROVE  FileInv'
<1>0. /\ Linked(tree) /\ Rooted(tree) /\ DOMAIN tree = DOMAIN Start /\ DOMAIN job = Workers
      /\ Evolves(tree, tree') /\ DOMAIN tree' = DOMAIN tree
  BY DEF FileInv, TreeInv, JobInv, Sound, Evolves
<1>1. TreeInv'
  BY <1>0, EvolvesLinked DEF TreeInv, Sound
<1>2. OutsideUntouched'
  BY <1>0 DEF FileInv, OutsideUntouched, Evolves, Inside
<1>3. ASSUME NEW v \in Workers, v # w
      PROVE  Fields(job'[v]) /\ Paths(tree', job'[v]) /\ Progress(job'[v]) /\ Owns(shifted', tree', job'[v])
  <2>1. /\ job'[v] = job[v] /\ Fields(job[v]) /\ Paths(tree, job[v]) /\ Progress(job[v])
        /\ Owns(shifted, tree, job[v])
    BY <1>3 DEF FileInv, JobInv
  <2>2. Paths(tree', job[v])
    BY <1>0, <2>1, PathsKept
  <2>3. Owns(shifted', tree', job[v])
    <3> SUFFICES ASSUME ~ shifted', ~ shifted, job[v].pc \in Writing, job[v].temp \in DOMAIN tree
                 PROVE  tree'[job[v].temp] = tree[job[v].temp]
      BY <1>0, <2>1 DEF Owns
    <3>1. ~ Named(job[v].temp)
      BY <2>1, TempParts
    <3>2. tree[job[v].temp].kind # "none"
      BY <2>1 DEF Owns, Regular
    <3>3. ~ (job[w].pc \in Writing /\ job[v].temp = job[w].temp)
      BY <1>3 DEF FileInv, JobInv, Apart
    <3> QED BY <3>1, <3>2, <3>3 DEF May
  <2> QED BY <2>1, <2>2, <2>3
<1>4. Apart'
  <2> SUFFICES ASSUME ~ shifted', ~ shifted PROVE Apart'
    BY DEF Apart
  <2>1. ASSUME NEW v \in Workers, v # w, job'[v].pc \in Writing, job'[w].pc \in Writing,
               job'[v].temp = job'[w].temp, job'[w].temp \in DOMAIN tree
        PROVE  FALSE
    <3>1. job'[v] = job[v] /\ Owns(shifted, tree, job[v])
      BY <2>1 DEF FileInv, JobInv
    <3>2. Node(tree, job'[w].temp).kind = "file"
      BY <2>1, <3>1 DEF Owns, Regular, Node
    <3>3. job[w].pc \in Writing /\ job'[w].temp = job[w].temp
      BY <2>1, <3>2
    <3> QED BY <2>1, <3>1, <3>3 DEF FileInv, JobInv, Apart
  <2>2. ASSUME NEW u \in Workers, NEW v \in Workers, u # v, u # w, v # w,
               job'[u].pc \in Writing, job'[v].pc \in Writing, job'[u].temp = job'[v].temp
        PROVE  job'[v].temp \notin DOMAIN tree
    BY <2>2 DEF FileInv, JobInv, Apart
  <2> QED BY <1>0, <2>1, <2>2 DEF Apart
<1>5. JobInv'
  BY <1>3, <1>4 DEF JobInv
<1> QED BY <1>1, <1>2, <1>5 DEF FileInv

-----------------------------------------------------------------------------
(***************************************************************************)
(* What the resolvers return.                                              *)
(***************************************************************************)
LEMMA WithinOk ==
    ASSUME NEW t, NEW path, path.segs \in Seq(Names), ResolveWithinWorkspace(t, path).err = "ok"
    PROVE  ResolveWithinWorkspace(t, path).path \in Seq(Names)
<1>1. ResolveWithinWorkspace(t, path) = Ok(Root \o path.segs)
  BY DEF ResolveWithinWorkspace, Err
<1>2. Root \o path.segs \in Seq(Names)
  BY TypesOfConstants
<1> QED BY <1>1, <1>2 DEF Ok

LEMMA ExistingOk ==
    ASSUME NEW t, Linked(t), NEW path, path.segs \in Seq(Names), NEW kind,
           ResolveExisting(t, path, kind).err = "ok"
    PROVE  /\ Canonical(t, ResolveExisting(t, path, kind).path)
           /\ Node(t, ResolveExisting(t, path, kind).path).kind = kind
<1> DEFINE full == ResolveWithinWorkspace(t, path)
           canon == Canonicalize(t, full.path)
<1>1. /\ full.err = "ok" /\ canon.ok /\ StartsWith(canon.path, Root)
      /\ Node(t, canon.path).kind = kind /\ ResolveExisting(t, path, kind).path = canon.path
  BY DEF ResolveExisting, Err, Ok
<1>2. full.path \in Seq(Names)
  BY <1>1, WithinOk
<1>3. canon.path \in Seq(Names) /\ LinkFree(t, canon.path)
  BY <1>1, <1>2, CanonicalType, CanonicalLinkFree
<1> QED BY <1>1, <1>3 DEF Canonical, Inside

LEMMA ForWriteOk ==
    ASSUME NEW t, NEW path, NEW size, ResolveForWrite(t, path, size).err = "ok"
    PROVE  ResolveForWrite(t, path, size) = ResolveExisting(t, path, "file")
BY DEF ResolveForWrite, Err

LEMMA NewOk ==
    ASSUME NEW t, Linked(t), NEW path, path.segs \in Seq(Names),
           ResolveNew(t, path).err = "ok"
    PROVE  Slot(t, ResolveNew(t, path).path)
<1> DEFINE full == ResolveWithinWorkspace(t, path)
           parent == Canonicalize(t, Parent(full.path))
<1>1. ResolveNew(t, path) = ResolveToCreate(t, path) /\ ResolveToCreate(t, path).err = "ok"
  BY DEF ResolveNew, Err
<1>2. /\ full.err = "ok" /\ full.path # <<>> /\ parent.ok /\ StartsWith(parent.path, Root)
      /\ ResolveToCreate(t, path) = Ok(Append(parent.path, Last(full.path)))
  BY <1>1 DEF ResolveToCreate, Err
<1>3. full.path \in Seq(Names)
  BY <1>2, WithinOk
<1>4. Parent(full.path) \in Seq(Names) /\ Last(full.path) \in Names
  BY <1>2, <1>3, ParentParts
<1>5. parent.path \in Seq(Names) /\ LinkFree(t, parent.path)
  BY <1>2, <1>4, CanonicalType, CanonicalLinkFree
<1>6. ResolveNew(t, path).path = Append(parent.path, Last(full.path))
  BY <1>1, <1>2 DEF Ok
<1> HIDE DEF parent, full
<1>7. /\ Append(parent.path, Last(full.path)) \in Seq(Names)
      /\ Append(parent.path, Last(full.path)) # <<>>
      /\ Parent(Append(parent.path, Last(full.path))) = parent.path
  BY <1>4, <1>5, AppendParts
<1> QED BY <1>2, <1>5, <1>6, <1>7 DEF Slot, Canonical, Inside

LEMMA RootExists ==
    ASSUME NEW t, Linked(t)
    PROVE  Exists(t, <<>>)
<1> DEFINE I == {at \in Stages : at.rest = <<>>}
<1>1. <<>> \in Seq(Names)
  OBVIOUS
<1>2. From(<<>>) \in I
  BY <1>1, FromParts
<1>3. \A at \in Stages : at \in I => WalkStep(t, at) \in I
  BY DEF WalkStep
<1> HIDE DEF I
<1>4. Walk(t, <<>>)[MaxHops] \in I
  BY <1>1, <1>2, <1>3, WalkKeeps, TypesOfConstants
<1> QED BY <1>1, <1>4, CanonicalType DEF I, Exists

LEMMA DestinationOk ==
    ASSUME NEW t, Linked(t), NEW path, path.segs \in Seq(Names),
           ResolveDestination(t, path).err = "ok"
    PROVE  LET dest == ResolveDestination(t, path).path
           IN  dest \in Seq(Names) /\ dest # <<>> /\ LeadsInside(t, Parent(dest))
<1> DEFINE full == ResolveWithinWorkspace(t, path)
           parent == Canonicalize(t, Parent(full.path))
<1>1. /\ full.err = "ok" /\ ~ Exists(t, full.path) /\ StartsWith(parent.path, Root)
      /\ ResolveDestination(t, path) = full
  BY DEF ResolveDestination, Err
<1>2. full.path \in Seq(Names) /\ full.path # <<>>
  BY <1>1, WithinOk, RootExists
<1> QED BY <1>1, <1>2 DEF LeadsInside, Inside

-----------------------------------------------------------------------------
(***************************************************************************)
(* Steps that leave the tree alone.                                        *)
(***************************************************************************)
LEMMA SameTree ==
    ASSUME FileInv, tree' = tree, shifted' = shifted
    PROVE  /\ Sound(tree, tree') /\ NeverHalfWritten'
           /\ \A w, p : tree'[p] # tree[p] => May(w, p)
BY SoundSame DEF FileInv, TreeInv, NeverHalfWritten, Whole

\* A job at a step of which the invariant says nothing.
Idle(j) == Fields(j) /\ j.pc \in {"idle", "stat", "read", "list"}

LEMMA IdleJob ==
    ASSUME NEW j, Idle(j), NEW t, NEW s
    PROVE  Paths(t, j) /\ Progress(j) /\ Owns(s, t, j) /\ j.pc \notin Writing
BY DEF Idle, Paths, Progress, Owns, Writing

LEMMA EndsStep ==
    ASSUME FileInv, NEW w \in Workers, NEW j, Idle(j), job' = [job EXCEPT ![w] = j],
           Sound(tree, tree'), NeverHalfWritten', shifted => shifted',
           ~ shifted' => \A p \in DOMAIN tree : tree'[p] # tree[p] => May(w, p)
    PROVE  FileInv'
<1>1. DOMAIN job' = Workers /\ job'[w] = j /\ \A v \in Workers : v # w => job'[v] = job[v]
  BY DEF FileInv, JobInv
<1>2. Paths(tree', j) /\ Progress(j) /\ Owns(shifted', tree', j) /\ j.pc \notin Writing /\ Fields(j)
  BY IdleJob DEF Idle
<1> QED BY <1>1, <1>2, JobStep

LEMMA FreeIdle == \A outcome : Idle([Free EXCEPT !.outcome = outcome])
BY DEF Idle, Free, Fields

LEMMA FailsStep ==
    ASSUME FileInv, NEW w \in Workers, NEW reason, Fails(w, reason), shifted' = shifted
    PROVE  FileInv'
<1>1. tree' = tree /\ job' = [job EXCEPT ![w] = [Free EXCEPT !.outcome = "failed"]]
  BY DEF Fails, Finish
<1> QED BY <1>1, FreeIdle, SameTree, EndsStep

LEMMA ExecuteStep ==
    ASSUME FileInv, NEW w \in Workers, NEW req \in FileRequests, NEW p,
           NEW expired, NEW matches, Execute(w, req, p, expired, matches)
    PROVE  FileInv'
<1> DEFINE j == [Free EXCEPT !.pc = "resolve", !.req = req, !.permit = p]
<1>0. shifted' = shifted
  BY DEF Execute
<1>1. \/ \E reason : Fails(w, reason)
      \/ tree' = tree /\ job' = [job EXCEPT ![w] = j] /\ Accepted(req)
  BY DEF Execute, Accepted
<1>2. CASE tree' = tree /\ job' = [job EXCEPT ![w] = j] /\ Accepted(req)
  <2>1. j = [pc |-> "resolve", req |-> req, path |-> <<>>, temp |-> <<>>,
             permit |-> p, outcome |-> "none", data |-> <<>>]
    <3> DEFINE a == [Free EXCEPT !.pc = "resolve"]
               b == [a EXCEPT !.req = req]
               c == [b EXCEPT !.permit = p]
    <3>1. a = [pc |-> "resolve", req |-> Null, path |-> <<>>, temp |-> <<>>,
               permit |-> Null, outcome |-> "none", data |-> <<>>]
      BY DEF Free
    <3>2. b = [pc |-> "resolve", req |-> req, path |-> <<>>, temp |-> <<>>,
               permit |-> Null, outcome |-> "none", data |-> <<>>]
      <4> HIDE DEF a
      <4> QED BY <3>1
    <3>3. c = [pc |-> "resolve", req |-> req, path |-> <<>>, temp |-> <<>>,
               permit |-> p, outcome |-> "none", data |-> <<>>]
      <4> HIDE DEF b
      <4> QED BY <3>2
    <3>4. j = c
      OBVIOUS
    <3> HIDE DEF c, j
    <3> QED BY <3>3, <3>4
  <2>2. Fields(j) /\ j.pc = "resolve" /\ j.req = req /\ j.data = <<>>
    <3> HIDE DEF j
    <3> QED BY <2>1 DEF Fields
  <2>3. DOMAIN job' = Workers /\ job'[w] = j /\ \A v \in Workers : v # w => job'[v] = job[v]
    BY <1>2 DEF FileInv, JobInv
  <2> HIDE DEF j
  <2>4. Paths(tree', j) /\ Progress(j) /\ Owns(shifted', tree', j) /\ j.pc \notin Writing
    BY <1>2, <2>2 DEF Paths, Progress, Owns, Writing
  <2> QED BY <1>0, <1>2, <2>2, <2>3, <2>4, SameTree, JobStep
<1> QED BY <1>0, <1>1, <1>2, FailsStep

LEMMA NewFields ==
    ASSUME FileInv, NEW w \in Workers
    PROVE  /\ Fields(job[w]) /\ w \in DOMAIN job /\ DOMAIN job = Workers
           /\ Paths(tree, job[w]) /\ Progress(job[w]) /\ Owns(shifted, tree, job[w])
BY DEF FileInv, JobInv

LEMMA PcStep ==
    ASSUME FileInv, NEW w \in Workers, NEW pc, job' = [job EXCEPT ![w].pc = pc]
    PROVE  /\ DOMAIN job' = Workers /\ \A v \in Workers : v # w => job'[v] = job[v]
           /\ job'[w] = [pc |-> pc, req |-> job[w].req, path |-> job[w].path,
                         temp |-> job[w].temp, permit |-> job[w].permit,
                         outcome |-> job[w].outcome, data |-> job[w].data]
<1>1. DOMAIN job' = Workers /\ \A v \in Workers : v # w => job'[v] = job[v]
  BY NewFields
<1>2. job'[w] = [job[w] EXCEPT !.pc = pc]
  BY NewFields
<1> QED BY <1>1, <1>2, NewFields DEF Fields

LEMMA PathStep ==
    ASSUME FileInv, NEW w \in Workers, NEW pc, NEW path,
           job' = [job EXCEPT ![w].pc = pc, ![w].path = path]
    PROVE  /\ DOMAIN job' = Workers /\ \A v \in Workers : v # w => job'[v] = job[v]
           /\ job'[w] = [pc |-> pc, req |-> job[w].req, path |-> path,
                         temp |-> job[w].temp, permit |-> job[w].permit,
                         outcome |-> job[w].outcome, data |-> job[w].data]
<1>1. DOMAIN job' = Workers /\ \A v \in Workers : v # w => job'[v] = job[v]
  BY NewFields
<1>2. job'[w] = [[job[w] EXCEPT !.pc = pc] EXCEPT !.path = path]
  BY NewFields
<1> QED BY <1>1, <1>2, NewFields, ZenonT(60) DEF Fields

\* A thread that has resolved its path has what the invariant says of it.
LEMMA GoesStep ==
    ASSUME FileInv, NEW w \in Workers, NEW r, NEW pc, Goes(w, r, pc), At(w, "resolve"),
           shifted' = shifted,
           r.err = "ok" =>
              \/ pc \in {"stat", "list"}
              \/ pc \in {"temp", "remove"} /\ Canonical(tree, r.path) /\ r.path # Root
              \/ pc \in {"create", "mkdir"} /\ Slot(tree, r.path)
              \/ pc = "empty" /\ Canonical(tree, r.path),
           pc = "temp" => job[w].req.payload # Null
    PROVE  FileInv'
<1>1. CASE r.err # "ok"
  BY <1>1, FailsStep DEF Goes
<1>2. CASE r.err = "ok"
  <2>1. tree' = tree /\ job' = [job EXCEPT ![w].pc = pc, ![w].path = r.path]
    BY <1>2 DEF Goes
  <2> DEFINE j == [pc |-> pc, req |-> job[w].req, path |-> r.path,
                   temp |-> job[w].temp, permit |-> job[w].permit,
                   outcome |-> job[w].outcome, data |-> job[w].data]
  <2>2. DOMAIN job' = Workers /\ job'[w] = j /\ \A v \in Workers : v # w => job'[v] = job[v]
    BY <2>1, PathStep
  <2>3. j.pc = pc /\ j.path = r.path /\ j.req = job[w].req /\ j.data = job[w].data
    OBVIOUS
  <2>4. Fields(j)
    BY DEF Fields
  <2>5. job[w].data = <<>> /\ job[w].req \in FileRequests
    BY NewFields DEF At, Progress, Paths, Accepted
  <2> HIDE DEF j
  <2>6. Paths(tree, j) /\ Progress(j) /\ Owns(shifted, tree, j) /\ j.pc \notin Writing
    BY <1>2, <2>3, <2>5 DEF Paths, Progress, Owns, Writing
  <2> QED BY <2>1, <2>2, <2>4, <2>6, SameTree, JobStep
<1> QED BY <1>1, <1>2

LEMMA TreeFacts ==
    ASSUME FileInv
    PROVE  /\ Linked(tree) /\ Rooted(tree) /\ Plain(tree)
           /\ Node(tree, Root).kind \in {"dir", "none"}
           /\ DOMAIN tree \subseteq Seq(AllNames)
BY DEF FileInv, TreeInv, Linked

\* There is nothing below a file.
LEMMA FileBare ==
    ASSUME NEW t, Linked(t), Rooted(t), NEW p \in Seq(AllNames), Node(t, p).kind = "file"
    PROVE  Bare(t, p)
<1>1. Hollow(t, p)
  BY NotDirChildless, NothingBelow
<1> QED BY <1>1 DEF Hollow, Bare, Node

LEMMA ResolveStep ==
    ASSUME FileInv, NEW w \in Workers, Resolve(w)
    PROVE  FileInv'
<1> DEFINE req == job[w].req
           source == ResolveExisting(tree, req.path, "file")
           dest == ResolveDestination(tree, req.dest)
<1>1. /\ At(w, "resolve") /\ Accepted(req) /\ req.path.segs \in Seq(Names) /\ Linked(tree)
      /\ shifted' = shifted /\ req.op \in FileOps \cup DirectoryOps
      /\ Node(tree, Root).kind \in {"dir", "none"}
  BY NewFields, RequestAssumption DEF Resolve, At, Paths, Accepted, FileInv, TreeInv, Quiet
<1>2. ASSUME NEW r, r.err = "ok", r = ResolveExisting(tree, req.path, "file")
      PROVE  Canonical(tree, r.path) /\ r.path # Root /\ Node(tree, r.path).kind = "file"
  BY <1>1, <1>2, ExistingOk
<1>3. ASSUME NEW r, r.err = "ok", r = ResolveExisting(tree, req.path, "dir")
      PROVE  Canonical(tree, r.path)
  BY <1>1, <1>3, ExistingOk
<1>4. CASE req.op = "file_read"
  <2>1. Goes(w, source, "stat")
    BY <1>4 DEF Resolve
  <2> QED BY <1>1, <2>1, GoesStep
<1>5. CASE req.op = "file_write"
  <2> DEFINE r == ResolveForWrite(tree, req.path, Len(req.payload))
  <2>1. Goes(w, r, "temp")
    BY <1>5 DEF Resolve
  <2>2. r.err = "ok" => Canonical(tree, r.path) /\ r.path # Root
    BY <1>2, ForWriteOk
  <2>3. req.payload # Null
    BY <1>1, <1>5 DEF Accepted
  <2> HIDE DEF r
  <2> QED BY <1>1, <2>1, <2>2, <2>3, GoesStep
<1>6. CASE req.op = "file_create"
  <2> DEFINE r == ResolveNew(tree, req.path)
  <2>1. Goes(w, r, "create")
    BY <1>6 DEF Resolve
  <2>2. r.err = "ok" => Slot(tree, r.path)
    BY <1>1, NewOk
  <2> HIDE DEF r
  <2> QED BY <1>1, <2>1, <2>2, GoesStep
<1>7. CASE req.op = "file_delete"
  <2>1. Goes(w, source, "remove")
    BY <1>7 DEF Resolve
  <2>2. source.err = "ok" => Canonical(tree, source.path) /\ source.path # Root
    BY <1>2
  <2> HIDE DEF source
  <2> QED BY <1>1, <2>1, <2>2, GoesStep
<1>8. CASE req.op = "directory_list"
  <2> DEFINE r == ResolveExisting(tree, req.path, "dir")
  <2>1. Goes(w, r, "list")
    BY <1>8 DEF Resolve
  <2> HIDE DEF r
  <2> QED BY <1>1, <2>1, GoesStep
<1>9. CASE req.op = "directory_create"
  <2> DEFINE r == ResolveNew(tree, req.path)
  <2>1. Goes(w, r, "mkdir")
    BY <1>9 DEF Resolve
  <2>2. r.err = "ok" => Slot(tree, r.path)
    BY <1>1, NewOk
  <2> HIDE DEF r
  <2> QED BY <1>1, <2>1, <2>2, GoesStep
<1>10. CASE req.op = "directory_delete"
  <2> DEFINE r == ResolveExisting(tree, req.path, "dir")
  <2>1. Goes(w, r, "empty")
    BY <1>10 DEF Resolve
  <2>2. r.err = "ok" => Canonical(tree, r.path)
    BY <1>3
  <2> HIDE DEF r
  <2> QED BY <1>1, <2>1, <2>2, GoesStep
<1>11. CASE req.op = "file_move"
  <2>1. CASE source.err # "ok" \/ dest.err # "ok"
    <3>1. \E reason : Fails(w, reason)
      BY <1>11, <2>1 DEF Resolve
    <3> QED BY <1>1, <3>1, FailsStep
  <2>2. CASE source.err = "ok" /\ dest.err = "ok"
    <3>1. /\ tree' = tree
          /\ job' = [job EXCEPT ![w].pc = "move", ![w].path = source.path, ![w].temp = dest.path]
      BY <1>11, <2>2 DEF Resolve
    <3>2. /\ Canonical(tree, source.path) /\ source.path # Root
          /\ Node(tree, source.path).kind = "file"
      BY <1>2, <2>2
    <3>10. Bare(tree, source.path)
      BY <3>2, TreeFacts, FileBare, TypesOfConstants DEF Canonical
    <3>3. req.dest.segs \in Seq(Names)
      BY <1>1, <1>11, RequestAssumption DEF Accepted
    <3>4. dest.path \in Seq(Names) /\ dest.path # <<>> /\ LeadsInside(tree, Parent(dest.path))
      BY <1>1, <2>2, <3>3, DestinationOk
    <3> DEFINE j == [pc |-> "move", req |-> job[w].req, path |-> source.path,
                     temp |-> dest.path, permit |-> job[w].permit,
                     outcome |-> job[w].outcome, data |-> job[w].data]
    <3> HIDE DEF source, dest
    <3>5. DOMAIN job' = Workers /\ \A v \in Workers : v # w => job'[v] = job[v]
      BY <3>1, NewFields
    <3>6. job'[w] = [[[job[w] EXCEPT !.pc = "move"] EXCEPT !.path = source.path]
                         EXCEPT !.temp = dest.path]
      BY <3>1, NewFields
    <3>7. job'[w] = j
      BY <3>6, NewFields DEF Fields
    <3>8. Fields(j) /\ j.pc = "move" /\ j.path = source.path /\ j.temp = dest.path
      BY DEF Fields
    <3> HIDE DEF j
    <3>9. Paths(tree, j) /\ Progress(j) /\ Owns(shifted, tree, j) /\ j.pc \notin Writing
      BY <3>2, <3>4, <3>8, <3>10 DEF Paths, Progress, Owns, Writing
    <3> QED BY <1>1, <3>1, <3>5, <3>7, <3>8, <3>9, SameTree, JobStep
  <2> QED BY <2>1, <2>2
<1> QED BY <1>1, <1>4, <1>5, <1>6, <1>7, <1>8, <1>9, <1>10, <1>11 DEF FileOps, DirectoryOps

LEMMA StatReadList ==
    ASSUME FileInv, NEW w \in Workers, Stat(w) \/ Read(w) \/ List(w)
    PROVE  FileInv'
<1>1. ASSUME Stat(w) PROVE FileInv'
  <2>0. shifted' = shifted
    BY <1>1 DEF Stat, Quiet
  <2>1. \/ \E reason : Fails(w, reason)
        \/ tree' = tree /\ job' = [job EXCEPT ![w].pc = "read"]
    BY <1>1 DEF Stat
  <2>2. CASE tree' = tree /\ job' = [job EXCEPT ![w].pc = "read"]
    <3>1. /\ DOMAIN job' = Workers /\ \A v \in Workers : v # w => job'[v] = job[v]
          /\ Fields(job'[w]) /\ job'[w].pc = "read"
      BY <2>2, PcStep, ZenonT(60) DEF Fields
    <3>2. Idle(job'[w])
      BY <3>1 DEF Idle
    <3> QED BY <2>0, <2>2, <3>1, <3>2, IdleJob, SameTree, JobStep
  <2> QED BY <2>0, <2>1, <2>2, FailsStep
<1>2. ASSUME Read(w) PROVE FileInv'
  <2> DEFINE data == Contents(tree, job[w].path)
             a == [Free EXCEPT !.outcome = "read"]
             b == [a EXCEPT !.req = job[w].req]
             c == [b EXCEPT !.data = data]
  <2>0. shifted' = shifted
    BY <1>2 DEF Read, Quiet
  <2>1. \/ \E reason : Fails(w, reason)
        \/ tree' = tree /\ job' = [job EXCEPT ![w] = c]
    BY <1>2 DEF Read
  <2>2. Idle(a)
    BY FreeIdle
  <2>3. Idle(b)
    <3> HIDE DEF a
    <3> QED BY <2>2 DEF Idle, Fields
  <2>4. Idle(c)
    <3> HIDE DEF b, data
    <3> QED BY <2>3 DEF Idle, Fields
  <2> HIDE DEF c
  <2> QED BY <2>0, <2>1, <2>4, FailsStep, SameTree, EndsStep
<1>3. ASSUME List(w) PROVE FileInv'
  <2>0. shifted' = shifted
    BY <1>3 DEF List, Quiet
  <2>1. \/ \E reason : Fails(w, reason)
        \/ tree' = tree /\ job' = [job EXCEPT ![w] = [Free EXCEPT !.outcome = "listed"]]
    BY <1>3 DEF List, Finish
  <2> QED BY <2>0, <2>1, FailsStep, FreeIdle, SameTree, EndsStep
<1> QED BY <1>1, <1>2, <1>3

LEMMA CheckEmptyStep ==
    ASSUME FileInv, NEW w \in Workers, CheckEmpty(w)
    PROVE  FileInv'
<1>0. shifted' = shifted
  BY DEF CheckEmpty, Quiet
<1>1. \/ \E reason : Fails(w, reason)
      \/ tree' = tree /\ job' = [job EXCEPT ![w].pc = "rmdir"]
  BY DEF CheckEmpty
<1>2. CASE tree' = tree /\ job' = [job EXCEPT ![w].pc = "rmdir"]
  <2>1. /\ DOMAIN job' = Workers /\ \A v \in Workers : v # w => job'[v] = job[v]
        /\ job'[w] = [pc |-> "rmdir", req |-> job[w].req, path |-> job[w].path,
                      temp |-> job[w].temp, permit |-> job[w].permit,
                      outcome |-> job[w].outcome, data |-> job[w].data]
    BY <1>2, PcStep
  <2>4. Fields(job'[w]) /\ job'[w].pc = "rmdir" /\ job'[w].path = job[w].path
    BY <2>1 DEF Fields
  <2>2. Canonical(tree, job[w].path)
    BY NewFields DEF CheckEmpty, At, Paths
  <2>3. /\ Paths(tree, job'[w]) /\ Progress(job'[w]) /\ Owns(shifted, tree, job'[w])
        /\ job'[w].pc \notin Writing
    BY <2>2, <2>4 DEF Paths, Progress, Owns, Writing
  <2> QED BY <1>0, <1>2, <2>1, <2>3, <2>4, SameTree, JobStep
<1> QED BY <1>0, <1>1, <1>2, FailsStep

-----------------------------------------------------------------------------
(***************************************************************************)
(* Steps that change the tree.                                             *)
(***************************************************************************)
LEMMA SlotParts ==
    ASSUME NEW t, Linked(t), NEW p, Slot(t, p)
    PROVE  /\ p \in Seq(Names) /\ p \in Seq(AllNames) /\ p # <<>> /\ p # Root
           /\ Inside(p) /\ Named(p) /\ Last(p) \notin Suffixes
           /\ Entry(t, p) = p
           /\ HasParent(t, p) => Node(t, Parent(p)).kind = "dir"
<1>1. /\ p \in Seq(Names) /\ p # <<>> /\ Parent(p) \in Seq(Names) /\ Inside(Parent(p))
      /\ LinkFree(t, Parent(p)) /\ p \in Seq(AllNames) /\ Root \in Seq(Names)
  BY TypesOfConstants DEF Slot, Canonical
<1>2. Last(p) \in Names /\ Append(Parent(p), Last(p)) = p /\ Len(p) = Len(Parent(p)) + 1
  BY <1>1, ParentParts
<1>3. StartsWith(Append(Parent(p), Last(p)), Root)
  BY <1>1, <1>2, StartsWithAppend DEF Inside
<1>4. p # Root
  BY <1>1, <1>2 DEF Inside, StartsWith
<1> QED BY <1>1, <1>2, <1>3, <1>4, EntryFixed, TypesOfConstants DEF Inside, Named

LEMMA InsideLonger ==
    ASSUME NEW p \in Seq(AllNames), p # <<>>, Inside(Parent(p))
    PROVE  p # Root
<1>1. Len(p) = Len(Parent(p)) + 1 /\ Len(Parent(p)) \in Nat
  BY ParentParts
<1>2. Len(Parent(p)) >= Len(Root) /\ Len(Root) \in Nat
  BY TypesOfConstants DEF Inside, StartsWith
<1> QED BY <1>1, <1>2

LEMMA CanonicalSlot ==
    ASSUME NEW t, NEW p, Canonical(t, p), p # Root
    PROVE  Slot(t, p)
<1>1. p \in Seq(Names) /\ Root \in Seq(Names) /\ p # <<>> /\ Inside(Parent(p))
  BY TypesOfConstants, StartsWithParent DEF Canonical, Inside
<1> QED BY <1>1, ParentParts, LinkFreeParent DEF Slot, Canonical

\* Whole contents stay whole where nothing changes.
LEMMA WholeStep ==
    ASSUME FileInv, DOMAIN tree' = DOMAIN tree, shifted => shifted',
           ~ shifted' => \A p \in DOMAIN tree :
              tree'[p] # tree[p] /\ tree'[p].kind = "file" /\ Last(p) \notin Suffixes =>
                  tree'[p].data \in Whole
    PROVE  NeverHalfWritten'
BY DEF FileInv, NeverHalfWritten, Whole

\* Create and MakeDir.
LEMMA CreateStep ==
    ASSUME FileInv, NEW w \in Workers, Create(w) \/ MakeDir(w)
    PROVE  FileInv'
<1> DEFINE p == job[w].path
<1>0. shifted' = shifted
  BY DEF Create, MakeDir, Quiet
<1>1. Linked(tree) /\ Slot(tree, p)
  BY NewFields, TreeFacts DEF Create, MakeDir, At, Paths
<1>2. /\ p \in Seq(Names) /\ p \in Seq(AllNames) /\ p # <<>> /\ p # Root /\ Inside(p)
      /\ Named(p) /\ Entry(tree, p) = p /\ Last(p) \notin Suffixes
      /\ HasParent(tree, p) => Node(tree, Parent(p)).kind = "dir"
  BY <1>1, SlotParts
<1>3. \/ \E reason : Fails(w, reason)
      \/ /\ Node(tree, p).kind = "none" /\ HasParent(tree, p)
         /\ \E n \in {Regular(<<>>), Folder} : \E outcome :
               tree' = [tree EXCEPT ![p] = n] /\ Finish(w, outcome)
  BY <1>2 DEF Create, MakeDir
<1>4. ASSUME Node(tree, p).kind = "none", HasParent(tree, p),
             NEW n \in {Regular(<<>>), Folder}, NEW outcome,
             tree' = [tree EXCEPT ![p] = n], Finish(w, outcome)
      PROVE  FileInv'
  <2>1. n.kind \in {"file", "dir"} /\ n.data = <<>>
    BY <1>4 DEF Regular, Folder
  <2>2. Childless(tree, p)
    BY <1>4, TreeFacts, NotDirChildless
  <2> HIDE DEF p
  <2>3. Sets(tree, tree', p, n)
    BY <1>4 DEF Sets
  <2>4. Sound(tree, tree')
    <3>1. /\ n.kind # "link" /\ Node(tree, p).kind # "dir"
          /\ Node(tree, Parent(p)).kind = "dir"
      BY <1>2, <1>4, <2>1
    <3> QED BY <1>2, <2>2, <2>3, <3>1, TreeFacts, SetNode
  <2>5. NeverHalfWritten'
    BY <1>0, <2>1, <2>3, WholeStep DEF Whole, Sets
  <2>6. \A q \in DOMAIN tree : tree'[q] # tree[q] => May(w, q)
    BY <1>2, <2>3 DEF May, Sets
  <2>7. job' = [job EXCEPT ![w] = [Free EXCEPT !.outcome = outcome]]
    BY <1>4 DEF Finish
  <2> QED BY <1>0, <2>4, <2>5, <2>6, <2>7, FreeIdle, EndsStep
<1> QED BY <1>0, <1>3, <1>4, FailsStep

\* Remove and RemoveDir.
LEMMA RemoveStep ==
    ASSUME FileInv, NEW w \in Workers, Remove(w) \/ RemoveDir(w)
    PROVE  FileInv'
<1> DEFINE p == job[w].path
<1>0. shifted' = shifted
  BY DEF Remove, RemoveDir, Quiet
<1>1. Linked(tree) /\ Canonical(tree, p) /\ (Remove(w) => p # Root)
  BY NewFields, TreeFacts DEF Remove, RemoveDir, At, Paths
<1>2. p \in Seq(Names) /\ p \in Seq(AllNames) /\ Inside(p) /\ Named(p)
  BY <1>1, TypesOfConstants DEF Canonical, Named
<1>3. Remove(w) => Entry(tree, p) = p
  BY <1>1, CanonicalSlot, SlotParts
<1>4. \/ \E reason : Fails(w, reason)
      \/ /\ Node(tree, p).kind # "dir" \/ Children(tree, p) = {}
         /\ \E outcome : tree' = [tree EXCEPT ![p] = Absent] /\ Finish(w, outcome)
  BY <1>3 DEF Remove, RemoveDir
<1>5. ASSUME Node(tree, p).kind # "dir" \/ Children(tree, p) = {}, NEW outcome,
             tree' = [tree EXCEPT ![p] = Absent], Finish(w, outcome)
      PROVE  FileInv'
  <2>1. Childless(tree, p)
    BY <1>5, TreeFacts, NotDirChildless, ChildrenChildless
  <2> HIDE DEF p
  <2>2. Sets(tree, tree', p, Absent)
    BY <1>5 DEF Sets
  <2>3. Absent.kind = "none"
    BY DEF Absent
  <2>4. Sound(tree, tree')
    BY <1>2, <2>1, <2>2, <2>3, TreeFacts, SetNode
  <2>5. NeverHalfWritten'
    BY <1>0, <2>2, <2>3, WholeStep DEF Sets
  <2>6. \A q \in DOMAIN tree : tree'[q] # tree[q] => May(w, q)
    BY <1>2, <2>2 DEF May, Sets
  <2>7. job' = [job EXCEPT ![w] = [Free EXCEPT !.outcome = outcome]]
    BY <1>5 DEF Finish
  <2> QED BY <1>0, <2>4, <2>5, <2>6, <2>7, FreeIdle, EndsStep
<1> QED BY <1>0, <1>4, <1>5, FailsStep

\* The destination of a move was checked some time ago; it still is inside.
LEMMA DestinationInside ==
    ASSUME NEW t, Linked(t), NEW to \in Seq(Names), to # <<>>, LeadsInside(t, Parent(to)),
           HasParent(t, to)
    PROVE  /\ Entry(t, to) \in Seq(Names) /\ Entry(t, to) # <<>> /\ Entry(t, to) # Root
           /\ Inside(Entry(t, to)) /\ Node(t, Parent(Entry(t, to))).kind = "dir"
           /\ Last(Entry(t, to)) \notin Suffixes
<1> DEFINE dir == Canonicalize(t, Parent(to)).path
<1>1. Parent(to) \in Seq(Names) /\ Last(to) \in Names
  BY ParentParts
<1>2. Canonicalize(t, Parent(to)).ok /\ Node(t, dir).kind = "dir"
  BY DEF HasParent, KindOf, Exists
<1>3. dir \in Seq(Names) /\ Inside(dir)
  BY <1>1, <1>2, CanonicalType DEF LeadsInside
<1>4. Entry(t, to) = Append(dir, Last(to))
  BY DEF Entry
<1> HIDE DEF dir
<1>5. /\ Append(dir, Last(to)) \in Seq(Names) /\ Append(dir, Last(to)) # <<>>
      /\ Parent(Append(dir, Last(to))) = dir /\ Last(Append(dir, Last(to))) = Last(to)
      /\ Len(Append(dir, Last(to))) = Len(dir) + 1
  BY <1>1, <1>3, AppendParts
<1>6. Inside(Append(dir, Last(to)))
  BY <1>1, <1>3, TypesOfConstants, StartsWithAppend DEF Inside
<1>7. Append(dir, Last(to)) # Root
  <2> DEFINE p == Append(dir, Last(to))
  <2>1. p \in Seq(AllNames) /\ p # <<>> /\ Inside(Parent(p))
    BY <1>3, <1>5, TypesOfConstants
  <2> HIDE DEF p
  <2>2. p # Root
    BY <2>1, InsideLonger
  <2> QED BY <2>2 DEF p
<1> QED BY <1>1, <1>2, <1>4, <1>5, <1>6, <1>7, TypesOfConstants

\* A rename keeps the tree one, and moves the file alone if it is a file.
LEMMA RenameStep ==
    ASSUME FileInv, NEW p \in Seq(AllNames), NEW q \in Seq(AllNames), q # <<>>,
           Inside(p), Inside(q), p # Root, q # Root, Last(q) \notin Suffixes,
           Bare(tree, p), Node(tree, Parent(q)).kind = "dir",
           CanRename(p, q), Renames(p, q)
    PROVE  /\ Carries(tree, tree', p, q) /\ Fits(tree, p, q) /\ Hollow(tree, q)
           /\ Sound(tree, tree') /\ (shifted => shifted')
           /\ Node(tree, p).kind \in {"file", "dir"}
           /\ Node(tree, p).kind = "dir" => Node(tree, q).kind # "file" /\ shifted'
           /\ Node(tree, p).kind = "file" => Hollow(tree, p) /\ Moves(tree, tree', p, q)
<1>1. /\ Carries(tree, tree', p, q) /\ Fits(tree, p, q)
      /\ shifted' = (shifted \/ Node(tree, p).kind = "dir")
  BY DEF Carries, Fits, Renames, CanRename
<1>2. /\ Node(tree, p).kind \in {"file", "dir"}
      /\ Node(tree, p).kind = "file" => Node(tree, q).kind # "dir"
      /\ Node(tree, p).kind = "dir" => ~ StartsWith(q, p) /\ Node(tree, q).kind # "file"
      /\ Node(tree, q).kind # "dir" \/ Children(tree, q) = {}
  BY DEF CanRename
<1>3. Hollow(tree, q)
  BY <1>2, TreeFacts, NotDirChildless, ChildrenChildless, NothingBelow
<1>4. Node(tree, p).kind = "file" => Hollow(tree, p) /\ Moves(tree, tree', p, q)
  BY <1>1, <1>3, TreeFacts, RenameFile
<1>5. ~ StartsWith(Parent(q), p)
  <2>1. CASE Node(tree, p).kind = "file"
    <3>1. Parent(q) \in DOMAIN tree /\ tree[Parent(q)].kind = "dir"
      BY DEF Node, Absent
    <3>2. Parent(q) # p
      BY <2>1
    <3> QED BY <1>4, <2>1, <3>1, <3>2 DEF Hollow
  <2>2. CASE Node(tree, p).kind = "dir"
    <3>1. Parent(q) \in Seq(AllNames) /\ Last(q) \in AllNames /\ Append(Parent(q), Last(q)) = q
      BY ParentParts
    <3>2. StartsWith(Parent(q), p) => StartsWith(q, p)
      BY <3>1, StartsWithAppend
    <3> QED BY <1>2, <2>2, <3>2
  <2> QED BY <1>2, <2>1, <2>2
<1>6. Renamable(tree, p, q)
  BY <1>1, <1>2, <1>3, <1>5 DEF Renamable
<1>7. Sound(tree, tree')
  BY <1>1, <1>6, TreeFacts, RenameTree
<1> QED BY <1>1, <1>2, <1>3, <1>4, <1>7

\* What a thread that moves knows of its two paths.
LEMMA MoveParts ==
    ASSUME FileInv, NEW w \in Workers, At(w, "move"), HasParent(tree, job[w].temp)
    PROVE  LET from == job[w].path
               entry == Entry(tree, job[w].temp)
           IN  /\ from \in Seq(AllNames) /\ Inside(from) /\ from # Root /\ Named(from)
               /\ Last(from) \notin Suffixes /\ Bare(tree, from)
               /\ entry \in Seq(AllNames) /\ entry # <<>> /\ entry # Root /\ Inside(entry)
               /\ Named(entry) /\ Last(entry) \notin Suffixes
               /\ Node(tree, Parent(entry)).kind = "dir"
<1> DEFINE from == job[w].path
           to == job[w].temp
           entry == Entry(tree, to)
<1>1. /\ Linked(tree) /\ Canonical(tree, from) /\ from # Root /\ Bare(tree, from)
      /\ to \in Seq(Names) /\ to # <<>> /\ LeadsInside(tree, Parent(to))
  <2>1. job[w].pc = "move"
    BY DEF At
  <2>2. Paths(tree, job[w])
    BY NewFields
  <2> QED BY <2>1, <2>2, TreeFacts DEF Paths
<1>2. /\ from \in Seq(AllNames) /\ Inside(from) /\ Named(from)
      /\ Last(from) \notin Suffixes
  BY <1>1, CanonicalSlot, SlotParts
<1>3. /\ entry \in Seq(Names) /\ entry \in Seq(AllNames) /\ entry # <<>> /\ entry # Root
      /\ Inside(entry) /\ Node(tree, Parent(entry)).kind = "dir" /\ Named(entry)
      /\ Last(entry) \notin Suffixes
  BY <1>1, DestinationInside, TypesOfConstants DEF Named
<1> QED BY <1>1, <1>2, <1>3

LEMMA MoveStep ==
    ASSUME FileInv, NEW w \in Workers, Move(w)
    PROVE  FileInv'
<1> DEFINE from == job[w].path
           to == job[w].temp
           entry == Entry(tree, to)
<1>1. At(w, "move")
  BY DEF Move
<1>2. CASE HasParent(tree, to) /\ CanRename(from, entry)
  <2>1. /\ from \in Seq(AllNames) /\ Inside(from) /\ from # Root /\ Named(from)
        /\ Last(from) \notin Suffixes /\ Bare(tree, from)
        /\ entry \in Seq(AllNames) /\ entry # <<>> /\ entry # Root /\ Inside(entry)
        /\ Named(entry) /\ Last(entry) \notin Suffixes
        /\ Node(tree, Parent(entry)).kind = "dir"
    BY <1>1, <1>2, MoveParts
  <2>2. Renames(from, entry) /\ job' = [job EXCEPT ![w] = [Free EXCEPT !.outcome = "moved"]]
    BY <1>2 DEF Move, Finish
  <2> HIDE DEF from, to, entry
  <2>3. /\ Sound(tree, tree') /\ (shifted => shifted')
        /\ Node(tree, from).kind \in {"file", "dir"}
        /\ Node(tree, from).kind = "dir" => shifted'
        /\ Node(tree, from).kind = "file" => Moves(tree, tree', from, entry)
    BY <1>2, <2>1, <2>2, RenameStep
  <2>4. DOMAIN tree' = DOMAIN tree
    BY <2>3 DEF Sound, Evolves
  <2>5. ASSUME ~ shifted'
        PROVE  /\ \A p \in DOMAIN tree : tree'[p] # tree[p] => May(w, p)
               /\ \A p \in DOMAIN tree :
                    tree'[p] # tree[p] /\ tree'[p].kind = "file" => tree'[p].data \in Whole
    <3>1. Node(tree, from).kind = "file" /\ Moves(tree, tree', from, entry) /\ ~ shifted
      BY <2>3, <2>5
    <3>2. from \in DOMAIN tree /\ tree[from].kind = "file" /\ tree[from].data \in Whole
      BY <2>1, <3>1 DEF Node, Absent, FileInv, NeverHalfWritten
    <3> QED BY <2>1, <3>1, <3>2 DEF Moves, MovedAt, May
  <2>6. NeverHalfWritten'
    BY <2>3, <2>4, <2>5, WholeStep
  <2> QED BY <2>2, <2>3, <2>5, <2>6, FreeIdle, EndsStep
<1>3. CASE ~ (HasParent(tree, to) /\ CanRename(from, entry))
  <2>1. Fails(w, "io") /\ shifted' = shifted
    BY <1>3 DEF Move
  <2> QED BY <2>1, FailsStep
<1> QED BY <1>2, <1>3

LEMMA CreateTempStep ==
    ASSUME FileInv, NEW w \in Workers, NEW suffix \in Suffixes, CreateTemp(w, suffix)
    PROVE  FileInv'
<1> DEFINE path == job[w].path
           temp == Append(Parent(path), suffix)
<1>0. shifted' = shifted
  BY DEF CreateTemp, Quiet
<1>1. /\ Linked(tree) /\ Canonical(tree, path) /\ path # Root /\ job[w].data = <<>>
      /\ job[w].req \in FileRequests /\ job[w].req.payload # Null
  <2>1. job[w].pc = "temp"
    BY DEF CreateTemp, At
  <2>2. Paths(tree, job[w]) /\ Progress(job[w])
    BY NewFields
  <2> QED BY <2>1, <2>2, TreeFacts DEF Paths, Progress
<1>2. Slot(tree, path)
  BY <1>1, CanonicalSlot
<1>3. /\ Parent(path) \in Seq(Names) /\ Parent(path) \in Seq(AllNames) /\ suffix \in AllNames
      /\ Inside(Parent(path)) /\ LinkFree(tree, Parent(path))
  BY <1>2, TypesOfConstants DEF Slot, Canonical, AllNames
<1>4. /\ temp \in Seq(AllNames) /\ temp # <<>> /\ Parent(temp) = Parent(path)
      /\ Last(temp) = suffix
  BY <1>3, AppendParts
<1>5. Inside(temp)
  BY <1>3, TypesOfConstants, StartsWithAppend DEF Inside
<1>6. temp # Root
  <2> HIDE DEF temp
  <2> QED BY <1>3, <1>4, InsideLonger
<1>7. HasParent(tree, temp) => Node(tree, Parent(temp)).kind = "dir"
  <2> HIDE DEF temp
  <2> QED BY <1>1, <1>3, <1>4, EntryFixed
<1>8. \/ \E reason : Fails(w, reason)
      \/ /\ HasParent(tree, temp) /\ Node(tree, temp).kind = "none"
         /\ tree' = [tree EXCEPT ![temp] = Regular(<<>>)]
         /\ job' = [job EXCEPT ![w].pc = "data", ![w].temp = temp]
  BY DEF CreateTemp
<1>9. CASE /\ HasParent(tree, temp) /\ Node(tree, temp).kind = "none"
           /\ tree' = [tree EXCEPT ![temp] = Regular(<<>>)]
           /\ job' = [job EXCEPT ![w].pc = "data", ![w].temp = temp]
  <2> DEFINE j == [pc |-> "data", req |-> job[w].req, path |-> job[w].path,
                   temp |-> temp, permit |-> job[w].permit,
                   outcome |-> job[w].outcome, data |-> job[w].data]
             n == Regular(<<>>)
  <2>0. j.pc = "data" /\ j.req = job[w].req /\ j.path = path /\ j.temp = temp /\ j.data = <<>>
    BY <1>1
  <2>1. Fields(j)
    BY DEF Fields
  <2>2. j.temp = Append(Parent(j.path), suffix)
    OBVIOUS
  <2>10. n.kind = "file" /\ n.data = <<>>
    BY DEF Regular
  <2> HIDE DEF temp, n
  <2>3. DOMAIN job' = Workers /\ \A v \in Workers : v # w => job'[v] = job[v]
    BY <1>9, NewFields
  <2>4. job'[w] = [[job[w] EXCEPT !.pc = "data"] EXCEPT !.temp = temp]
    BY <1>9, NewFields
  <2>5. job'[w] = j
    BY <2>4, NewFields DEF Fields
  <2> HIDE DEF j, path
  <2>6. Sets(tree, tree', temp, n)
    BY <1>9 DEF Sets, n
  <2>7. Childless(tree, temp)
    BY <1>9, TreeFacts, NotDirChildless
  <2>8. Sound(tree, tree')
    <3>1. /\ n.kind # "link" /\ Node(tree, temp).kind # "dir"
          /\ Node(tree, Parent(temp)).kind = "dir"
      BY <1>7, <1>9, <2>10
    <3> QED BY <1>4, <1>5, <1>6, <2>6, <2>7, <2>10, <3>1, TreeFacts, SetNode
  <2>9. NeverHalfWritten'
    BY <1>0, <2>6, <2>10, WholeStep DEF Whole, Sets
  <2>11. \A p \in DOMAIN tree : tree'[p] # tree[p] => May(w, p)
    BY <1>9, <2>6 DEF May, Sets, Node
  <2>12. LinkFree(tree', path)
    BY <1>1, <2>8, EvolvesLinkFree DEF Canonical, Sound
  <2>13. Paths(tree', j)
    BY <1>1, <2>0, <2>12 DEF Paths, Canonical
  <2>14. Progress(j)
    <3>1. job[w].req.payload \in Seq({job[w].req.payload[i] : i \in DOMAIN job[w].req.payload})
      BY <1>1, RequestAssumption
    <3>2. Len(job[w].req.payload) \in Nat /\ 0 \in 0 .. Len(job[w].req.payload)
      BY <3>1
    <3>3. SubSeq(job[w].req.payload, 1, 0) = <<>>
      BY SubSeqEmpty
    <3>4. \E k \in 0 .. Len(j.req.payload) : j.data = SubSeq(j.req.payload, 1, k)
      BY <2>0, <3>2, <3>3
    <3> QED BY <1>1, <2>0, <2>2, <3>4 DEF Progress, Writing
  <2>15. Owns(shifted', tree', j)
    BY <2>0, <2>6 DEF Owns, Sets, n
  <2>16. Node(tree, job'[w].temp).kind = "none"
    BY <1>9, <2>0, <2>5
  <2>17. /\ Fields(job'[w]) /\ Paths(tree', job'[w]) /\ Progress(job'[w])
         /\ Owns(shifted', tree', job'[w])
    BY <2>1, <2>5, <2>13, <2>14, <2>15
  <2> QED BY <1>0, <2>3, <2>8, <2>9, <2>11, <2>16, <2>17, JobStep
<1> QED BY <1>0, <1>8, <1>9, FailsStep

LEMMA PayloadParts ==
    ASSUME NEW req \in FileRequests, req.payload # Null
    PROVE  \E S : req.payload \in Seq(S)
BY RequestAssumption

LEMMA PrefixParts ==
    ASSUME NEW S, NEW s \in Seq(S), NEW n \in 0 .. Len(s)
    PROVE  /\ Len(SubSeq(s, 1, n)) = n
           /\ n = Len(s) => SubSeq(s, 1, n) = s
           /\ n < Len(s) => Append(SubSeq(s, 1, n), s[n + 1]) = SubSeq(s, 1, n + 1)
<1>1. Len(s) \in Nat /\ n \in Nat
  OBVIOUS
<1>2. Len(SubSeq(s, 1, n)) = n
  BY <1>1
<1>3. n = Len(s) => SubSeq(s, 1, n) = s
  BY <1>1
<1>4. n < Len(s) => Append(SubSeq(s, 1, n), s[n + 1]) = SubSeq(s, 1, n + 1)
  BY <1>1
<1> QED BY <1>2, <1>3, <1>4

LEMMA WriteDataStep ==
    ASSUME FileInv, NEW w \in Workers, NEW file, NEW full_disk, WriteData(w, file, full_disk)
    PROVE  FileInv'
<1> DEFINE payload == job[w].req.payload
           data == job[w].data
           temp == job[w].temp
<1>0. shifted' = shifted
  BY DEF WriteData, Quiet
<1>1. job[w].pc = "data" /\ job[w].pc \in Writing /\ file \in Opened(w)
  BY DEF WriteData, At, Writing
<1>2. Paths(tree, job[w]) /\ Progress(job[w]) /\ Owns(shifted, tree, job[w]) /\ Fields(job[w])
  BY NewFields
<1>3. job[w].req \in FileRequests /\ payload # Null
  BY <1>1, <1>2 DEF Progress
<1>4. PICK n \in 0 .. Len(payload) : data = SubSeq(payload, 1, n)
  BY <1>1, <1>2 DEF Progress
<1>5. PICK S : payload \in Seq(S)
  BY <1>3, PayloadParts
<1>6. /\ Len(data) = n /\ n \in Nat /\ Len(payload) \in Nat
      /\ n = Len(payload) => data = payload
      /\ n < Len(payload) => Append(data, payload[n + 1]) = SubSeq(payload, 1, n + 1)
  BY <1>4, <1>5, PrefixParts
<1>7. CASE n = Len(payload)
  <2>1. tree' = tree /\ job' = [job EXCEPT ![w].pc = "replace"]
    BY <1>6, <1>7 DEF WriteData
  <2>2. /\ DOMAIN job' = Workers /\ \A v \in Workers : v # w => job'[v] = job[v]
        /\ job'[w] = [pc |-> "replace", req |-> job[w].req, path |-> job[w].path,
                      temp |-> job[w].temp, permit |-> job[w].permit,
                      outcome |-> job[w].outcome, data |-> job[w].data]
    BY <2>1, PcStep
  <2>3. /\ Fields(job'[w]) /\ job'[w].pc = "replace" /\ job'[w].req = job[w].req
        /\ job'[w].path = job[w].path /\ job'[w].temp = job[w].temp /\ job'[w].data = job[w].data
    BY <2>2 DEF Fields
  <2>4. Paths(tree, job'[w])
    BY <1>1, <1>2, <2>3 DEF Paths
  <2>5. Progress(job'[w])
    BY <1>1, <1>2, <1>6, <1>7, <2>3 DEF Progress, Writing
  <2>6. Owns(shifted, tree, job'[w])
    BY <1>1, <1>2, <2>3 DEF Owns
  <2> QED BY <1>0, <1>1, <2>1, <2>2, <2>3, <2>4, <2>5, <2>6, SameTree, JobStep
<1>8. CASE n # Len(payload) /\ full_disk
  <2>1. Fails(w, "io")
    BY <1>6, <1>8 DEF WriteData
  <2> QED BY <1>0, <2>1, FailsStep
<1>9. CASE n # Len(payload) /\ ~ full_disk
  <2> DEFINE more == Append(data, payload[n + 1])
             node == Regular(Append(tree[file].data, payload[n + 1]))
  <2>1. /\ job' = [job EXCEPT ![w].data = Append(@, payload[n + 1])]
        /\ tree' = IF Node(tree, file).kind # "file" THEN tree ELSE [tree EXCEPT ![file] = node]
    BY <1>6, <1>9 DEF WriteData
  <2>2. DOMAIN job' = Workers /\ \A v \in Workers : v # w => job'[v] = job[v]
    BY <2>1, NewFields
  <2>3. job'[w] = [job[w] EXCEPT !.data = more]
    BY <2>1, NewFields
  <2>4. n < Len(payload) /\ n + 1 \in 0 .. Len(payload) /\ more = SubSeq(payload, 1, n + 1)
    BY <1>6, <1>9
  <2>5. node.kind = "file"
    BY DEF Regular
  <2>6. /\ temp \in Seq(AllNames) /\ temp # <<>> /\ Inside(temp) /\ temp # Root
        /\ Last(temp) \in Suffixes
    BY <1>1, <1>2, TempParts
  <2>7. ~ shifted => file = temp
    BY <1>1 DEF Opened
  <2>8. ~ shifted /\ temp \in DOMAIN tree =>
           Node(tree, file).kind = "file" /\ node = Regular(more)
    <3> SUFFICES ASSUME ~ shifted, temp \in DOMAIN tree
                 PROVE  Node(tree, file).kind = "file" /\ node = Regular(more)
      OBVIOUS
    <3>1. file = temp /\ tree[file] = Regular(data)
      BY <1>1, <1>2, <2>7 DEF Owns
    <3>2. tree[file].kind = "file" /\ tree[file].data = data
      BY <3>1 DEF Regular
    <3> QED BY <3>1, <3>2 DEF Node
  <2>9. ASSUME Node(tree, file).kind = "file" PROVE Sound(tree, tree') /\ Sets(tree, tree', file, node)
    <3>1. file \in DOMAIN tree /\ tree[file].kind = "file"
      BY <2>9 DEF Node, Absent
    <3>2. Inside(file) /\ file # Root /\ file \in Seq(AllNames)
      BY <1>1, <2>6, <2>9, <3>1, TreeFacts DEF Opened, Inside
    <3> HIDE DEF node
    <3>3. Sets(tree, tree', file, node)
      BY <2>1, <2>9 DEF Sets
    <3>4. Childless(tree, file)
      BY <2>9, TreeFacts, NotDirChildless
    <3>5. file # <<>> => Node(tree, Parent(file)).kind = "dir"
      BY <3>1, TreeFacts DEF Rooted
    <3>6. node.kind # "link" /\ node.kind # "dir" /\ Node(tree, file).kind # "dir"
      BY <2>5, <2>9
    <3>7. Sound(tree, tree')
      BY <3>2, <3>3, <3>4, <3>5, <3>6, TreeFacts, SetNode
    <3> QED BY <3>3, <3>7
  <2>10. Sound(tree, tree') /\ DOMAIN tree' = DOMAIN tree
         /\ \A p \in DOMAIN tree : p # file => tree'[p] = tree[p]
    <3>1. CASE Node(tree, file).kind # "file"
      BY <2>1, <3>1, TreeFacts, SoundSame
    <3>2. CASE Node(tree, file).kind = "file"
      BY <2>9, <3>2 DEF Sets
    <3> QED BY <3>1, <3>2
  <2>11. ~ shifted /\ temp \in DOMAIN tree => tree'[temp] = Regular(more)
    BY <2>1, <2>7, <2>8
  <2> HIDE DEF more, node
  <2>12. job'[w] = [pc |-> job[w].pc, req |-> job[w].req, path |-> job[w].path,
                    temp |-> job[w].temp, permit |-> job[w].permit,
                    outcome |-> job[w].outcome, data |-> more]
    BY <1>2, <2>3 DEF Fields
  <2>13. /\ Fields(job'[w]) /\ job'[w].pc = "data" /\ job'[w].req = job[w].req
         /\ job'[w].path = job[w].path /\ job'[w].temp = temp /\ job'[w].data = more
    BY <1>1, <2>12 DEF Fields
  <2>14. NeverHalfWritten'
    BY <1>0, <2>6, <2>7, <2>10, WholeStep
  <2>15. ~ shifted' => \A p \in DOMAIN tree : tree'[p] # tree[p] => May(w, p)
    BY <1>0, <1>1, <2>7, <2>10 DEF May
  <2>16. Paths(tree', job[w])
    BY <1>2, <2>10, TreeFacts, PathsKept DEF Sound
  <2>17. Paths(tree', job'[w])
    BY <1>1, <2>13, <2>16 DEF Paths
  <2>18. Progress(job'[w])
    BY <1>1, <1>2, <2>4, <2>13 DEF Progress, Writing
  <2>19. Owns(shifted', tree', job'[w])
    BY <1>0, <2>10, <2>11, <2>13 DEF Owns
  <2> QED BY <1>0, <1>1, <2>2, <2>10, <2>13, <2>14, <2>15, <2>17, <2>18, <2>19, JobStep
<1> QED BY <1>7, <1>8, <1>9

\* What a thread that replaces knows of its two paths: no directory has the name
\* of a temporary file.
LEMMA ReplaceParts ==
    ASSUME FileInv, NEW w \in Workers, At(w, "replace")
    PROVE  LET path == job[w].path
               temp == job[w].temp
           IN  /\ temp \in Seq(AllNames) /\ Inside(temp) /\ temp # Root
               /\ Node(tree, temp).kind # "dir"
               /\ path \in Seq(AllNames) /\ path # <<>> /\ path # Root
               /\ Inside(path) /\ Named(path) /\ Entry(tree, path) = path
               /\ Last(path) \notin Suffixes
               /\ HasParent(tree, path) => Node(tree, Parent(path)).kind = "dir"
<1> DEFINE path == job[w].path
           temp == job[w].temp
<1>1. job[w].pc \in Writing /\ Paths(tree, job[w]) /\ Progress(job[w])
  BY NewFields DEF At, Writing
<1>2. /\ temp \in Seq(AllNames) /\ temp # <<>> /\ Last(temp) \in Suffixes
      /\ Inside(temp) /\ temp # Root /\ Slot(tree, path)
  BY <1>1, TempParts
<1>3. Node(tree, temp).kind # "dir"
  BY <1>2, TreeFacts DEF Plain, Node, Absent
<1> QED BY <1>2, <1>3, TreeFacts, SlotParts

LEMMA ReplaceStep ==
    ASSUME FileInv, NEW w \in Workers, Replace(w)
    PROVE  FileInv'
<1> DEFINE path == job[w].path
           temp == job[w].temp
<1>1. At(w, "replace") /\ job[w].pc = "replace" /\ job[w].pc \in Writing
  BY DEF Replace, At, Writing
<1>2. Progress(job[w]) /\ Owns(shifted, tree, job[w])
  BY NewFields
<1>3. /\ temp \in Seq(AllNames) /\ Inside(temp) /\ temp # Root
      /\ Node(tree, temp).kind # "dir"
      /\ path \in Seq(AllNames) /\ path # <<>> /\ path # Root
      /\ Inside(path) /\ Named(path) /\ Entry(tree, path) = path
      /\ Last(path) \notin Suffixes
      /\ HasParent(tree, path) => Node(tree, Parent(path)).kind = "dir"
  BY <1>1, ReplaceParts
<1>4. job[w].data \in Whole
  BY <1>1, <1>2 DEF Progress, Whole
<1>5. CASE HasParent(tree, path) /\ CanRename(temp, path)
  <2>1. Renames(temp, path) /\ job' = [job EXCEPT ![w] = [Free EXCEPT !.outcome = "written"]]
    BY <1>3, <1>5 DEF Replace, Finish
  <2>2. Node(tree, temp).kind = "file"
    BY <1>3, <1>5 DEF CanRename
  <2>3. Bare(tree, temp)
    BY <1>3, <2>2, TreeFacts, FileBare
  <2>4. Sound(tree, tree') /\ (shifted => shifted') /\ Moves(tree, tree', temp, path)
    BY <1>3, <1>5, <2>1, <2>2, <2>3, RenameStep
  <2>5. DOMAIN tree' = DOMAIN tree
    BY <2>4 DEF Moves
  <2>6. ASSUME ~ shifted'
        PROVE  /\ \A p \in DOMAIN tree : tree'[p] # tree[p] => May(w, p)
               /\ \A p \in DOMAIN tree :
                    tree'[p] # tree[p] /\ tree'[p].kind = "file" => tree'[p].data \in Whole
    <3>1. temp \in DOMAIN tree /\ tree[temp] = Regular(job[w].data)
      BY <1>1, <1>2, <2>2, <2>4, <2>6 DEF Owns, Node, Absent
    <3>2. tree[temp].data \in Whole /\ tree[temp].kind = "file"
      BY <1>4, <3>1 DEF Regular
    <3> QED BY <1>1, <1>3, <2>4, <3>1, <3>2 DEF Moves, MovedAt, May
  <2>7. NeverHalfWritten'
    BY <2>4, <2>5, <2>6, WholeStep
  <2> QED BY <2>1, <2>4, <2>6, <2>7, FreeIdle, EndsStep
<1>6. CASE ~ (HasParent(tree, path) /\ CanRename(temp, path))
  <2>1. /\ tree' = IF Node(tree, temp).kind # "file" THEN tree
                   ELSE [tree EXCEPT ![temp] = Absent]
        /\ job' = [job EXCEPT ![w] = [Free EXCEPT !.outcome = "atomic_replace_failed"]]
        /\ shifted' = shifted
    BY <1>3, <1>6 DEF Replace, Finish
  <2>2. CASE Node(tree, temp).kind # "file"
    <3>1. tree' = tree
      BY <2>1, <2>2
    <3> QED BY <2>1, <3>1, FreeIdle, SameTree, EndsStep
  <2>3. CASE Node(tree, temp).kind = "file"
    <3>1. Childless(tree, temp)
      BY <2>3, TreeFacts, NotDirChildless
    <3>2. Absent.kind = "none"
      BY DEF Absent
    <3> HIDE DEF temp, path
    <3>3. Sets(tree, tree', temp, Absent)
      BY <2>1, <2>3 DEF Sets
    <3>4. Sound(tree, tree')
      BY <1>3, <2>3, <3>1, <3>2, <3>3, TreeFacts, SetNode
    <3>5. NeverHalfWritten'
      BY <2>1, <3>2, <3>3, WholeStep DEF Sets
    <3>6. \A p \in DOMAIN tree : tree'[p] # tree[p] => May(w, p)
      BY <1>1, <3>3 DEF Sets, May, temp
    <3> QED BY <2>1, <3>4, <3>5, <3>6, FreeIdle, EndsStep
  <2> QED BY <2>2, <2>3
<1> QED BY <1>5, <1>6

LEMMA OutsideStep ==
    ASSUME FileInv, NEW path \in DOMAIN tree, NEW data \in Growth, Outside(path, data)
    PROVE  FileInv'
<1> DEFINE node == Regular(data)
<1>1. /\ Node(tree, path).kind = "file" /\ Inside(path) /\ Last(path) \notin Suffixes
      /\ tree' = [tree EXCEPT ![path] = node] /\ job' = job /\ shifted' = shifted
  BY DEF Outside, Inside
<1>2. node.kind = "file" /\ node.data = data
  BY DEF Regular
<1> HIDE DEF node
<1>3. path \in Seq(AllNames) /\ path # Root /\ tree[path].kind = "file"
  BY <1>1, TreeFacts DEF Node
<1>4. Sets(tree, tree', path, node)
  BY <1>1 DEF Sets
<1>5. Childless(tree, path)
  BY <1>1, TreeFacts, NotDirChildless
<1>6. path # <<>> => Node(tree, Parent(path)).kind = "dir"
  BY <1>3, TreeFacts DEF Rooted
<1>7. Sound(tree, tree')
  BY <1>1, <1>2, <1>3, <1>4, <1>5, <1>6, TreeFacts, SetNode
<1>8. NeverHalfWritten'
  BY <1>1, <1>2, <1>4, WholeStep DEF Whole, Sets
<1>9. CASE Workers = {}
  <2>1. TreeInv'
    BY <1>7, TreeFacts, EvolvesLinked DEF TreeInv, Sound, FileInv, Evolves
  <2>2. OutsideUntouched'
    BY <1>7 DEF FileInv, OutsideUntouched, Sound, Evolves, Inside
  <2>3. JobInv'
    BY <1>1, <1>9 DEF FileInv, JobInv, Apart
  <2> QED BY <1>8, <2>1, <2>2, <2>3 DEF FileInv
<1>10. CASE Workers # {}
  <2>1. PICK w \in Workers : TRUE
    BY <1>10
  <2>2. Named(path)
    BY <1>1 DEF Named
  <2>3. \A p \in DOMAIN tree : tree'[p] # tree[p] => p = path
    BY <1>4 DEF Sets
  <2>4. \A p \in DOMAIN tree : tree'[p] # tree[p] => May(w, p)
    BY <2>2, <2>3 DEF May
  <2>5. /\ Fields(job[w]) /\ Progress(job[w]) /\ Paths(tree, job[w]) /\ Owns(shifted, tree, job[w])
        /\ DOMAIN job = Workers
    BY NewFields
  <2>6. Paths(tree', job[w])
    BY <1>7, <2>5, TreeFacts, PathsKept DEF Sound
  <2>7. Owns(shifted', tree', job[w])
    <3> SUFFICES ASSUME ~ shifted, job[w].pc \in Writing, job[w].temp \in DOMAIN tree
                 PROVE  tree'[job[w].temp] = Regular(job[w].data)
      BY <1>1, <1>4 DEF Owns, Sets
    <3>1. job[w].temp # path
      BY <2>2, <2>5, TempParts
    <3> QED BY <2>3, <2>5, <3>1 DEF Owns
  <2> QED BY <1>1, <1>7, <1>8, <2>4, <2>5, <2>6, <2>7, JobStep
<1> QED BY <1>9, <1>10

LEMMA CrashStep ==
    ASSUME FileInv, Crash
    PROVE  FileInv'
<1>1. /\ tree' = tree /\ shifted' = shifted /\ DOMAIN job' = Workers
      /\ \A w \in Workers : job'[w] = Free
  BY DEF Crash
<1>2. Idle(Free)
  BY DEF Idle, Free, Fields
<1>3. \A w \in Workers : /\ Fields(job'[w]) /\ Paths(tree', job'[w]) /\ Progress(job'[w])
                         /\ Owns(shifted', tree', job'[w]) /\ job'[w].pc \notin Writing
  BY <1>1, <1>2, IdleJob DEF Idle
<1>4. JobInv'
  BY <1>1, <1>3 DEF JobInv, Apart
<1> QED BY <1>1, <1>4 DEF FileInv, TreeInv, OutsideUntouched, NeverHalfWritten, Whole

-----------------------------------------------------------------------------
(***************************************************************************)
(* The theorems.                                                           *)
(***************************************************************************)
LEMMA FileInvInit == FileInit => FileInv
<1> SUFFICES ASSUME FileInit PROVE FileInv
  OBVIOUS
<1>1. tree = Start /\ DOMAIN job = Workers /\ \A w \in Workers : job[w] = Free
  BY DEF FileInit
<1>2. TreeInv
  <2>1. Linked(tree)
    BY <1>1, TreeAssumption DEF Linked, AllNames
  <2>2. Rooted(tree)
    BY <1>1, TreeAssumption DEF Rooted, Node, Parent
  <2>3. Node(tree, Root).kind = "dir"
    BY <1>1, TreeAssumption DEF Node
  <2>4. Plain(tree)
    BY <1>1, TreeAssumption DEF Plain, Last
  <2> QED BY <1>1, <2>1, <2>2, <2>3, <2>4 DEF TreeInv
<1>3. Idle(Free)
  BY DEF Idle, Free, Fields
<1>4. \A w \in Workers : /\ Fields(job[w]) /\ Paths(tree, job[w]) /\ Progress(job[w])
                         /\ Owns(shifted, tree, job[w]) /\ job[w].pc \notin Writing
  BY <1>1, <1>3, IdleJob DEF Idle
<1>5. JobInv
  BY <1>1, <1>4 DEF JobInv, Apart
<1>6. OutsideUntouched /\ NeverHalfWritten
  BY <1>1 DEF OutsideUntouched, NeverHalfWritten, Whole
<1> QED BY <1>2, <1>5, <1>6 DEF FileInv

LEMMA FileInvStep == FileInv /\ [FileNext]_fileVars => FileInv'
<1> SUFFICES ASSUME FileInv, [FileNext]_fileVars PROVE FileInv'
  OBVIOUS
<1>1. CASE UNCHANGED fileVars
  BY <1>1 DEF fileVars, FileInv, TreeInv, OutsideUntouched, NeverHalfWritten, Whole, JobInv, Apart
<1>2. ASSUME NEW w \in Workers, NEW req \in FileRequests, NEW p \in FilePermits,
             NEW expired \in BOOLEAN, NEW matches \in BOOLEAN,
             Execute(w, req, p, expired, matches)
      PROVE  FileInv'
  BY <1>2, ExecuteStep
<1>3. ASSUME NEW w \in Workers,
             \/ Resolve(w) \/ Stat(w) \/ Read(w) \/ Replace(w) \/ Create(w) \/ Remove(w)
             \/ Move(w) \/ List(w) \/ MakeDir(w) \/ CheckEmpty(w) \/ RemoveDir(w)
      PROVE  FileInv'
  BY <1>3, ResolveStep, StatReadList, ReplaceStep, CreateStep, RemoveStep, MoveStep,
     CheckEmptyStep
<1>4. ASSUME NEW w \in Workers, NEW suffix \in Suffixes, CreateTemp(w, suffix) PROVE FileInv'
  BY <1>4, CreateTempStep
<1>5. ASSUME NEW w \in Workers, NEW full_disk \in BOOLEAN, NEW file \in Opened(w),
             WriteData(w, file, full_disk)
      PROVE  FileInv'
  BY <1>5, WriteDataStep
<1>6. ASSUME NEW path \in DOMAIN tree, NEW data \in Growth, Outside(path, data) PROVE FileInv'
  BY <1>6, OutsideStep
<1>7. CASE Crash
  BY <1>7, CrashStep
<1> QED BY <1>1, <1>2, <1>3, <1>4, <1>5, <1>6, <1>7 DEF FileNext

\* The tree stays a tree whose workspace is a directory or gone, paths that were
\* resolved stay free of links until they are used, and a write owns its
\* temporary file and has written a beginning of its payload, for any tree,
\* requests and number of threads of the adapter.
THEOREM FilesInvariance == FileSpec => []FileInv
BY FileInvInit, FileInvStep, PTL DEF FileSpec

\* No operation of the adapter changes anything outside the workspace, for any
\* tree of links and any interleaving of threads, although a path is resolved
\* in one system call and used in a later one.
THEOREM NothingOutsideChanges == FileSpec => []OutsideUntouched
<1>1. FileInv => OutsideUntouched
  BY DEF FileInv
<1> QED BY <1>1, FilesInvariance, PTL

\* A file that is not a temporary one has whole contents at every moment, so
\* also after a crash at any moment, although two writes may draw the same
\* temporary name.
THEOREM FilesAreWhole == FileSpec => []NeverHalfWritten
<1>1. FileInv => NeverHalfWritten
  BY DEF FileInv
<1> QED BY <1>1, FilesInvariance, PTL

\* The file at a path leaves it by the thread w, and is found where a move leads.
LeavesBy(w, path) ==
    \/ At(w, "remove") /\ job[w].path = path
    \/ At(w, "replace") /\ job[w].temp = path
    \/ /\ At(w, "move") /\ StartsWith(path, job[w].path)
       /\ tree'[Rebased(path, job[w].path, Entry(tree, job[w].temp))] = tree[path]

LossExplained ==
    \A path \in DOMAIN tree :
         tree[path].kind = "file" /\ tree'[path].kind # "file" =>
            \E w \in Workers : LeavesBy(w, path)

LEMMA LossStep == FileInv /\ [FileNext]_fileVars => LossExplained \/ UNCHANGED fileVars
<1> SUFFICES ASSUME FileInv, FileNext, NEW path \in DOMAIN tree,
                    tree[path].kind = "file", tree'[path].kind # "file"
             PROVE  \E w \in Workers : LeavesBy(w, path)
  BY DEF LossExplained
<1>0. Node(tree, path) = tree[path]
  BY DEF Node
<1>1. tree' # tree
  OBVIOUS
<1>2. ASSUME NEW w \in Workers, Create(w) \/ MakeDir(w) PROVE FALSE
  <2>1. \E p : Node(tree, p).kind = "none" /\ \A q \in DOMAIN tree : q # p => tree'[q] = tree[q]
    <3>1. PICK n : /\ tree' = [tree EXCEPT ![Entry(tree, job[w].path)] = n]
                   /\ Node(tree, Entry(tree, job[w].path)).kind = "none"
      BY <1>1, <1>2 DEF Create, MakeDir, Fails
    <3> QED BY <3>1
  <2> QED BY <1>0, <2>1
<1>3. ASSUME NEW w \in Workers, Remove(w) PROVE LeavesBy(w, path)
  <2>1. job[w].pc = "remove" /\ Paths(tree, job[w])
    BY <1>3, NewFields DEF Remove, At
  <2>2. Slot(tree, job[w].path)
    BY <2>1, CanonicalSlot DEF Paths
  <2>3. Entry(tree, job[w].path) = job[w].path
    BY <2>2, TreeFacts, SlotParts
  <2>4. tree' = [tree EXCEPT ![job[w].path] = Absent]
    BY <1>1, <1>3, <2>3 DEF Remove, Fails
  <2> QED BY <2>1, <2>4 DEF At, LeavesBy
<1>4. ASSUME NEW w \in Workers, RemoveDir(w) PROVE FALSE
  <2>1. job[w].pc = "rmdir" /\ Paths(tree, job[w])
    BY <1>4, NewFields DEF RemoveDir, At
  <2>2. Canonical(tree, job[w].path)
    BY <2>1 DEF Paths
  <2>3. Canonicalize(tree, job[w].path).path = job[w].path
    BY <2>2, TreeFacts, CanonicalFixed DEF Canonical
  <2>4. KindOf(tree, job[w].path) = "dir" /\ tree' = [tree EXCEPT ![job[w].path] = Absent]
    BY <1>1, <1>4 DEF RemoveDir, Fails
  <2>5. Node(tree, job[w].path).kind = "dir"
    BY <2>3, <2>4 DEF KindOf
  <2> QED BY <1>0, <2>4, <2>5
<1>5. ASSUME NEW w \in Workers, Move(w) PROVE LeavesBy(w, path)
  <2> DEFINE from == job[w].path
             entry == Entry(tree, job[w].temp)
  <2>1. /\ At(w, "move") /\ HasParent(tree, job[w].temp)
        /\ CanRename(from, entry) /\ Renames(from, entry)
    BY <1>1, <1>5 DEF Move, Fails
  <2>2. /\ from \in Seq(AllNames) /\ Inside(from) /\ from # Root /\ Bare(tree, from)
        /\ entry \in Seq(AllNames) /\ entry # <<>> /\ entry # Root /\ Inside(entry)
        /\ Last(entry) \notin Suffixes /\ Node(tree, Parent(entry)).kind = "dir"
    BY <2>1, MoveParts
  <2>3. path \in Seq(AllNames)
    BY TreeFacts
  <2>9. LeavesBy(w, path) \/ ~
           (StartsWith(path, from) /\ tree'[Rebased(path, from, entry)] = tree[path])
    BY <2>1 DEF LeavesBy
  <2> HIDE DEF from, entry
  <2>4. /\ Carries(tree, tree', from, entry) /\ Fits(tree, from, entry) /\ Hollow(tree, entry)
        /\ Node(tree, from).kind \in {"file", "dir"}
        /\ Node(tree, from).kind = "dir" => Node(tree, entry).kind # "file"
    BY <2>1, <2>2, RenameStep
  <2>5. ~ StartsWith(path, entry)
    <3> SUFFICES ASSUME StartsWith(path, entry) PROVE FALSE
      OBVIOUS
    <3>1. path = entry
      BY <2>4 DEF Hollow
    <3>2. Rebased(path, entry, from) = from
      BY <2>2, <2>3, <3>1, RebasedParts
    <3>3. tree'[path] = Node(tree, from)
      BY <2>4, <3>2 DEF Carries
    <3> QED BY <1>0, <2>4, <3>1, <3>3
  <2>6. StartsWith(path, from)
    BY <2>4, <2>5 DEF Carries
  <2>7. /\ Rebased(path, from, entry) \in DOMAIN tree
        /\ StartsWith(Rebased(path, from, entry), entry)
        /\ Rebased(Rebased(path, from, entry), entry, from) = path
    BY <2>2, <2>3, <2>4, <2>6, RebasedParts DEF Fits
  <2>8. tree'[Rebased(path, from, entry)] = tree[path]
    BY <1>0, <2>4, <2>7 DEF Carries
  <2> QED BY <2>6, <2>8, <2>9
<1>6. ASSUME NEW w \in Workers, Replace(w) PROVE LeavesBy(w, path)
  <2> DEFINE temp == job[w].temp
             target == job[w].path
  <2>1. At(w, "replace")
    BY <1>6 DEF Replace
  <2>2. /\ temp \in Seq(AllNames) /\ Inside(temp) /\ temp # Root
        /\ Node(tree, temp).kind # "dir"
        /\ target \in Seq(AllNames) /\ target # <<>> /\ target # Root
        /\ Inside(target) /\ Entry(tree, target) = target
        /\ Last(target) \notin Suffixes
        /\ HasParent(tree, target) => Node(tree, Parent(target)).kind = "dir"
    BY <2>1, ReplaceParts
  <2>3. CASE HasParent(tree, target) /\ CanRename(temp, target)
    <3>1. Renames(temp, target)
      BY <1>6, <2>2, <2>3 DEF Replace
    <3>2. Node(tree, temp).kind = "file"
      BY <2>2, <2>3 DEF CanRename
    <3>3. Bare(tree, temp)
      BY <2>2, <3>2, TreeFacts, FileBare
    <3>4. Moves(tree, tree', temp, target)
      BY <2>2, <2>3, <3>1, <3>2, <3>3, RenameStep
    <3>5. tree[temp].kind = "file"
      BY <3>2 DEF Node, Absent
    <3>6. path = temp
      BY <3>4, <3>5 DEF Moves, MovedAt
    <3> QED BY <2>1, <3>6 DEF LeavesBy
  <2>4. CASE ~ (HasParent(tree, target) /\ CanRename(temp, target))
    <3>1. tree' = IF Node(tree, temp).kind # "file" THEN tree ELSE [tree EXCEPT ![temp] = Absent]
      BY <1>6, <2>2, <2>4 DEF Replace
    <3>2. path = temp
      BY <1>1, <3>1
    <3> QED BY <2>1, <3>2 DEF LeavesBy
  <2> QED BY <2>3, <2>4
<1>7. ASSUME NEW w \in Workers, NEW suffix, CreateTemp(w, suffix) PROVE FALSE
  <2> DEFINE temp == Append(Parent(job[w].path), suffix)
  <2>1. tree' = [tree EXCEPT ![temp] = Regular(<<>>)] /\ Node(tree, temp).kind = "none"
    BY <1>1, <1>7 DEF CreateTemp, Fails
  <2> HIDE DEF temp
  <2> QED BY <1>0, <2>1
<1>8. ASSUME NEW w \in Workers, NEW file, NEW full_disk, WriteData(w, file, full_disk) PROVE FALSE
  <2>1. PICK x : tree' = [tree EXCEPT ![file] = Regular(x)]
    BY <1>1, <1>8 DEF WriteData, Fails
  <2> QED BY <2>1 DEF Regular
<1>9. ASSUME NEW p \in DOMAIN tree, NEW data, Outside(p, data) PROVE FALSE
  BY <1>9 DEF Outside, Regular
<1>10. ASSUME NEW w \in Workers,
              \/ Resolve(w) \/ Stat(w) \/ Read(w) \/ List(w) \/ CheckEmpty(w)
       PROVE  FALSE
  <2>1. CASE Stat(w) \/ Read(w) \/ List(w) \/ CheckEmpty(w)
    BY <1>1, <2>1 DEF Stat, Read, List, CheckEmpty, Fails
  <2>2. CASE Resolve(w)
    <3>1. job[w].pc = "resolve" /\ job[w].req.op \in FileOps \cup DirectoryOps
      BY <2>2, NewFields DEF Resolve, At, Paths, Accepted
    <3>2. ASSUME NEW r, NEW pc, Goes(w, r, pc) PROVE FALSE
      BY <1>1, <3>2 DEF Goes, Fails
    <3> QED BY <1>1, <2>2, <3>1, <3>2 DEF Resolve, Fails, FileOps, DirectoryOps
  <2> QED BY <1>10, <2>1, <2>2
<1>11. ASSUME NEW w, NEW req, NEW p, NEW expired, NEW matches,
              Execute(w, req, p, expired, matches)
       PROVE  FALSE
  BY <1>1, <1>11 DEF Execute, Fails
<1>12. ~ Crash
  BY <1>1 DEF Crash
<1> QED BY <1>2, <1>3, <1>4, <1>5, <1>6, <1>7, <1>8, <1>9, <1>10, <1>11, <1>12 DEF FileNext

\* A file leaves its place only by a delete of that file, by the end of the write
\* whose temporary file it is, or by a move of it or of a directory above it, and
\* then it is found as it was in the place the move leads to: never with a
\* directory that is removed and never by a create.
THEOREM NoFileIsLost == FileSpec => NoFileLost
<1>1. FileInv /\ [FileNext]_fileVars => [LossExplained]_fileVars
  BY LossStep
<1> QED BY <1>1, FilesInvariance, PTL DEF FileSpec, NoFileLost, LossExplained, LeavesBy

-----------------------------------------------------------------------------
(***************************************************************************)
(* The invariant.                                                          *)
(***************************************************************************)
Pipe == [queued : Nat, written : Nat, got : Nat,
         reader : {"off", "open", "closed", "failed"}]

CommandType ==
    /\ command = [step |-> command.step, input |-> command.input,
                  outcome |-> command.outcome]
    /\ command.step \in {"returned", "spawn", "wait", "kill", "join"}
    /\ child \in {"none", "running", "exited", "reaped"}
    /\ pipe \in [Streams -> Pipe]

\* What has left the pipe is with the reader, up to the limit.  Once the
\* reader has closed the pipe nothing is added to it, and what is left in it
\* is over the limit.
PipeAccount(q, limit) ==
    /\ q.reader = "open" => /\ q.queued <= q.written
                            /\ q.got = Least(q.written - q.queued, limit)
    /\ q.reader = "closed" => q.got = Least(q.written, limit)

Accounted == \A s \in Streams : PipeAccount(pipe[s], OutputLimit[s])

\* A child lives only while the main thread waits for it, or is about to kill
\* it.
ChildOwned == command.step \in {"returned", "spawn", "join"} => child \in {"none", "reaped"}

\* From the spawn on there are readers; a success has seen both close.
ReadersKnown ==
    /\ command.step \in {"wait", "kill", "join"} =>
          \A s \in Streams : pipe[s].reader # "off"
    /\ command.step = "returned" /\ command.outcome = "ok" =>
          \A s \in Streams : pipe[s].reader = "closed"

CommandInv == CommandType /\ Accounted /\ ChildOwned /\ ReadersKnown

-----------------------------------------------------------------------------
(***************************************************************************)
(* The steps.                                                              *)
(***************************************************************************)

\* A call that is refused returns an error and touches no pipe.
LEMMA RefusalKeeps ==
    ASSUME CommandInv, NEW outcome, outcome # "ok", CommandReturn(outcome),
           command.step \in {"returned", "spawn"}
    PROVE  CommandInv'
<1>1. /\ command' = [step |-> "returned", input |-> Null, outcome |-> outcome]
      /\ child' = child /\ pipe' = pipe
  BY DEF CommandReturn, Ended
<1>2. CommandType'
  BY <1>1 DEF CommandInv, CommandType
<1>3. Accounted'
  BY <1>1 DEF CommandInv, Accounted, PipeAccount
<1>4. ChildOwned'
  BY <1>1 DEF CommandInv, ChildOwned
<1>5. ReadersKnown'
  BY <1>1 DEF ReadersKnown
<1> QED
  BY <1>2, <1>3, <1>4, <1>5 DEF CommandInv

\* The checks of a call end in an error or in the spawn.
LEMMA ExecuteKeeps ==
    ASSUME CommandInv, NEW in, NEW p, NEW expired, NEW matches,
           ExecuteCommand(in, p, expired, matches)
    PROVE  CommandInv'
<1>1. command.step = "returned"
  BY DEF ExecuteCommand
<1>2. CASE \E outcome : outcome # "ok" /\ CommandReturn(outcome)
  BY <1>1, <1>2, RefusalKeeps
<1>3. CASE /\ command' = [step |-> "spawn", input |-> in, outcome |-> "none"]
           /\ UNCHANGED <<child, pipe>>
  <2>1. CommandType'
    BY <1>3 DEF CommandInv, CommandType
  <2>2. Accounted'
    BY <1>3 DEF CommandInv, Accounted, PipeAccount
  <2>3. ChildOwned' /\ ReadersKnown'
    BY <1>1, <1>3 DEF CommandInv, ChildOwned, ReadersKnown
  <2> QED
    BY <2>1, <2>2, <2>3 DEF CommandInv
<1> QED
  BY <1>2, <1>3 DEF ExecuteCommand

\* A new child has two empty pipes and a reader for each.
LEMMA SpawnKeeps ==
    ASSUME CommandInv, NEW fails, Spawn(fails)
    PROVE  CommandInv'
<1>1. command.step = "spawn"
  BY DEF Spawn
<1>2. CASE CommandReturn("spawn_failed")
  BY <1>1, <1>2, RefusalKeeps
<1>3. CASE /\ command' = [command EXCEPT !.step = "wait"]
           /\ child' = "running"
           /\ pipe' = [s \in Streams |-> [NewPipe EXCEPT !.reader = "open"]]
  <2>1. \A s \in Streams : pipe'[s] = [queued |-> 0, written |-> 0, got |-> 0,
                                       reader |-> "open"]
    BY <1>3 DEF NewPipe
  <2>2. command' = [step |-> "wait", input |-> command.input, outcome |-> command.outcome]
    BY <1>3 DEF CommandInv, CommandType
  <2>3. pipe' \in [Streams -> Pipe]
    BY <1>3, <2>1 DEF Pipe
  <2>4. CommandType'
    BY <1>3, <2>2, <2>3 DEF CommandType
  <2>5. Accounted'
    BY <2>1, CommandAssumption DEF Accounted, PipeAccount, Least, Streams
  <2>6. ChildOwned' /\ ReadersKnown'
    BY <2>1, <2>2 DEF ChildOwned, ReadersKnown
  <2> QED
    BY <2>4, <2>5, <2>6 DEF CommandInv
<1> QED
  BY <1>2, <1>3 DEF Spawn

\* The main thread moves on from the wait: to the join with the child reaped,
\* or to the kill.
LEMMA WaitKeeps ==
    ASSUME CommandInv, NEW fails, WaitTimeout(fails)
    PROVE  CommandInv'
<1>1. command.step = "wait" /\ pipe' = pipe
  BY DEF WaitTimeout
<1>2. \E step \in {"kill", "join"}, outcome \in {"ok", "timeout", "process_failed"} :
         /\ command' = [command EXCEPT !.step = step, !.outcome = outcome]
         /\ step = "join" => child' = "reaped"
         /\ step = "kill" => child' = child
  BY DEF WaitTimeout
<1>3. PICK step \in {"kill", "join"}, outcome \in {"ok", "timeout", "process_failed"} :
         /\ command' = [command EXCEPT !.step = step, !.outcome = outcome]
         /\ step = "join" => child' = "reaped"
         /\ step = "kill" => child' = child
  BY <1>2
<1>4. command' = [step |-> step, input |-> command.input, outcome |-> outcome]
  BY <1>3 DEF CommandInv, CommandType
<1>5. CommandType'
  BY <1>1, <1>3, <1>4 DEF CommandInv, CommandType
<1>6. Accounted'
  BY <1>1 DEF CommandInv, Accounted, PipeAccount
<1>7. ChildOwned' /\ ReadersKnown'
  BY <1>1, <1>3, <1>4 DEF CommandInv, ChildOwned, ReadersKnown
<1> QED
  BY <1>5, <1>6, <1>7 DEF CommandInv

\* Whatever the kill meets, the child is waited for.
LEMMA KillKeeps ==
    ASSUME CommandInv, KillAndReap
    PROVE  CommandInv'
<1>1. command.step = "kill" /\ child' = "reaped" /\ pipe' = pipe
  BY DEF KillAndReap
<1>2. command' = [step |-> "join", input |-> command.input, outcome |-> command.outcome]
  BY DEF KillAndReap, CommandInv, CommandType
<1>3. CommandType'
  BY <1>1, <1>2 DEF CommandInv, CommandType
<1>4. Accounted'
  BY <1>1 DEF CommandInv, Accounted, PipeAccount
<1>5. ChildOwned' /\ ReadersKnown'
  BY <1>1, <1>2 DEF CommandInv, ChildOwned, ReadersKnown
<1> QED
  BY <1>3, <1>4, <1>5 DEF CommandInv

\* The call succeeds only when neither reader is open or has failed.
LEMMA JoinKeeps ==
    ASSUME CommandInv, Join
    PROVE  CommandInv'
<1>1. PICK outcome :
         /\ command' = [step |-> "returned", input |-> Null, outcome |-> outcome]
         /\ outcome = "ok" => \A s \in Streams : pipe[s].reader # "failed"
  BY DEF Join, Ended
<1>2. /\ command.step = "join" /\ child' = child /\ pipe' = pipe
      /\ \A s \in Streams : pipe[s].reader # "open"
  BY DEF Join, ReadersDone
<1>3. CommandType'
  BY <1>1, <1>2 DEF CommandInv, CommandType
<1>4. Accounted'
  BY <1>2 DEF CommandInv, Accounted, PipeAccount
<1>5. ChildOwned'
  BY <1>1, <1>2 DEF CommandInv, ChildOwned
<1>6. ReadersKnown'
  BY <1>1, <1>2 DEF CommandInv, ReadersKnown, CommandType, Pipe
<1> QED
  BY <1>3, <1>4, <1>5, <1>6 DEF CommandInv

\* A step that leaves the main thread and the child where they are and turns
\* an open pipe into one that keeps the account.
LEMMA PipeStepKeeps ==
    ASSUME CommandInv, NEW s \in Streams, NEW q \in Pipe,
           UNCHANGED <<command, child>>, pipe' = [pipe EXCEPT ![s] = q],
           pipe[s].reader = "open", q.reader # "off",
           PipeAccount(q, OutputLimit[s])
    PROVE  CommandInv'
<1>1. \A r \in Streams : pipe'[r] = IF r = s THEN q ELSE pipe[r]
  BY DEF CommandInv, CommandType
<1>2. CommandType'
  BY DEF CommandInv, CommandType
<1>3. Accounted'
  BY <1>1 DEF CommandInv, Accounted, PipeAccount
<1>4. ChildOwned'
  BY DEF CommandInv, ChildOwned
<1>5. ReadersKnown'
  BY <1>1 DEF CommandInv, ReadersKnown
<1> QED
  BY <1>2, <1>3, <1>4, <1>5 DEF CommandInv

\* The arithmetic of one read.
LEMMA ReadAccount ==
    ASSUME NEW q \in Pipe, NEW limit \in Nat, NEW n \in Nat, n <= q.queued,
           n = 0 => q.queued = 0, q.reader = "open", PipeAccount(q, limit)
    PROVE  /\ AfterRead(q, n, limit) \in Pipe
           /\ AfterRead(q, n, limit).reader # "off"
           /\ PipeAccount(AfterRead(q, n, limit), limit)
<1>1. /\ q.queued \in Nat /\ q.written \in Nat /\ q.got \in Nat
      /\ q.queued - n \in Nat
  BY DEF Pipe
<1>2. q.queued <= q.written /\ q.got = Least(q.written - q.queued, limit)
  BY DEF PipeAccount
<1>3. PICK r : r = AfterRead(q, n, limit)
  OBVIOUS
<1>4. CASE q.got = limit
  <2>1. r = [q EXCEPT !.reader = "closed", !.queued = @ - n]
    BY <1>3, <1>4 DEF AfterRead
  <2>2. r \in Pipe
    BY <1>1, <2>1 DEF Pipe
  <2>3. r.reader = "closed" /\ r.got = q.got /\ r.written = q.written
    BY <2>1 DEF Pipe
  <2>4. q.got = Least(q.written, limit)
    BY <1>1, <1>2, <1>4 DEF Least
  <2> QED
    BY <1>3, <2>2, <2>3, <2>4 DEF PipeAccount
<1>5. CASE q.got # limit
  <2>1. PICK m : m = q.got + Least(n, limit - q.got)
    OBVIOUS
  <2>2. PICK reader \in {"closed", "open"} : reader = IF n = 0 THEN "closed" ELSE "open"
    OBVIOUS
  <2>3. r = [q EXCEPT !.got = m, !.queued = @ - n, !.reader = reader]
    BY <1>3, <1>5, <2>1, <2>2 DEF AfterRead
  <2>4. m \in Nat /\ m = Least(q.written - (q.queued - n), limit)
    BY <1>1, <1>2, <1>5, <2>1 DEF Least
  <2>5. r \in Pipe
    BY <1>1, <2>3, <2>4 DEF Pipe
  <2>6. r.got = m /\ r.queued = q.queued - n /\ r.written = q.written /\ r.reader = reader
    BY <2>3 DEF Pipe
  <2>7. n = 0 => m = Least(q.written, limit)
    BY <1>1, <2>4
  <2>8. q.queued - n <= q.written
    BY <1>1, <1>2
  <2> QED
    BY <1>3, <2>2, <2>4, <2>5, <2>6, <2>7, <2>8 DEF PipeAccount
<1> QED
  BY <1>4, <1>5

\* A read fails, or takes bytes and keeps those that fit.
LEMMA ReadKeeps ==
    ASSUME CommandInv, NEW s \in Streams, NEW fails \in BOOLEAN, ReadStream(s, fails)
    PROVE  CommandInv'
<1>1. /\ pipe[s].reader = "open" /\ UNCHANGED <<command, child>>
      /\ pipe[s] \in Pipe /\ PipeAccount(pipe[s], OutputLimit[s])
  BY DEF ReadStream, CommandInv, CommandType, Accounted
<1>2. CASE fails
  <2>1. PICK q : q = [pipe[s] EXCEPT !.reader = "failed"]
    OBVIOUS
  <2>2. pipe' = [pipe EXCEPT ![s] = q]
    BY <1>2, <2>1 DEF ReadStream
  <2>3. q \in Pipe /\ q.reader = "failed"
    BY <1>1, <2>1 DEF Pipe
  <2>4. PipeAccount(q, OutputLimit[s])
    BY <2>3 DEF PipeAccount
  <2> QED
    BY <1>1, <2>2, <2>3, <2>4, PipeStepKeeps
<1>3. CASE ~ fails
  <2>1. OutputLimit[s] \in Nat /\ Chunk \in Nat \ {0} /\ pipe[s].queued \in Nat
    BY <1>1, CommandAssumption DEF Streams, Pipe
  <2>2. PICK n \in Nat : /\ n = Least(pipe[s].queued, Chunk)
                         /\ n <= pipe[s].queued /\ (n = 0 => pipe[s].queued = 0)
    BY <2>1 DEF Least
  <2>3. PICK q : q = AfterRead(pipe[s], n, OutputLimit[s])
    OBVIOUS
  <2>4. pipe' = [pipe EXCEPT ![s] = q]
    BY <1>3, <2>2, <2>3 DEF ReadStream
  <2>5. q \in Pipe /\ q.reader # "off" /\ PipeAccount(q, OutputLimit[s])
    BY <1>1, <2>1, <2>2, <2>3, ReadAccount
  <2> QED
    BY <1>1, <2>4, <2>5, PipeStepKeeps
<1> QED
  BY <1>2, <1>3

\* The child adds one byte to an open pipe.
LEMMA WriteKeeps ==
    ASSUME CommandInv, NEW s \in Streams, ChildWrites(s)
    PROVE  CommandInv'
<1>1. /\ pipe[s].reader = "open" /\ UNCHANGED <<command, child>>
      /\ pipe[s] \in Pipe /\ PipeAccount(pipe[s], OutputLimit[s])
  BY DEF ChildWrites, CommandInv, CommandType, Accounted
<1>2. PICK q : q = [pipe[s] EXCEPT !.queued = @ + 1, !.written = @ + 1]
  OBVIOUS
<1>3. pipe' = [pipe EXCEPT ![s] = q]
  BY <1>1, <1>2 DEF ChildWrites, CommandInv, CommandType
<1>4. pipe[s].queued \in Nat /\ pipe[s].written \in Nat
  BY <1>1 DEF Pipe
<1>5. q \in Pipe
  <2>1. pipe[s].queued + 1 \in Nat /\ pipe[s].written + 1 \in Nat
    BY <1>4
  <2>2. \A a, b \in Nat : [pipe[s] EXCEPT !.queued = a, !.written = b] \in Pipe
    BY <1>1 DEF Pipe
  <2> QED
    BY <1>2, <2>1, <2>2
<1>6. /\ q.queued = pipe[s].queued + 1 /\ q.written = pipe[s].written + 1
      /\ q.got = pipe[s].got /\ q.reader = "open"
  BY <1>1, <1>2 DEF Pipe
<1>7. q.written - q.queued = pipe[s].written - pipe[s].queued
  BY <1>4, <1>6
<1>8. pipe[s].queued <= pipe[s].written => q.queued <= q.written
  BY <1>4, <1>6
<1>9. PipeAccount(q, OutputLimit[s])
  BY <1>1, <1>6, <1>7, <1>8 DEF PipeAccount
<1> QED
  BY <1>1, <1>3, <1>5, <1>6, <1>9, PipeStepKeeps

\* Steps of the child, of a descendant and of the clock that touch no pipe.
LEMMA OthersKeep ==
    ASSUME CommandInv, ChildForks \/ ChildExits \/ DescendantExits \/ TimePasses
    PROVE  CommandInv'
<1>1. command' = command /\ pipe' = pipe
  BY DEF ChildForks, ChildExits, DescendantExits, TimePasses
<1>2. child' = child \/ (child = "running" /\ child' = "exited")
  BY DEF ChildForks, ChildExits, DescendantExits, TimePasses
<1>3. CommandType'
  BY <1>1, <1>2 DEF CommandInv, CommandType
<1>4. Accounted' /\ ReadersKnown'
  BY <1>1 DEF CommandInv, Accounted, PipeAccount, ReadersKnown
<1>5. ChildOwned'
  BY <1>1, <1>2 DEF CommandInv, ChildOwned
<1> QED
  BY <1>3, <1>4, <1>5 DEF CommandInv

-----------------------------------------------------------------------------
(***************************************************************************)
(* The theorems.                                                           *)
(***************************************************************************)

\* The invariant holds at the start and every step keeps it.
THEOREM CommandInvariance == CommandSpec => []CommandInv
<1>1. CommandInit => CommandInv
  <2>1. SUFFICES ASSUME CommandInit PROVE CommandInv
    OBVIOUS
  <2>2. /\ command = [step |-> "returned", input |-> Null, outcome |-> "none"]
        /\ child = "none"
        /\ \A s \in Streams : pipe[s] = [queued |-> 0, written |-> 0, got |-> 0,
                                         reader |-> "off"]
    BY <2>1 DEF CommandInit, Ended, NewPipe
  <2>3. pipe \in [Streams -> Pipe]
    BY <2>1, <2>2 DEF CommandInit, Pipe
  <2>4. CommandType
    BY <2>2, <2>3 DEF CommandType
  <2>5. Accounted /\ ChildOwned /\ ReadersKnown
    BY <2>2 DEF Accounted, PipeAccount, ChildOwned, ReadersKnown
  <2> QED
    BY <2>4, <2>5 DEF CommandInv
<1>2. CommandInv /\ [CommandNext]_commandVars => CommandInv'
  <2>1. SUFFICES ASSUME CommandInv, [CommandNext]_commandVars PROVE CommandInv'
    OBVIOUS
  <2>2. CASE \E in \in Commands, p \in CommandPermits, expired, matches \in BOOLEAN :
                ExecuteCommand(in, p, expired, matches)
    BY <2>1, <2>2, ExecuteKeeps
  <2>3. CASE \E fails \in BOOLEAN : Spawn(fails) \/ WaitTimeout(fails)
    BY <2>1, <2>3, SpawnKeeps, WaitKeeps
  <2>4. CASE KillAndReap
    BY <2>1, <2>4, KillKeeps
  <2>5. CASE Join
    BY <2>1, <2>5, JoinKeeps
  <2>6. CASE \E s \in Streams, fails \in BOOLEAN : ReadStream(s, fails)
    BY <2>1, <2>6, ReadKeeps
  <2>7. CASE \E s \in Streams : ChildWrites(s)
    BY <2>1, <2>7, WriteKeeps
  <2>8. CASE ChildForks \/ ChildExits \/ DescendantExits \/ TimePasses
    BY <2>1, <2>8, OthersKeep
  <2>9. CASE UNCHANGED commandVars
    BY <2>1, <2>9 DEF commandVars, CommandInv, CommandType, Accounted, PipeAccount, ChildOwned,
                      ReadersKnown
  <2> QED
    BY <2>1, <2>2, <2>3, <2>4, <2>5, <2>6, <2>7, <2>8, <2>9 DEF CommandNext
<1> QED
  BY <1>1, <1>2, PTL DEF CommandSpec

\* No call leaves a process behind that nobody waits for, however the end of
\* the child, the deadline and the kill race (ChildReaped).
THEOREM NoZombie == CommandSpec => []ChildReaped
<1>1. CommandInv => ChildReaped
  BY DEF CommandInv, ChildOwned, ChildReaped
<1> QED
  BY <1>1, CommandInvariance, PTL

\* A successful call returns everything the child wrote, up to the limit of
\* the stream, whatever the sizes of pipes and reads (OutputComplete).
THEOREM NothingLostInPipe == CommandSpec => []OutputComplete
<1>1. CommandInv => OutputComplete
  BY DEF CommandInv, Accounted, PipeAccount, ReadersKnown, OutputComplete
<1> QED
  BY <1>1, CommandInvariance, PTL

Urls == {in.url : in \in Endpoints} \cup {ParseUrlParts(loc) : loc \in Locations}

-----------------------------------------------------------------------------
(***************************************************************************)
(* The checks.                                                             *)
(***************************************************************************)

\* A set of indices that is not empty has a least element.
LEMMA LeastIndex ==
    ASSUME NEW S, S \subseteq Nat, S # {}
    PROVE  \E i \in S : \A j \in S : i <= j
<1>1. \E i \in S : \A j \in S : ~ (<<j, i>> \in OpToRel(<, Nat))
  BY NatLessThanWellFounded, WFMin
<1>2. PICK i \in S : \A j \in S : ~ (<<j, i>> \in OpToRel(<, Nat))
  BY <1>1
<1>3. \A j \in S : ~ (j < i)
  BY <1>2 DEF OpToRel
<1> QED
  BY <1>3

\* A sequence of checks ends in "ok" only when each of them passed.
LEMMA FirstFaultOk ==
    ASSUME NEW checks, DOMAIN checks \subseteq Nat, FirstFault(checks) = "ok"
    PROVE  \A i \in DOMAIN checks : checks[i] = "ok"
<1> DEFINE failing == {i \in DOMAIN checks : checks[i] # "ok"}
<1>1. SUFFICES ASSUME failing # {} PROVE FALSE
  OBVIOUS
<1>2. \E i \in failing : \A j \in failing : i <= j
  BY <1>1, LeastIndex
<1>3. (CHOOSE i \in failing : \A j \in failing : i <= j) \in failing
  BY <1>2
<1> QED
  BY <1>1, <1>3 DEF FirstFault

\* The place a request may go to: no metadata host, and plain HTTP only when
\* it is on.
UrlVetted(url) == /\ url.host \notin MetadataHosts
                  /\ url.scheme = "http" => AllowHttp

\* A request that passes the checks of execute names such a place.
LEMMA RequestVetted ==
    ASSUME NEW in, NetworkFault(in) = "ok"
    PROVE  UrlVetted(in.url)
<1> DEFINE checks == <<SchemeFault(in.url.scheme), HostFault(in.url.host),
                       HeadersFault(in.headers),
                       Unless(in.body <= RequestBodyLimit, "request_body_limit"),
                       Unless(in.url.host \notin MetadataHosts, "metadata_endpoint_blocked")>>
           schemes == <<Unless(in.url.scheme \in {"http", "https"}, "unsupported_scheme"),
                        Unless(in.url.scheme = "http" => AllowHttp, "plain_http_disabled")>>
<1>1. \A i \in DOMAIN checks : checks[i] = "ok"
  BY FirstFaultOk DEF NetworkFault
<1>2. /\ SchemeFault(in.url.scheme) = "ok"
      /\ Unless(in.url.host \notin MetadataHosts, "metadata_endpoint_blocked") = "ok"
  BY <1>1
<1>3. \A i \in DOMAIN schemes : schemes[i] = "ok"
  BY <1>2, FirstFaultOk DEF SchemeFault
<1>4. Unless(in.url.scheme = "http" => AllowHttp, "plain_http_disabled") = "ok"
  BY <1>3
<1> QED
  BY <1>2, <1>4 DEF Unless, UrlVetted

\* So does a redirect that is followed.
LEMMA RedirectVetted ==
    ASSUME NEW loc, RedirectFault(loc) = "ok"
    PROVE  UrlVetted(ParseUrlParts(loc))
<1> DEFINE checks == <<Unless(loc.form = "absolute", "redirect_rejected"),
                       Unless(ParseUrlParts(loc).scheme = "http" => AllowHttp, "redirect_rejected"),
                       HostFault(ParseUrlParts(loc).host),
                       Unless(ParseUrlParts(loc).host \notin MetadataHosts, "metadata_endpoint_blocked")>>
<1>1. \A i \in DOMAIN checks : checks[i] = "ok"
  BY FirstFaultOk DEF RedirectFault
<1>2. /\ Unless(ParseUrlParts(loc).scheme = "http" => AllowHttp, "redirect_rejected") = "ok"
      /\ Unless(ParseUrlParts(loc).host \notin MetadataHosts, "metadata_endpoint_blocked") = "ok"
  BY <1>1
<1> QED
  BY <1>2 DEF Unless, UrlVetted

\* Two octets whose value lies in a private range, by the range.
LEMMA RangeOctets ==
    ASSUME NEW x \in Octet, NEW y \in Octet, NEW lo \in Nat, NEW hi \in Nat,
           lo <= 256 * x + y, 256 * x + y <= hi
    PROVE  /\ lo = 0 /\ hi = 255 => x = 0
           /\ lo = 2560 /\ hi = 2815 => x = 10
           /\ lo = 25664 /\ hi = 25727 => x = 100 /\ y \in 64..127
           /\ lo = 32512 /\ hi = 32767 => x = 127
           /\ lo = 43518 /\ hi = 43518 => x = 169 /\ y = 254
           /\ lo = 44048 /\ hi = 44063 => x = 172 /\ y \in 16..31
           /\ lo = 49320 /\ hi = 49320 => x = 192 /\ y = 168
           /\ lo = 57344 /\ hi = 61439 => x \in 224..239
  BY DEF Octet

\* The octet tests of is_blocked_ipv4 cover every private range.
LEMMA RangesBlocked ==
    ASSUME NEW o \in [1..4 -> Octet], NEW r \in PrivateRanges,
           r[1] <= 256 * o[1] + o[2], 256 * o[1] + o[2] <= r[2]
    PROVE  BlockedIpv4(o)
<1>1. o[1] \in Octet /\ o[2] \in Octet
  OBVIOUS
<1>2. r[1] \in Nat /\ r[2] \in Nat
  BY DEF PrivateRanges
<1>3. \/ r[1] = 0 /\ r[2] = 255
      \/ r[1] = 2560 /\ r[2] = 2815
      \/ r[1] = 25664 /\ r[2] = 25727
      \/ r[1] = 32512 /\ r[2] = 32767
      \/ r[1] = 43518 /\ r[2] = 43518
      \/ r[1] = 44048 /\ r[2] = 44063
      \/ r[1] = 49320 /\ r[2] = 49320
      \/ r[1] = 57344 /\ r[2] = 61439
  BY DEF PrivateRanges
<1>4. \/ o[1] \in {0, 10, 127} \cup 224..239
      \/ o[1] = 172 /\ o[2] \in 16..31
      \/ o[1] = 192 /\ o[2] = 168
      \/ o[1] = 169 /\ o[2] = 254
      \/ o[1] = 100 /\ o[2] \in 64..127
  BY <1>1, <1>2, <1>3, RangeOctets
<1> QED
  BY <1>4 DEF BlockedIpv4

\* The octets inside a mapped address are octets.
LEMMA EmbeddedOctets ==
    ASSUME NEW a \in [v : {6}, parts : [1..8 -> Segment]]
    PROVE  Embedded(a).parts \in [1..4 -> Octet]
<1>1. a.parts[7] \in Segment /\ a.parts[8] \in Segment
  OBVIOUS
<1>2. \A n \in Segment : n \div 256 \in Octet /\ n % 256 \in Octet
  BY DEF Segment, Octet
<1>3. /\ a.parts[7] \div 256 \in Octet /\ a.parts[7] % 256 \in Octet
      /\ a.parts[8] \div 256 \in Octet /\ a.parts[8] % 256 \in Octet
  BY <1>1, <1>2
<1>4. \A w, x, y, z \in Octet : <<w, x, y, z>> \in [1..4 -> Octet]
  OBVIOUS
<1> QED
  BY <1>3, <1>4 DEF Embedded, V4

\* An address the checks let through is in no private range, except the
\* loopback addresses where they are allowed.
LEMMA NotRefusedNotPrivate ==
    ASSUME NEW a \in Address, ~ Refused(a), Private(a)
    PROVE  AllowLoopback /\ IsLoopback(a)
<1>1. SUFFICES BlockedIp(a)
  BY DEF Refused
<1>2. CASE a \in [v : {4}, parts : [1..4 -> Octet]]
  <2>1. a.v = 4 /\ a.parts \in [1..4 -> Octet]
    BY <1>2
  <2>2. PICK r \in PrivateRanges : /\ r[1] <= 256 * a.parts[1] + a.parts[2]
                                   /\ 256 * a.parts[1] + a.parts[2] <= r[2]
    BY <2>1 DEF Private
  <2> QED
    BY <2>1, <2>2, RangesBlocked DEF BlockedIp
<1>3. CASE a \in [v : {6}, parts : [1..8 -> Segment]]
  <2>1. a.v = 6 /\ Embedded(a).parts \in [1..4 -> Octet]
    BY <1>3, EmbeddedOctets
  <2>2. PICK r \in PrivateRanges :
            /\ r[1] <= 256 * Embedded(a).parts[1] + Embedded(a).parts[2]
            /\ 256 * Embedded(a).parts[1] + Embedded(a).parts[2] <= r[2]
    BY <2>1 DEF Private
  <2>3. IsMapped(a) /\ BlockedIpv4(Embedded(a).parts)
    BY <2>1, <2>2, RangesBlocked DEF Private
  <2> QED
    BY <2>1, <2>3 DEF BlockedIp, BlockedIpv6
<1> QED
  BY <1>2, <1>3 DEF Address

-----------------------------------------------------------------------------
(***************************************************************************)
(* The invariant: what is known of the place a request is going to and of  *)
(* the addresses it may connect to, at each step.                          *)
(***************************************************************************)
Connections == [address : Address, url : Urls]

NetType ==
    /\ net = [step |-> net.step, input |-> net.input, url |-> net.url,
              addresses |-> net.addresses, redirects |-> net.redirects,
              got |-> net.got, outcome |-> net.outcome]
    /\ connections \in Seq(Connections)

PlaceVetted ==
    net.step \in {"lookup", "connect"} => net.url \in Urls /\ UrlVetted(net.url)

AddressesVetted ==
    net.step = "connect" =>
        /\ net.addresses \in Seq(Address)
        /\ \A i \in DOMAIN net.addresses : ~ Refused(net.addresses[i])

NetInv == NetType /\ PlaceVetted /\ AddressesVetted /\ ConnectionsVetted

\* Returning, with any outcome, keeps the invariant.
LEMMA ReturnKeeps ==
    ASSUME NetInv, NEW outcome, NetworkReturn(outcome)
    PROVE  NetInv'
<1>1. net' = Returned(outcome) /\ connections' = connections
  BY DEF NetworkReturn
<1>2. net'.step = "returned"
  BY <1>1 DEF Returned
<1>3. NetType'
  BY <1>1 DEF NetInv, NetType, Returned
<1>4. PlaceVetted' /\ AddressesVetted'
  BY <1>2 DEF PlaceVetted, AddressesVetted
<1>5. ConnectionsVetted'
  BY <1>1 DEF NetInv, ConnectionsVetted
<1> QED
  BY <1>3, <1>4, <1>5 DEF NetInv

\* So does a step inside a request that opens no connection and goes on to
\* neither a look-up nor a connection.
LEMMA QuietKeeps ==
    ASSUME NetInv, NetType', connections' = connections,
           net'.step \notin {"lookup", "connect"}
    PROVE  NetInv'
<1>1. PlaceVetted' /\ AddressesVetted'
  BY DEF PlaceVetted, AddressesVetted
<1>2. ConnectionsVetted'
  BY DEF NetInv, ConnectionsVetted
<1> QED
  BY <1>1, <1>2 DEF NetInv

\* A request starts with a vetted place and no connection.
LEMMA FetchKeeps ==
    ASSUME NetInv, NEW in \in Endpoints, NEW p, NEW expired, NEW matches,
           ExecuteNetwork(in, p, expired, matches)
    PROVE  NetInv'
<1>1. CASE \E outcome : NetworkReturn(outcome)
  BY <1>1, ReturnKeeps
<1>2. CASE /\ NetworkFault(in) = "ok"
           /\ net' = [Returned("none") EXCEPT !.step = "lookup", !.input = in, !.url = in.url]
           /\ connections' = <<>>
  <2>1. net'.step = "lookup" /\ net'.url = in.url
    BY <1>2 DEF Returned
  <2>2. net' = [step |-> "lookup", input |-> in, url |-> in.url, addresses |-> <<>>,
                redirects |-> 0, got |-> 0, outcome |-> "none"]
    BY <1>2 DEF Returned
  <2>3. connections' \in Seq(Connections)
    BY <1>2
  <2>4. NetType'
    BY <2>2, <2>3 DEF NetType
  <2>5. PlaceVetted'
    BY <1>2, <2>1, RequestVetted DEF PlaceVetted, Urls, UrlVetted
  <2>6. AddressesVetted'
    BY <2>1 DEF AddressesVetted
  <2>7. ConnectionsVetted'
    BY <1>2 DEF ConnectionsVetted
  <2> QED
    BY <2>4, <2>5, <2>6, <2>7 DEF NetInv
<1> QED
  BY <1>1, <1>2 DEF ExecuteNetwork

\* Only addresses that pass the check are kept for the connection.
LEMMA LookupKeeps ==
    ASSUME NetInv, NEW answer \in Answers, Lookup(answer)
    PROVE  NetInv'
<1>1. CASE \E outcome : NetworkReturn(outcome)
  BY <1>1, ReturnKeeps
<1>2. CASE /\ ~ \E i \in DOMAIN answer : Refused(answer[i])
           /\ net' = [net EXCEPT !.step = "connect", !.addresses = answer]
           /\ connections' = connections
  <2>1. /\ net'.step = "connect" /\ net'.addresses = answer /\ net'.url = net.url
        /\ NetType'
    BY <1>2 DEF NetInv, NetType
  <2>2. net.step = "lookup"
    BY DEF Lookup
  <2>3. PlaceVetted'
    BY <2>1, <2>2 DEF NetInv, PlaceVetted, UrlVetted
  <2>4. AddressesVetted'
    BY <1>2, <2>1, NetworkAssumption DEF AddressesVetted, Refused
  <2>5. ConnectionsVetted'
    BY <1>2 DEF NetInv, ConnectionsVetted
  <2> QED
    BY <2>1, <2>3, <2>4, <2>5 DEF NetInv
<1> QED
  BY <1>1, <1>2 DEF Lookup

\* The client connects to one of the addresses that were kept.
LEMMA ConnectKeeps ==
    ASSUME NetInv, NEW answer, NEW i, Connect(answer, i)
    PROVE  NetInv'
<1> DEFINE c == [address |-> net.addresses[i], url |-> net.url]
<1>1. /\ net.step = "connect" /\ i \in DOMAIN net.addresses
      /\ connections' = Append(connections, c)
      /\ net' = [net EXCEPT !.step = "response"]
  BY DEF Connect
<1>2. /\ net.addresses[i] \in Address /\ ~ Refused(net.addresses[i])
      /\ net.url \in Urls /\ UrlVetted(net.url)
  BY <1>1 DEF NetInv, PlaceVetted, AddressesVetted
<1>3. c \in Connections /\ c.address = net.addresses[i] /\ c.url = net.url
  BY <1>2 DEF Connections
<1>4. connections \in Seq(Connections)
  BY DEF NetInv, NetType
<1>5. NetType'
  BY <1>1, <1>3, <1>4 DEF NetInv, NetType
<1>6. net'.step = "response"
  BY <1>1 DEF NetInv, NetType
<1>7. PlaceVetted' /\ AddressesVetted'
  BY <1>6 DEF PlaceVetted, AddressesVetted
<1>8. /\ Private(c.address) => AllowLoopback /\ IsLoopback(c.address)
      /\ c.url.host \notin MetadataHosts
      /\ c.url.scheme = "http" => AllowHttp
  BY <1>2, <1>3, NotRefusedNotPrivate DEF UrlVetted
<1>9. ConnectionsVetted'
  <2>1. SUFFICES ASSUME NEW k \in DOMAIN connections'
                 PROVE  /\ Private(connections'[k].address) =>
                              AllowLoopback /\ IsLoopback(connections'[k].address)
                        /\ connections'[k].url.host \notin MetadataHosts
                        /\ connections'[k].url.scheme = "http" => AllowHttp
    BY DEF ConnectionsVetted
  <2>2. \/ k \in DOMAIN connections /\ connections'[k] = connections[k]
        \/ connections'[k] = c
    BY <1>1, <1>3, <1>4
  <2> QED
    BY <1>8, <2>2 DEF NetInv, ConnectionsVetted
<1> QED
  BY <1>5, <1>7, <1>9 DEF NetInv

\* A redirect goes back to the look-up, with a vetted place.
LEMMA RedirectKeeps ==
    ASSUME NetInv, NEW loc \in Locations, Redirect(loc)
    PROVE  NetInv'
<1>1. CASE \E outcome : NetworkReturn(outcome)
  BY <1>1, ReturnKeeps
<1>2. CASE /\ RedirectFault(loc) = "ok"
           /\ net' = [net EXCEPT !.step = "lookup", !.url = ParseUrlParts(loc),
                                 !.redirects = @ + 1, !.addresses = <<>>]
           /\ connections' = connections
  <2>1. net'.step = "lookup" /\ net'.url = ParseUrlParts(loc) /\ NetType'
    BY <1>2 DEF NetInv, NetType
  <2>2. PlaceVetted'
    BY <1>2, <2>1, RedirectVetted DEF PlaceVetted, Urls, UrlVetted
  <2>3. AddressesVetted'
    BY <2>1 DEF AddressesVetted
  <2>4. ConnectionsVetted'
    BY <1>2 DEF NetInv, ConnectionsVetted
  <2> QED
    BY <2>1, <2>2, <2>3, <2>4 DEF NetInv
<1> QED
  BY <1>1, <1>2 DEF Redirect

\* A response that is no redirect.
LEMMA RespondKeeps ==
    ASSUME NetInv, Respond
    PROVE  NetInv'
<1>1. NetType' /\ connections' = connections /\ net'.step = "body"
  BY DEF Respond, NetInv, NetType
<1> QED
  BY <1>1, QuietKeeps

\* One chunk of the body.
LEMMA ReadBodyKeeps ==
    ASSUME NetInv, NEW n, ReadBody(n)
    PROVE  NetInv'
<1>1. CASE \E outcome : NetworkReturn(outcome)
  BY <1>1, ReturnKeeps
<1>2. CASE net' = [net EXCEPT !.got = @ + n] /\ connections' = connections
  <2>1. NetType' /\ net'.step = "body"
    BY <1>2 DEF ReadBody, NetInv, NetType
  <2> QED
    BY <1>2, <2>1, QuietKeeps
<1> QED
  BY <1>1, <1>2 DEF ReadBody

\* The invariant holds at the start and every step keeps it.
THEOREM NetworkInvariance == NetworkSpec => []NetInv
<1>1. NetworkInit => NetInv
  <2>1. SUFFICES ASSUME NetworkInit PROVE NetInv
    OBVIOUS
  <2>2. net.step = "returned" /\ NetType
    BY <2>1 DEF NetworkInit, Returned, NetType
  <2>3. PlaceVetted /\ AddressesVetted
    BY <2>2 DEF PlaceVetted, AddressesVetted
  <2>4. ConnectionsVetted
    BY <2>1 DEF NetworkInit, ConnectionsVetted
  <2> QED
    BY <2>2, <2>3, <2>4 DEF NetInv
<1>2. NetInv /\ [NetworkNext]_networkVars => NetInv'
  <2>1. SUFFICES ASSUME NetInv, [NetworkNext]_networkVars PROVE NetInv'
    OBVIOUS
  <2>2. CASE \E in \in Endpoints, p \in NetworkPermits, expired, matches \in BOOLEAN :
                ExecuteNetwork(in, p, expired, matches)
    BY <2>1, <2>2, FetchKeeps
  <2>3. CASE \E answer \in Answers : Lookup(answer)
    BY <2>1, <2>3, LookupKeeps
  <2>4. CASE \E answer \in Answers, i \in Places : Connect(answer, i)
    BY <2>1, <2>4, ConnectKeeps
  <2>5. CASE \E error \in TransportErrors : TransportFails(error)
    BY <2>1, <2>5, ReturnKeeps DEF TransportFails
  <2>6. CASE \E loc \in Locations : Redirect(loc)
    BY <2>1, <2>6, RedirectKeeps
  <2>7. CASE Respond
    BY <2>1, <2>7, RespondKeeps
  <2>8. CASE \E n \in BodyChunks : ReadBody(n)
    BY <2>1, <2>8, ReadBodyKeeps
  <2>9. CASE EndOfBody
    BY <2>1, <2>9, ReturnKeeps DEF EndOfBody
  <2>10. CASE UNCHANGED networkVars
    BY <2>1, <2>10 DEF networkVars, NetInv, NetType, PlaceVetted, AddressesVetted,
                       ConnectionsVetted, UrlVetted, Refused
  <2> QED
    BY <2>1, <2>2, <2>3, <2>4, <2>5, <2>6, <2>7, <2>8, <2>9, <2>10 DEF NetworkNext
<1> QED
  BY <1>1, <1>2, PTL DEF NetworkSpec

\* Whatever a name means when it is looked up and however the server
\* redirects, the client connects to no private address of version 4, plain
\* or mapped, to no metadata host and over no plain HTTP that is off
\* (ConnectionsVetted, for every address, resolver, server and limit).
THEOREM NoUnvettedConnection == NetworkSpec => []ConnectionsVetted
<1>1. NetInv => ConnectionsVetted
  BY DEF NetInv
<1> QED
  BY <1>1, NetworkInvariance, PTL
=============================================================================
