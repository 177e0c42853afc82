--------------------------- MODULE SingleTreeProofs ---------------------------
(* The directory tree of the single-file daemon, for every set of names and    *)
(* every depth: readdir and getattr agree, and no file is lost by what happens  *)
(* to another.                                                                  *)
EXTENDS SingleTree, Integers, TLAPS

-----------------------------------------------------------------------------
(* Paths *)

LEMMA PathSeq ==
  ASSUME NEW x \in Paths
  PROVE  x \in Seq(Names) /\ Len(x) \in 1 .. MaxDepth /\ Len(x) \in Nat /\ x # Root
<1>1. MaxDepth \in Nat
  BY DepthAssumption
<1>2. PICK n \in 1 .. MaxDepth : x \in [1 .. n -> Names]
  BY DEF Paths
<1>3. x \in Seq(Names) /\ Len(x) = n
  BY <1>1, <1>2
<1>4. x # <<>>
  BY <1>2, <1>3
<1>5. QED
  BY <1>1, <1>2, <1>3, <1>4 DEF Root

LEMMA DirSeq ==
  ASSUME NEW d \in Paths \cup {Root}
  PROVE  d \in Seq(Names) /\ Len(d) \in Nat
<1>1. CASE d = Root
  BY <1>1 DEF Root
<1>2. QED
  BY <1>1, PathSeq

LEMMA PathElement ==
  ASSUME NEW x \in Seq(Names), Len(x) \in 1 .. MaxDepth
  PROVE  x \in Paths
<1>1. x \in [1 .. Len(x) -> Names]
  OBVIOUS
<1>2. QED
  BY <1>1 DEF Paths

LEMMA SameSeq ==
  ASSUME NEW s \in Seq(Names), NEW t \in Seq(Names), Len(s) = Len(t),
         \A i \in 1 .. Len(s) : s[i] = t[i]
  PROVE  s = t
OBVIOUS

\* s starts t, name by name.
Starts(s, t) == Len(s) <= Len(t) /\ \A i \in 1 .. Len(s) : s[i] = t[i]

LEMMA Prefix ==
  ASSUME NEW s \in Seq(Names), NEW t \in Seq(Names)
  PROVE  IsPrefix(s, t) <=> Starts(s, t)
<1>1. ASSUME Len(s) <= Len(t) PROVE SubSeq(s, 1, Len(s)) = SubSeq(t, 1, Len(s)) <=> Starts(s, t)
  <2>1. SubSeq(s, 1, Len(s)) = s
    OBVIOUS
  <2>2. PICK n \in Nat : n = Len(s) /\ n <= Len(t)
    BY <1>1
  <2>3. PICK u : u = SubSeq(t, 1, n)
    OBVIOUS
  <2>4. u \in Seq(Names) /\ Len(u) = n /\ \A i \in 1 .. n : u[i] = t[i]
    BY <2>2, <2>3
  <2>5. s = u <=> Starts(s, t)
    BY <2>2, <2>4, SameSeq DEF Starts
  <2>6. QED
    BY <2>1, <2>2, <2>3, <2>5
<1>2. QED
  BY <1>1 DEF IsPrefix, Starts

LEMMA StrictPrefix ==
  ASSUME NEW s \in Seq(Names), NEW t \in Seq(Names)
  PROVE  IsStrictPrefix(s, t) <=> Starts(s, t) /\ Len(s) < Len(t)
<1>1. Starts(s, t) /\ Len(s) = Len(t) => s = t
  BY SameSeq DEF Starts
<1>2. s = t => Len(s) = Len(t)
  OBVIOUS
<1>3. Starts(s, t) => Len(s) <= Len(t)
  BY DEF Starts
<1>4. QED
  BY <1>1, <1>2, <1>3, Prefix DEF IsStrictPrefix

\* The directory of a path.
LEMMA FrontFacts ==
  ASSUME NEW x \in Paths
  PROVE  /\ Front(x) \in Seq(Names) /\ Len(Front(x)) = Len(x) - 1
         /\ \A i \in 1 .. Len(x) - 1 : Front(x)[i] = x[i]
         /\ Front(x) = Root \/ Front(x) \in Paths
<1>1. x \in Seq(Names) /\ Len(x) \in 1 .. MaxDepth /\ MaxDepth \in Nat
  BY PathSeq, DepthAssumption
<1>2. PICK n \in Nat : n = Len(x) - 1
  BY <1>1
<1>3. PICK u : u = SubSeq(x, 1, n)
  OBVIOUS
<1>4. u \in Seq(Names) /\ Len(u) = n /\ \A i \in 1 .. n : u[i] = x[i]
  BY <1>1, <1>2, <1>3
<1>5. u = Root \/ u \in Paths
  <2>1. CASE n = 0
    BY <1>4, <2>1 DEF Root
  <2>2. CASE n # 0
    BY <1>1, <1>2, <1>4, <2>2, PathElement
  <2>3. QED
    BY <2>1, <2>2
<1>6. QED
  BY <1>2, <1>3, <1>4, <1>5 DEF Front

\* What is above a path is its directory or above that.
LEMMA AboveFront ==
  ASSUME NEW x \in Paths, NEW y \in Paths, IsStrictPrefix(y, x)
  PROVE  Front(x) \in Paths /\ (y = Front(x) \/ IsStrictPrefix(y, Front(x)))
<1>1. x \in Seq(Names) /\ y \in Seq(Names) /\ Len(x) \in Nat /\ Len(y) \in Nat /\ Len(y) > 0
  BY PathSeq
<1>2. Starts(y, x) /\ Len(y) < Len(x)
  BY <1>1, StrictPrefix
<1>3. Front(x) \in Seq(Names) /\ Starts(y, Front(x)) /\ Len(Front(x)) > 0
  BY <1>1, <1>2, FrontFacts DEF Starts
<1>4. Front(x) \in Paths
  BY <1>3, FrontFacts DEF Root
<1>5. Len(y) = Len(Front(x)) => y = Front(x)
  BY <1>1, <1>3, SameSeq DEF Starts
<1>6. Len(y) <= Len(Front(x))
  BY <1>3 DEF Starts
<1>7. QED
  BY <1>1, <1>3, <1>4, <1>5, <1>6, StrictPrefix

LEMMA FrontAbove ==
  ASSUME NEW x \in Paths, Front(x) # Root
  PROVE  Front(x) \in Paths /\ IsStrictPrefix(Front(x), x)
BY PathSeq, FrontFacts, StrictPrefix DEF Starts

\* Two paths that start a third: one starts the other.
LEMMA Comparable ==
  ASSUME NEW a \in Paths, NEW b \in Paths, NEW x \in Paths, IsPrefix(a, x), IsPrefix(b, x)
  PROVE  IsPrefix(a, b) \/ IsStrictPrefix(b, a)
<1>1. /\ a \in Seq(Names) /\ b \in Seq(Names) /\ x \in Seq(Names)
      /\ Len(a) \in Nat /\ Len(b) \in Nat /\ Len(x) \in Nat
  BY PathSeq
<1>2. Starts(a, x) /\ Starts(b, x)
  BY <1>1, Prefix
<1>3. CASE Len(a) <= Len(b)
  <2>1. Starts(a, b)
    BY <1>1, <1>2, <1>3 DEF Starts
  <2>2. QED
    BY <1>1, <2>1, Prefix
<1>4. CASE Len(b) < Len(a)
  <2>1. Starts(b, a)
    BY <1>1, <1>2, <1>4 DEF Starts
  <2>2. QED
    BY <1>1, <1>4, <2>1, StrictPrefix
<1>5. QED
  BY <1>1, <1>3, <1>4

LEMMA PrefixTrans ==
  ASSUME NEW a \in Paths, NEW b \in Paths, NEW c \in Paths, IsPrefix(a, b), IsPrefix(b, c)
  PROVE  IsPrefix(a, c) /\ (IsStrictPrefix(b, c) => IsStrictPrefix(a, c))
<1>1. /\ a \in Seq(Names) /\ b \in Seq(Names) /\ c \in Seq(Names)
      /\ Len(a) \in Nat /\ Len(b) \in Nat /\ Len(c) \in Nat
  BY PathSeq
<1>2. Starts(a, b) /\ Starts(b, c)
  BY <1>1, Prefix
<1>3. Starts(a, c)
  BY <1>1, <1>2 DEF Starts
<1>4. Len(a) <= Len(b)
  BY <1>2 DEF Starts
<1>5. QED
  BY <1>1, <1>3, <1>4, Prefix, StrictPrefix

LEMMA PrefixSelf ==
  ASSUME NEW a \in Paths
  PROVE  IsPrefix(a, a) /\ ~IsStrictPrefix(a, a)
BY PathSeq, Prefix DEF Starts, IsStrictPrefix

LEMMA Concatenation ==
  ASSUME NEW S, NEW x \in Seq(S), NEW y \in Seq(S)
  PROVE  /\ x \o y \in Seq(S) /\ Len(x \o y) = Len(x) + Len(y)
         /\ \A i \in 1 .. Len(x) + Len(y) : (x \o y)[i] = IF i <= Len(x) THEN x[i] ELSE y[i - Len(x)]
OBVIOUS

\* Where x, which is p or below it, is when p is called q.
Placed(m, x, p, q) ==
  /\ m \in Seq(Names) /\ Len(m) = Len(q) + (Len(x) - Len(p))
  /\ \A i \in 1 .. Len(m) : m[i] = IF i <= Len(q) THEN q[i] ELSE x[Len(p) + (i - Len(q))]

LEMMA MovedFacts ==
  ASSUME NEW x \in Paths, NEW p \in Paths, NEW q \in Paths, IsPrefix(p, x)
  PROVE  Placed(Moved(x, p, q), x, p, q)
<1>1. /\ x \in Seq(Names) /\ p \in Seq(Names) /\ q \in Seq(Names)
      /\ Len(x) \in Nat /\ Len(p) \in Nat /\ Len(q) \in Nat
  BY PathSeq
<1>2. Len(p) <= Len(x)
  BY <1>1, Prefix DEF Starts
<1>3. PICK u : u = SubSeq(x, Len(p) + 1, Len(x))
  OBVIOUS
<1>4. u \in Seq(Names) /\ Len(u) = Len(x) - Len(p) /\ \A i \in 1 .. Len(u) : u[i] = x[Len(p) + i]
  BY <1>1, <1>2, <1>3
<1>5. Moved(x, p, q) = q \o u
  BY <1>3 DEF Moved
<1>6. PICK m : m = q \o u
  OBVIOUS
<1>7. /\ m \in Seq(Names) /\ Len(m) = Len(q) + Len(u)
      /\ \A i \in 1 .. Len(q) + Len(u) : m[i] = IF i <= Len(q) THEN q[i] ELSE u[i - Len(q)]
  BY <1>1, <1>4, <1>6, Concatenation
<1>8. ASSUME NEW i \in 1 .. Len(m)
      PROVE  m[i] = IF i <= Len(q) THEN q[i] ELSE x[Len(p) + (i - Len(q))]
  <2>1. i > Len(q) => i - Len(q) \in 1 .. Len(u)
    BY <1>1, <1>2, <1>4, <1>7
  <2>2. m[i] = IF i <= Len(q) THEN q[i] ELSE u[i - Len(q)]
    BY <1>7
  <2>3. CASE i <= Len(q)
    BY <2>2, <2>3
  <2>4. CASE ~(i <= Len(q))
    <3>1. PICK k \in 1 .. Len(u) : k = i - Len(q)
      BY <1>1, <1>7, <2>1, <2>4
    <3>2. u[k] = x[Len(p) + k]
      BY <1>4, <3>1
    <3>3. QED
      BY <2>2, <2>4, <3>1, <3>2
  <2>5. QED
    BY <2>3, <2>4
<1>9. QED
  BY <1>4, <1>5, <1>6, <1>7, <1>8 DEF Placed

\* What is below p moves with what is above it.
LEMMA MovedAbove ==
  ASSUME NEW x \in Paths, NEW y \in Paths, NEW p \in Paths, NEW q \in Paths,
         IsPrefix(p, y), IsStrictPrefix(y, x), Moved(x, p, q) \in Paths
  PROVE  Moved(y, p, q) \in Paths /\ IsStrictPrefix(Moved(y, p, q), Moved(x, p, q))
<1>1. /\ x \in Seq(Names) /\ y \in Seq(Names) /\ p \in Seq(Names) /\ q \in Seq(Names)
      /\ Len(x) \in Nat /\ Len(y) \in Nat /\ Len(p) \in Nat /\ Len(q) \in Nat /\ Len(q) > 0
  BY PathSeq
<1>2. IsPrefix(p, x) /\ Starts(y, x) /\ Len(y) < Len(x) /\ Len(p) <= Len(y)
  BY <1>1, PrefixTrans, StrictPrefix, Prefix DEF IsStrictPrefix, Starts
<1>3. PICK mx : mx = Moved(x, p, q)
  OBVIOUS
<1>4. PICK my : my = Moved(y, p, q)
  OBVIOUS
<1>5. mx \in Paths /\ Placed(mx, x, p, q) /\ Placed(my, y, p, q)
  BY <1>2, <1>3, <1>4, MovedFacts
<1>6. /\ mx \in Seq(Names) /\ Len(mx) = Len(q) + (Len(x) - Len(p))
      /\ my \in Seq(Names) /\ Len(my) = Len(q) + (Len(y) - Len(p))
  BY <1>5 DEF Placed
<1>7. Len(my) < Len(mx) /\ Len(my) > 0
  BY <1>1, <1>2, <1>6
<1>8. ASSUME NEW i \in 1 .. Len(my) PROVE my[i] = mx[i]
  <2>0. i \in 1 .. Len(mx)
    BY <1>1, <1>6, <1>7
  <2>1. CASE i <= Len(q)
    BY <1>5, <2>0, <2>1 DEF Placed
  <2>2. CASE i > Len(q)
    <3>1. PICK k : k = Len(p) + (i - Len(q)) /\ k \in 1 .. Len(y)
      BY <1>1, <1>2, <1>6, <2>2
    <3>2. my[i] = y[k] /\ mx[i] = x[k]
      BY <1>1, <1>5, <2>0, <2>2, <3>1 DEF Placed
    <3>3. QED
      BY <1>2, <3>1, <3>2 DEF Starts
  <2>3. QED
    BY <1>1, <1>6, <2>1, <2>2
<1>9. Starts(my, mx)
  BY <1>7, <1>8 DEF Starts
<1>10. my \in Paths
  <2>1. Len(mx) \in 1 .. MaxDepth
    BY <1>5, PathSeq
  <2>2. QED
    BY <1>6, <1>7, <2>1, DepthAssumption, PathElement
<1>11. QED
  BY <1>3, <1>4, <1>5, <1>6, <1>7, <1>9, <1>10, StrictPrefix

-----------------------------------------------------------------------------
(* The inductive invariant *)

Types == /\ real \in [Paths -> {"none", "dir", "other"}]
         /\ meta \subseteq Paths
         /\ open \in [path : Paths, node : Paths \cup {Root}] \cup {NoHandle}

\* What the backing directory has, it has in directories.
DirsAbove(r) ==
  \A x \in Paths, y \in Paths : r[x] # "none" /\ IsStrictPrefix(y, x) => r[y] = "dir"

TreeInv == Types /\ meta = index /\ DirsAbove(real)

\* A name that is looked up is in a directory.
LEMMA LookedUp ==
  ASSUME Types, DirsAbove(real), NEW p \in Paths, NEW kinds, Lookup(p, kinds)
  PROVE  /\ IsDir(Front(p)) /\ Getattr(p) \in kinds
         /\ \A y \in Paths : IsStrictPrefix(y, p) => real[y] = "dir"
<1>1. IsDir(Front(p)) /\ Getattr(p) \in kinds
  BY DEF Lookup, Getattr, IsDir
<1>2. ASSUME NEW y \in Paths, IsStrictPrefix(y, p) PROVE real[y] = "dir"
  <2>1. Front(p) \in Paths /\ (y = Front(p) \/ IsStrictPrefix(y, Front(p)))
    BY <1>2, AboveFront
  <2>2. real[Front(p)] = "dir"
    BY <1>1, <2>1, PathSeq DEF IsDir
  <2>3. QED
    BY <2>1, <2>2 DEF DirsAbove
<1>3. QED
  BY <1>1, <1>2

\* What getattr says of a path, in terms of the three places.
LEMMA Kinds ==
  ASSUME Types, NEW p \in Paths
  PROVE  /\ Getattr(p) = "dir" <=> real[p] = "dir"
         /\ Getattr(p) = "file" <=> real[p] # "dir" /\ p \in meta
         /\ Getattr(p) = "none" <=> real[p] = "none" /\ p \notin meta
         /\ Getattr(p) = "other" <=> real[p] = "other" /\ p \notin meta
<1>1. p # Root /\ real[p] \in {"none", "dir", "other"}
  BY PathSeq DEF Types
<1>2. QED
  BY <1>1 DEF Getattr, IsDir, Stored, FileId

\* mkdir, mknod, symlink and link
LEMMA MakeDirs ==
  ASSUME TreeInv, NEW p \in Paths, NEW kind \in {"dir", "other"}, Make(p, kind)
  PROVE  TreeInv'
<1>1. /\ real' = [real EXCEPT ![p] = kind] /\ UNCHANGED <<meta, index, open>> /\ Types
      /\ DirsAbove(real) /\ real[p] = "none"
      /\ \A y \in Paths : IsStrictPrefix(y, p) => real[y] = "dir"
  BY LookedUp, Kinds DEF Make, TreeInv
<1>2. Types'
  BY <1>1 DEF Types
<1>3. DirsAbove(real')
  <2>1. SUFFICES ASSUME NEW x \in Paths, NEW y \in Paths, real'[x] # "none", IsStrictPrefix(y, x)
                 PROVE  real'[y] = "dir"
    BY DEF DirsAbove
  <2>2. CASE x = p
    BY <1>1, <2>1, <2>2, PrefixSelf DEF Types
  <2>3. CASE x # p
    <3>1. real[x] # "none"
      BY <1>1, <2>1, <2>3 DEF Types
    <3>2. real[y] = "dir"
      BY <1>1, <2>1, <3>1 DEF DirsAbove
    <3>3. QED
      BY <1>1, <3>2 DEF Types
  <2>4. QED
    BY <2>2, <2>3
<1>4. QED
  BY <1>1, <1>2, <1>3 DEF TreeInv

\* What has nothing below it may go.
LEMMA Goes ==
  ASSUME Types, DirsAbove(real), NEW p \in Paths, real' = [real EXCEPT ![p] = "none"],
         \A x \in Below(p) : real[x] = "none"
  PROVE  DirsAbove(real') /\ real' \in [Paths -> {"none", "dir", "other"}]
<1>1. real' \in [Paths -> {"none", "dir", "other"}]
  BY DEF Types
<1>2. SUFFICES ASSUME NEW x \in Paths, NEW y \in Paths, real'[x] # "none", IsStrictPrefix(y, x)
               PROVE  real'[y] = "dir"
  BY <1>1 DEF DirsAbove
<1>3. real[x] # "none"
  BY <1>2 DEF Types
<1>4. real[y] = "dir" /\ y # p
  BY <1>2, <1>3 DEF DirsAbove, Below
<1>5. QED
  BY <1>4 DEF Types

\* What is not a directory has nothing below it.
LEMMA NothingBelow ==
  ASSUME DirsAbove(real), NEW p \in Paths, real[p] # "dir"
  PROVE  \A x \in Below(p) : real[x] = "none"
BY DEF DirsAbove, Below

LEMMA UnlinkTree ==
  ASSUME TreeInv, NEW p \in Paths, Unlink(p)
  PROVE  TreeInv'
<1>1. Types /\ DirsAbove(real) /\ meta = index /\ Getattr(p) \in {"file", "other"} /\ UNCHANGED open
  BY LookedUp DEF Unlink, TreeInv
<1>2. real[p] # "dir"
  BY <1>1, Kinds
<1>3. CASE Forget(p) /\ UNCHANGED real
  BY <1>1, <1>3 DEF Forget, FileId, TreeInv, Types
<1>4. CASE real' = [real EXCEPT ![p] = "none"] /\ UNCHANGED <<meta, index>>
  BY <1>1, <1>2, <1>4, NothingBelow, Goes DEF TreeInv, Types
<1>5. QED
  BY <1>3, <1>4 DEF Unlink

LEMMA RmdirTree ==
  ASSUME TreeInv, NEW p \in Paths, Rmdir(p)
  PROVE  TreeInv'
<1>1. /\ Types /\ DirsAbove(real) /\ meta = index /\ UNCHANGED <<meta, index>>
      /\ real' = [real EXCEPT ![p] = "none"] /\ \A x \in Below(p) : real[x] = "none"
      /\ open' = IF InOpen(p) THEN [open EXCEPT !.node = Root] ELSE open
  BY DEF Rmdir, TreeInv
<1>2. open' \in [path : Paths, node : Paths \cup {Root}] \cup {NoHandle}
  BY <1>1 DEF Types, InOpen
<1>3. DirsAbove(real') /\ real' \in [Paths -> {"none", "dir", "other"}]
  BY <1>1, Goes
<1>4. QED
  BY <1>1, <1>2, <1>3 DEF TreeInv, Types

\* create, open and release
LEMMA HandleTree ==
  ASSUME TreeInv
  PROVE  /\ \A p \in Paths : Create(p) \/ Open(p) => TreeInv'
         /\ Release => TreeInv'
<1>1. Types /\ DirsAbove(real) /\ meta = index
  BY DEF TreeInv
<1>2. ASSUME NEW p \in Paths, Create(p) PROVE TreeInv'
  BY <1>1, <1>2 DEF Create, Persist, FileId, TreeInv, Types
<1>3. ASSUME NEW p \in Paths, Open(p) PROVE TreeInv'
  BY <1>1, <1>3 DEF Open, tree, TreeInv, Types
<1>4. ASSUME Release PROVE TreeInv'
  BY <1>1, <1>4 DEF Release, Persist, FileId, TreeInv, Types
<1>5. QED
  BY <1>2, <1>3, <1>4

\* rename(2) in the backing directory takes what is below along, and nothing is
\* left where the new name was.
LEMMA RenamedDirs ==
  ASSUME Types, DirsAbove(real), NEW p \in Paths, NEW q \in Paths, RenameReal(p, q),
         ~IsPrefix(p, q), ~IsPrefix(q, p),
         real[p] # "dir" => real[q] # "dir",
         \A y \in Paths : IsStrictPrefix(y, q) => real[y] = "dir"
  PROVE  DirsAbove(real') /\ real' \in [Paths -> {"none", "dir", "other"}]
<1>1. real \in [Paths -> {"none", "dir", "other"}]
  BY DEF Types
<1>2. \A x \in Paths :
        real'[x] = IF IsPrefix(q, x) /\ Moved(x, q, p) \in Paths THEN real[Moved(x, q, p)]
                   ELSE IF IsPrefix(p, x) THEN "none" ELSE real[x]
  BY DEF RenameReal
<1>3. real' \in [Paths -> {"none", "dir", "other"}]
  BY <1>1 DEF RenameReal
<1>4. \A x \in Below(q) : real[x] = "none"
  BY NothingBelow DEF RenameReal
<1>5. SUFFICES ASSUME NEW x \in Paths, NEW y \in Paths, real'[x] # "none", IsStrictPrefix(y, x)
               PROVE  real'[y] = "dir"
  BY <1>3 DEF DirsAbove
<1>6. IsPrefix(y, x)
  BY <1>5 DEF IsStrictPrefix
<1>7. ~IsPrefix(p, y) /\ ~IsPrefix(q, y) => real'[y] = real[y]
  BY <1>2
<1>8. CASE IsPrefix(q, x) /\ Moved(x, q, p) \in Paths
  <2>1. CASE IsPrefix(q, y)
    <3>1. Moved(y, q, p) \in Paths /\ IsStrictPrefix(Moved(y, q, p), Moved(x, q, p))
      BY <1>5, <1>8, <2>1, MovedAbove
    <3>2. real[Moved(x, q, p)] # "none"
      BY <1>2, <1>5, <1>8
    <3>3. real[Moved(y, q, p)] = "dir"
      BY <1>8, <3>1, <3>2 DEF DirsAbove
    <3>4. QED
      BY <1>2, <2>1, <3>1, <3>3
  <2>2. CASE ~IsPrefix(q, y)
    <3>1. IsStrictPrefix(y, q)
      BY <1>6, <1>8, <2>2, Comparable
    <3>2. ~IsPrefix(p, y)
      BY <3>1, PrefixTrans DEF IsStrictPrefix
    <3>3. QED
      BY <1>7, <2>2, <3>1, <3>2
  <2>3. QED
    BY <2>1, <2>2
<1>9. CASE ~(IsPrefix(q, x) /\ Moved(x, q, p) \in Paths)
  <2>1. ~IsPrefix(p, x) /\ real[x] # "none"
    BY <1>2, <1>5, <1>9
  <2>2. real[y] = "dir"
    BY <1>5, <2>1 DEF DirsAbove
  <2>3. ~IsPrefix(p, y)
    BY <1>6, <2>1, PrefixTrans
  <2>4. ~IsPrefix(q, y)
    <3>1. IsPrefix(q, y) => IsStrictPrefix(q, x)
      BY <1>5, <1>6, PrefixTrans
    <3>2. QED
      BY <1>4, <2>1, <3>1 DEF Below
  <2>5. QED
    BY <1>7, <2>2, <2>3, <2>4
<1>10. QED
  BY <1>8, <1>9

LEMMA RenameTree ==
  ASSUME TreeInv, NEW p \in Paths, NEW q \in Paths, Rename(p, q)
  PROVE  TreeInv'
<1>1. Types /\ DirsAbove(real) /\ meta = index
  BY DEF TreeInv
<1>2. open' \in [path : Paths, node : Paths \cup {Root}] \cup {NoHandle}
  <2>1. open' = IF InOpen(p) /\ Moved(open.node, p, q) \in Paths
                THEN [open EXCEPT !.node = Moved(open.node, p, q)]
                ELSE IF InOpen(p) \/ InOpen(q) THEN [open EXCEPT !.node = Root] ELSE open
    BY DEF Rename
  <2>2. QED
    BY <1>1, <2>1 DEF Types, InOpen
<1>3. CASE RenameLogical(p, q)
  BY <1>1, <1>2, <1>3 DEF RenameLogical, FileId, TreeInv, Types
<1>4. CASE RenameReal(p, q) /\ ~Stored(p)
  <2>1. /\ Lookup(q, IF Getattr(p) = "dir" THEN {"none", "dir"} ELSE {"none", "file", "other"})
        /\ ~IsPrefix(p, q) /\ ~IsPrefix(q, p)
    BY DEF Rename
  <2>2. \A y \in Paths : IsStrictPrefix(y, q) => real[y] = "dir"
    BY <1>1, <2>1, LookedUp
  <2>3. real[p] # "dir" => real[q] # "dir"
    <3>1. Getattr(p) # "dir" => Getattr(q) \in {"none", "file", "other"}
      BY <2>1 DEF Lookup
    <3>2. QED
      BY <1>1, <3>1, Kinds
  <2>4. DirsAbove(real') /\ real' \in [Paths -> {"none", "dir", "other"}]
    BY <1>1, <1>4, <2>1, <2>2, <2>3, RenamedDirs
  <2>5. UNCHANGED <<meta, index>>
    BY <1>4 DEF RenameReal
  <2>6. QED
    BY <1>1, <1>2, <2>4, <2>5 DEF TreeInv, Types
<1>5. QED
  BY <1>3, <1>4 DEF Rename

LEMMA TreeInit ==
  ASSUME Init
  PROVE  TreeInv
BY DEF Init, TreeInv, Types, DirsAbove

LEMMA TreeNext ==
  ASSUME TreeInv, [Next]_vars
  PROVE  TreeInv'
<1>1. ASSUME NEW p \in Paths, Mkdir(p) \/ Mknod(p) \/ Symlink(p) PROVE TreeInv'
  BY <1>1, MakeDirs DEF Mkdir, Mknod, Symlink
<1>2. ASSUME NEW p \in Paths, NEW q \in Paths, Link(p, q) PROVE TreeInv'
  BY <1>2, MakeDirs DEF Link
<1>3. ASSUME UNCHANGED vars PROVE TreeInv'
  BY <1>3 DEF vars, TreeInv, Types, DirsAbove
<1>4. QED
  BY <1>1, <1>2, <1>3, HandleTree, UnlinkTree, RmdirTree, RenameTree DEF Next

\* Every logical file has its metadata and its line in index.txt together, and what
\* the backing directory has is in directories.
THEOREM TreeInvariant == Spec => []TreeInv
<1>1. Init => TreeInv
  BY TreeInit
<1>2. TreeInv /\ [Next]_vars => TreeInv'
  BY TreeNext
<1>3. QED
  BY <1>1, <1>2, PTL DEF Spec

\* The backing tree of passthrough_cfs stays a tree through mkdir, mknod, symlink, link,
\* unlink, rmdir and rename, and the three places keep their types.
THEOREM TreeTypes == Spec => []TypeOK
<1>1. ASSUME TreeInv PROVE TypeOK
  <2>1. ASSUME NEW p \in Paths, real[p] # "none" PROVE IsDir(Front(p))
    BY <1>1, <2>1, FrontAbove DEF TreeInv, DirsAbove, IsDir
  <2>2. QED
    BY <1>1, <2>1 DEF TreeInv, Types, TypeOK
<1>2. QED
  BY <1>1, TreeInvariant, PTL

-----------------------------------------------------------------------------
(* What readdir lists *)

LEMMA NameBelow ==
  ASSUME NEW d \in Paths \cup {Root}, Len(d) < MaxDepth, NEW n \in Names
  PROVE  /\ Append(d, n) \in Paths /\ d \in Seq(Names) /\ Len(d) \in Nat
         /\ Append(d, n) \in Below(d)
         /\ \A x \in Paths : IsPrefix(Append(d, n), x) => x \in Below(d) /\ x[Len(d) + 1] = n
<1>1. d \in Seq(Names) /\ Len(d) \in Nat /\ MaxDepth \in Nat
  BY DirSeq, DepthAssumption
<1>2. PICK p : p = Append(d, n)
  OBVIOUS
<1>3. p \in Seq(Names) /\ Len(p) = Len(d) + 1 /\ p[Len(d) + 1] = n /\ \A i \in 1 .. Len(d) : p[i] = d[i]
  BY <1>1, <1>2
<1>4. p \in Paths
  BY <1>1, <1>3, PathElement
<1>5. ASSUME NEW x \in Paths, IsPrefix(p, x) PROVE x \in Below(d) /\ x[Len(d) + 1] = n
  <2>1. x \in Seq(Names) /\ Starts(p, x) /\ Len(x) \in Nat
    BY <1>3, <1>5, PathSeq, Prefix
  <2>2. Starts(d, x) /\ Len(d) < Len(x) /\ x[Len(d) + 1] = n
    BY <1>1, <1>3, <2>1 DEF Starts
  <2>3. QED
    BY <1>1, <2>1, <2>2, StrictPrefix DEF Below
<1>6. p \in Below(d)
  BY <1>4, <1>5, PrefixSelf
<1>7. QED
  BY <1>1, <1>2, <1>4, <1>5, <1>6

\* A path below d starts with a name in d.
LEMMA BelowName ==
  ASSUME NEW d \in Paths \cup {Root}, NEW x \in Below(d)
  PROVE  /\ x \in Paths /\ x[Len(d) + 1] \in Names /\ Len(d) < MaxDepth
         /\ Append(d, x[Len(d) + 1]) = x \/ x \in Below(Append(d, x[Len(d) + 1]))
<1>1. /\ d \in Seq(Names) /\ Len(d) \in Nat /\ x \in Paths /\ x \in Seq(Names) /\ Len(x) \in Nat
      /\ Len(x) <= MaxDepth /\ MaxDepth \in Nat /\ IsStrictPrefix(d, x)
  <2>1. x \in Paths /\ IsStrictPrefix(d, x)
    BY DEF Below
  <2>2. QED
    BY <2>1, PathSeq, DirSeq, DepthAssumption
<1>2. Starts(d, x) /\ Len(d) < Len(x)
  BY <1>1, StrictPrefix
<1>3. PICK n \in Names : n = x[Len(d) + 1]
  BY <1>1, <1>2
<1>4. PICK p : p = Append(d, n)
  OBVIOUS
<1>5. p \in Seq(Names) /\ Len(p) = Len(d) + 1 /\ \A i \in 1 .. Len(p) : p[i] = IF i <= Len(d) THEN d[i] ELSE n
  BY <1>1, <1>4
<1>6. Starts(p, x)
  BY <1>1, <1>2, <1>3, <1>5 DEF Starts
<1>7. p = x \/ x \in Below(p)
  BY <1>1, <1>5, <1>6, Prefix DEF Below, IsStrictPrefix
<1>8. QED
  BY <1>1, <1>2, <1>3, <1>4, <1>7

\* readdir of passthrough_cfs, which reads index.txt and the backing directory,
\* lists exactly what its getattr, which reads the metadata and the backing directory,
\* finds, and besides only directories that are gone and have left files behind.
THEOREM ListsWhatIsThere == Spec => []ListingExact
<1>1. ASSUME TreeInv PROVE ListingExact
  <2>1. Types /\ meta = index /\ DirsAbove(real)
    BY <1>1 DEF TreeInv
  <2>2. SUFFICES ASSUME NEW d \in Paths \cup {Root}, IsDir(d), Len(d) < MaxDepth
                 PROVE  Readdir(d) = {n \in Names : Getattr(Append(d, n)) # "none" \/ Left(Append(d, n)) # {}}
    BY DEF ListingExact
  <2>3. \A x \in Paths : Stored(x) <=> x \in index
    BY <2>1 DEF Stored, FileId
  <2>4. ASSUME NEW n \in Readdir(d)
        PROVE  n \in Names /\ (Getattr(Append(d, n)) # "none" \/ Left(Append(d, n)) # {})
    <3>1. PICK x \in Below(d) : n = x[Len(d) + 1] /\ (real[x] # "none" \/ x \in index)
      BY <2>4 DEF Readdir
    <3>2. x \in Paths /\ n \in Names
      BY <3>1, BelowName
    <3>3. PICK p \in Paths : p = Append(d, n)
      BY <2>2, <3>2, NameBelow
    <3>4. p = x \/ x \in Below(p)
      BY <3>1, <3>3, BelowName
    <3>5. CASE p = x
      BY <2>1, <3>1, <3>2, <3>3, <3>5, Kinds
    <3>6. CASE x \in Below(p) /\ real[x] # "none"
      <4>1. real[p] = "dir"
        BY <2>1, <3>2, <3>6 DEF Below, DirsAbove
      <4>2. QED
        BY <2>1, <3>2, <3>3, <4>1, Kinds
    <3>7. CASE x \in Below(p) /\ x \in index
      BY <2>3, <3>2, <3>3, <3>7 DEF Left
    <3>8. QED
      BY <3>1, <3>4, <3>5, <3>6, <3>7
  <2>5. ASSUME NEW n \in Names, Getattr(Append(d, n)) # "none" \/ Left(Append(d, n)) # {}
        PROVE  n \in Readdir(d)
    <3>1. PICK p \in Paths : p = Append(d, n)
      BY <2>2, NameBelow
    <3>2. CASE Getattr(p) # "none"
      <4>1. real[p] # "none" \/ p \in index
        BY <2>1, <3>2, Kinds
      <4>2. p \in Below(d) /\ p[Len(d) + 1] = n
        BY <2>2, <3>1, NameBelow, PrefixSelf
      <4>3. QED
        BY <4>1, <4>2 DEF Readdir
    <3>3. CASE Left(p) # {}
      <4>1. PICK x \in Paths : IsPrefix(p, x) /\ x \in index
        BY <2>3, <3>3 DEF Left, Below, IsStrictPrefix
      <4>2. x \in Below(d) /\ x[Len(d) + 1] = n
        BY <2>2, <3>1, <4>1, NameBelow
      <4>3. QED
        BY <4>1, <4>2 DEF Readdir
    <3>4. QED
      BY <2>5, <3>1, <3>2, <3>3
  <2>6. QED
    BY <2>4, <2>5
<1>2. QED
  BY <1>1, TreeInvariant, PTL

-----------------------------------------------------------------------------
(* What happens to other files *)

\* A logical file is lost with its directory, under a new directory of its name, or
\* with its metadata.
LEMMA LostHow ==
  ASSUME Types, NEW x \in Paths, Reachable(x), ~Reachable(x)'
  PROVE  ~IsDir(Front(x))' \/ (IsDir(x)' /\ ~IsDir(x)) \/ (x \in meta /\ x \notin meta')
<1>1. real[x] \in {"none", "dir", "other"}
  BY DEF Types
<1>2. ~IsDir(x) /\ Stored(x)
  BY <1>1 DEF Reachable, Lookup, Getattr
<1>3. IsDir(Front(x))' /\ ~IsDir(x)' /\ Stored(x)' => Reachable(x)'
  BY DEF Reachable, Lookup, Getattr
<1>4. QED
  BY <1>2, <1>3 DEF Stored, FileId

\* Only unlink and the rename of a logical file take metadata away, of one path whose
\* line in index.txt they take as well, and leave the backing directory alone.
LEMMA MetaLost ==
  ASSUME [Next]_vars, NEW x \in Paths, x \in meta, x \notin meta'
  PROVE  UNCHANGED real /\ x \notin index' /\ meta \ {x} \subseteq meta'
<1>1. ASSUME NEW p \in Paths, Unlink(p)
      PROVE  UNCHANGED real /\ x \notin index' /\ meta \ {x} \subseteq meta'
  BY <1>1 DEF Unlink, Forget, FileId
<1>2. ASSUME NEW p \in Paths, NEW q \in Paths, Rename(p, q)
      PROVE  UNCHANGED real /\ x \notin index' /\ meta \ {x} \subseteq meta'
  <2>1. RenameLogical(p, q)
    BY <1>2 DEF Rename, RenameReal
  <2>2. QED
    BY <2>1 DEF RenameLogical, FileId
<1>3. ASSUME NEW p \in Paths, Mkdir(p) \/ Mknod(p) \/ Symlink(p) \/ Rmdir(p) \/ Open(p) \/ Create(p)
      PROVE  FALSE
  BY <1>3 DEF Mkdir, Mknod, Symlink, Make, Rmdir, Open, tree, Create, Persist
<1>4. ASSUME NEW p \in Paths, NEW q \in Paths, Link(p, q) PROVE FALSE
  BY <1>4 DEF Link, Make
<1>5. ASSUME Release \/ UNCHANGED vars PROVE FALSE
  BY <1>5 DEF Release, Persist, vars
<1>6. QED
  BY <1>1, <1>2, <1>3, <1>4, <1>5 DEF Next

\* No step of passthrough_cfs loses a logical file by what happens to another one: it
\* goes alone, with its line in index.txt, or with its directory.
THEOREM FilesStay == Spec => FilesKept
<1> DEFINE Lost == {x \in Paths : Reachable(x) /\ ~Reachable(x)'}
           Allowed(x) == (Lost = {x} /\ x \notin index') \/ ~IsDir(Front(x))' \/ (IsDir(x)' /\ ~IsDir(x))
<1>1. ASSUME TreeInv, [Next]_vars, NEW x \in Lost PROVE Allowed(x)
  <2>1. Types /\ x \in Paths /\ Reachable(x) /\ ~Reachable(x)'
    BY <1>1 DEF TreeInv
  <2>2. SUFFICES ASSUME x \in meta, x \notin meta' PROVE Lost = {x} /\ x \notin index'
    BY <2>1, LostHow
  <2>3. UNCHANGED real /\ x \notin index' /\ meta \ {x} \subseteq meta'
    BY <1>1, <2>1, <2>2, MetaLost
  <2>4. ASSUME NEW y \in Paths, y # x, Reachable(y) PROVE Reachable(y)'
    <3>1. \A p : IsDir(p)' <=> IsDir(p)
      BY <2>3 DEF IsDir
    <3>2. IsDir(Front(y))
      BY <2>1, <2>4, FrontFacts DEF Reachable, Lookup, Getattr, IsDir
    <3>3. ~(y \in meta /\ y \notin meta')
      BY <2>3, <2>4
    <3>4. SUFFICES ASSUME ~Reachable(y)' PROVE FALSE
      OBVIOUS
    <3>5. ~IsDir(Front(y))' \/ (IsDir(y)' /\ ~IsDir(y)) \/ (y \in meta /\ y \notin meta')
      BY <2>1, <2>4, <3>4, LostHow
    <3>6. QED
      BY <3>1, <3>2, <3>3, <3>5
  <2>5. QED
    BY <2>1, <2>3, <2>4
<1>2. TreeInv /\ [Next]_vars =>
        [LET lost == {p \in Paths : Reachable(p) /\ ~Reachable(p)'}
         IN \A p \in lost : \/ lost = {p} /\ p \notin index'
                            \/ ~IsDir(Front(p))'
                            \/ IsDir(p)' /\ ~IsDir(p)]_vars
  BY <1>1
<1>3. QED
  BY <1>2, TreeInvariant, PTL DEF Spec, FilesKept
=============================================================================
