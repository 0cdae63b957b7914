-------------------------- MODULE SessionTreePaths --------------------------
(***************************************************************************)
(* What the operators of SessionTree compute: the greatest and the least   *)
(* of a set of ids, and the path from an entry to the root, for entries    *)
(* whose parents have smaller ids.  Path is a recursive function; its      *)
(* equation, and what follows from it by induction, is obtained from the   *)
(* least id for which it would fail.                                       *)
(***************************************************************************)
EXTENDS SessionTree, TLAPS, WellFoundedInduction, FiniteSetTheorems

\* Sets of ids have a least element.
LEMMA Least ==
  ASSUME NEW T \in SUBSET Nat, T # {}
  PROVE  \E x \in T : \A y \in T : x <= y
<1>1. PICK x \in T : \A y \in T : ~(<<y, x>> \in OpToRel(<, Nat))
  BY NatLessThanWellFounded, WFMin
<1>2. \A y \in T : ~(y < x)
  BY <1>1 DEF OpToRel
<1> QED BY <1>2

\* Min gives the least element.
LEMMA MinIsLeast ==
  ASSUME NEW S \in SUBSET Nat, S # {}
  PROVE  Min(S) \in S /\ \A y \in S : Min(S) <= y
BY Least DEF Min

\* Max gives the greatest element of a bounded set.
LEMMA MaxIsGreatest ==
  ASSUME NEW N \in Nat, NEW S \in SUBSET (0 .. N), S # {}
  PROVE  Max(S) \in S /\ \A y \in S : Max(S) >= y
<1> DEFINE T == {n \in 0 .. N : \E x \in S : n = N - x}
<1>1. PICK m \in T : \A y \in T : m <= y
  <2>1. T \in SUBSET Nat OBVIOUS
  <2>2. PICK x \in S : TRUE OBVIOUS
  <2>3. N - x \in T OBVIOUS
  <2> QED BY <2>1, <2>3, Least
<1>2. PICK x \in S : m = N - x OBVIOUS
<1>3. \A y \in S : x >= y
  <2> TAKE y \in S
  <2>1. N - y \in T OBVIOUS
  <2>2. m <= N - y BY <1>1, <2>1
  <2> QED BY <1>2, <2>2
<1> QED BY <1>3 DEF Max

\* Biggest is the greatest id, or 0 where there is none.
LEMMA BiggestId ==
  ASSUME NEW N \in Nat, NEW S \in SUBSET (1 .. N)
  PROVE  /\ Biggest(S) \in 0 .. N
         /\ S = {} => Biggest(S) = 0
         /\ S # {} => Biggest(S) \in S
         /\ \A y \in S : Biggest(S) >= y
         /\ Biggest(S) > 0 => Biggest(S) \in S
<1> \A x \in S : x \in 1 .. N OBVIOUS
<1>1. CASE S = {} BY <1>1 DEF Biggest
<1>2. CASE S # {}
  <2>1. S \in SUBSET (0 .. N) OBVIOUS
  <2>2. Max(S) \in S /\ \A y \in S : Max(S) >= y BY <1>2, <2>1, MaxIsGreatest
  <2>3. Biggest(S) = Max(S) BY <1>2 DEF Biggest
  <2>4. Max(S) \in 1 .. N BY <2>2
  <2> QED BY <1>2, <2>2, <2>3, <2>4
<1> QED BY <1>1, <1>2

\* Biggest is the only greatest id.
LEMMA BiggestUnique ==
  ASSUME NEW N \in Nat, NEW S \in SUBSET (1 .. N), NEW m \in S,
         \A y \in S : m >= y
  PROVE  Biggest(S) = m
<1>1. Biggest(S) \in S /\ Biggest(S) >= m BY BiggestId
<1>2. Biggest(S) \in 1 .. N /\ m \in 1 .. N /\ m >= Biggest(S)
  <2>1. \A x \in S : x \in 1 .. N OBVIOUS
  <2> QED BY <1>1, <2>1
<1> QED BY <1>1, <1>2

-----------------------------------------------------------------------------
(* Paths.  A tree whose parents precede their children:                     *)

Ordered(l, ids) ==
    /\ ids \subseteq Ids
    /\ \A e \in ids : l[e].parent \in 0 .. e - 1

\* The equation of Path has a solution, and Path satisfies it.
LEMMA PathEquation ==
  ASSUME NEW l, NEW ids, Ordered(l, ids), NEW from \in 0 .. MaxEntries
  PROVE  Path(l, ids, from) =
           IF from \in ids THEN {from} \cup Path(l, ids, l[from].parent) ELSE {}
<1> MaxEntries \in Nat BY BoundsAssumption
<1> DEFINE Solves(f, n) ==
             f = [e \in 0 .. n |-> IF e \in ids THEN {e} \cup f[l[e].parent] ELSE {}]
           Unsolved == {n \in 0 .. MaxEntries : ~ \E f : Solves(f, n)}
<1>1. Unsolved = {}
  <2> SUFFICES ASSUME Unsolved # {} PROVE FALSE OBVIOUS
  <2>1. Unsolved \in SUBSET Nat OBVIOUS
  <2>2. PICK m \in Unsolved : \A y \in Unsolved : m <= y BY <2>1, Least
  <2>3. CASE m = 0
    <3> DEFINE f == [e \in 0 .. 0 |-> {}]
    <3>1. \A e \in 0 .. 0 : e \notin ids BY DEF Ordered, Ids
    <3>2. f = [e \in 0 .. 0 |-> IF e \in ids THEN {e} \cup f[l[e].parent] ELSE {}]
      BY <3>1
    <3>3. Solves(f, m) BY <2>3, <3>2
    <3> QED BY <3>3
  <2>4. CASE m # 0
    <3>0. m \in 1 .. MaxEntries BY <2>4
    <3>1. m - 1 \in 0 .. MaxEntries /\ m - 1 \notin Unsolved
      <4>1. ~(m <= m - 1) /\ m - 1 \in 0 .. MaxEntries BY <3>0
      <4> QED BY <2>2, <4>1
    <3>2. PICK f : Solves(f, m - 1) BY <3>1
    <3> DEFINE g == [e \in 0 .. m |-> IF e < m THEN f[e]
                       ELSE IF e \in ids THEN {e} \cup f[l[e].parent] ELSE {}]
    <3>3. ASSUME NEW e \in 0 .. m
          PROVE  g[e] = IF e \in ids THEN {e} \cup g[l[e].parent] ELSE {}
      <4>1. CASE e < m
        <5>1. f[e] = IF e \in ids THEN {e} \cup f[l[e].parent] ELSE {}
          <6>1. e \in 0 .. m - 1 BY <4>1
          <6> QED BY <3>2, <6>1
        <5>2. e \in ids => g[l[e].parent] = f[l[e].parent]
          BY <4>1 DEF Ordered
        <5> QED BY <4>1, <5>1, <5>2
      <4>2. CASE e = m
        <5>1. e \in ids => g[l[e].parent] = f[l[e].parent]
          BY <4>2 DEF Ordered
        <5>2. ~(e < m) BY <4>2
        <5>3. g[e] = IF e \in ids THEN {e} \cup f[l[e].parent] ELSE {} BY <5>2
        <5> HIDE DEF g
        <5> QED BY <5>1, <5>3
      <4> QED BY <4>1, <4>2
    <3>4. g = [e \in 0 .. m |-> IF e \in ids THEN {e} \cup g[l[e].parent] ELSE {}]
      <4> DEFINE h == [e \in 0 .. m |-> IF e \in ids THEN {e} \cup g[l[e].parent] ELSE {}]
      <4>1. \A e \in 0 .. m : g[e] = h[e] BY <3>3
      <4>2. g = [e \in 0 .. m |-> g[e]] OBVIOUS
      <4>3. h = [e \in 0 .. m |-> h[e]] OBVIOUS
      <4> HIDE DEF g, h
      <4>4. g = h BY <4>1, <4>2, <4>3
      <4> QED BY <4>4 DEF h
    <3>5. Solves(g, m) BY <3>4
    <3> QED BY <2>2, <3>5
  <2> QED BY <2>3, <2>4
<1>2. \E f : Solves(f, MaxEntries)
  <2>1. MaxEntries \in 0 .. MaxEntries OBVIOUS
  <2>2. MaxEntries \notin Unsolved BY <1>1
  <2> QED BY <2>1, <2>2
<1> DEFINE back == CHOOSE f : Solves(f, MaxEntries)
<1>3. Solves(back, MaxEntries) BY <1>2
<1>4. \A e : Path(l, ids, e) = back[e] BY DEF Path
<1> HIDE DEF back
<1>5. back[from] = IF from \in ids THEN {from} \cup back[l[from].parent] ELSE {}
  BY <1>3
<1> QED BY <1>4, <1>5

\* A path holds known entries up to the one it starts at.
LEMMA PathWithin ==
  ASSUME NEW l, NEW ids, Ordered(l, ids), NEW from \in 0 .. MaxEntries
  PROVE  /\ Path(l, ids, from) \subseteq ids
         /\ \A e \in Path(l, ids, from) : e \in 1 .. from
         /\ from \in ids <=> from \in Path(l, ids, from)
<1> MaxEntries \in Nat BY BoundsAssumption
<1> DEFINE Holds(n) == /\ Path(l, ids, n) \subseteq ids
                       /\ \A e \in Path(l, ids, n) : e \in 1 .. n
           Bad == {n \in 0 .. MaxEntries : ~ Holds(n)}
<1>1. Bad = {}
  <2> SUFFICES ASSUME Bad # {} PROVE FALSE OBVIOUS
  <2>1. Bad \in SUBSET Nat OBVIOUS
  <2>2. PICK m \in Bad : \A y \in Bad : m <= y BY <2>1, Least
  <2>3. CASE m \notin ids
    <3>1. Path(l, ids, m) = {} BY <2>3, PathEquation
    <3> QED BY <3>1
  <2>4. CASE m \in ids
    <3>1. m \in 1 .. MaxEntries /\ l[m].parent \in 0 .. m - 1
      BY <2>4 DEF Ordered, Ids
    <3>2. l[m].parent \in 0 .. MaxEntries /\ ~(m <= l[m].parent) BY <3>1
    <3>3. Holds(l[m].parent) BY <2>2, <3>2
    <3>4. Path(l, ids, m) = {m} \cup Path(l, ids, l[m].parent) BY <2>4, PathEquation
    <3>5. \A e \in Path(l, ids, l[m].parent) : e \in 1 .. m BY <3>1, <3>3
    <3>6. Holds(m) BY <2>4, <3>1, <3>3, <3>4, <3>5
    <3> QED BY <3>6
  <2> QED BY <2>3, <2>4
<1>2. Holds(from) BY <1>1
<1>3. from \in ids => from \in Path(l, ids, from) BY PathEquation
<1> QED BY <1>2, <1>3

\* The path from an entry on a path is the rest of that path.
LEMMA PathSuffix ==
  ASSUME NEW l, NEW ids, Ordered(l, ids), NEW from \in 0 .. MaxEntries,
         NEW a \in Path(l, ids, from)
  PROVE  Path(l, ids, a) = {e \in Path(l, ids, from) : e <= a}
<1> MaxEntries \in Nat BY BoundsAssumption
<1> DEFINE Holds(n) == \A x \in Path(l, ids, n) :
                         Path(l, ids, x) = {e \in Path(l, ids, n) : e <= x}
           Bad == {n \in 0 .. MaxEntries : ~ Holds(n)}
<1>1. Bad = {}
  <2> SUFFICES ASSUME Bad # {} PROVE FALSE OBVIOUS
  <2>1. Bad \in SUBSET Nat OBVIOUS
  <2>2. PICK m \in Bad : \A y \in Bad : m <= y BY <2>1, Least
  <2>3. CASE m \notin ids
    <3>1. Path(l, ids, m) = {} BY <2>3, PathEquation
    <3> QED BY <3>1
  <2>4. CASE m \in ids
    <3> DEFINE p == l[m].parent
    <3>1. m \in 1 .. MaxEntries /\ p \in 0 .. m - 1
      BY <2>4 DEF Ordered, Ids
    <3>2. p \in 0 .. MaxEntries /\ ~(m <= p) BY <3>1
    <3>3. Holds(p) BY <2>2, <3>2
    <3>4. Path(l, ids, m) = {m} \cup Path(l, ids, p) BY <2>4, PathEquation
    <3>5. \A e \in Path(l, ids, p) : e \in 1 .. p BY <3>2, PathWithin
    <3>6. ASSUME NEW x \in Path(l, ids, m)
          PROVE  Path(l, ids, x) = {e \in Path(l, ids, m) : e <= x}
      <4> HIDE DEF p
      <4>1. CASE x = m
        <5>1. \A e \in Path(l, ids, m) : e <= m BY <3>1, <3>4, <3>5
        <5> QED BY <4>1, <5>1
      <4>2. CASE x \in Path(l, ids, p)
        <5>1. Path(l, ids, x) = {e \in Path(l, ids, p) : e <= x} BY <3>3, <4>2
        <5>2. ~(m <= x) BY <3>1, <3>5, <4>2
        <5> QED BY <3>4, <5>1, <5>2
      <4> QED BY <3>4, <4>1, <4>2
    <3>7. Holds(m) BY <3>6
    <3> QED BY <3>7
  <2> QED BY <2>3, <2>4
<1>2. Holds(from) BY <1>1
<1> QED BY <1>2

\* Two logs that agree up to an entry give it the same path.
LEMMA PathAgrees ==
  ASSUME NEW l1, NEW ids1, Ordered(l1, ids1), NEW l2, NEW ids2, Ordered(l2, ids2),
         NEW from \in 0 .. MaxEntries,
         \A e \in 1 .. from : /\ e \in ids1 <=> e \in ids2
                              /\ e \in ids1 => l1[e].parent = l2[e].parent
  PROVE  Path(l1, ids1, from) = Path(l2, ids2, from)
<1> MaxEntries \in Nat BY BoundsAssumption
<1> DEFINE Holds(n) == Path(l1, ids1, n) = Path(l2, ids2, n)
           Bad == {n \in 0 .. from : ~ Holds(n)}
<1>1. Bad = {}
  <2> SUFFICES ASSUME Bad # {} PROVE FALSE OBVIOUS
  <2>1. Bad \in SUBSET Nat OBVIOUS
  <2>2. PICK m \in Bad : \A y \in Bad : m <= y BY <2>1, Least
  <2>3. m \in 0 .. from /\ m \in 0 .. MaxEntries OBVIOUS
  <2>4. 0 \notin ids1 /\ 0 \notin ids2 BY DEF Ordered, Ids
  <2>5. m \in ids1 <=> m \in ids2
    BY <2>3, <2>4
  <2>6. CASE m \notin ids1
    <3>1. Path(l1, ids1, m) = {} BY <2>3, <2>6, PathEquation
    <3>2. Path(l2, ids2, m) = {} BY <2>3, <2>5, <2>6, PathEquation
    <3> QED BY <3>1, <3>2
  <2>7. CASE m \in ids1
    <3>1. m \in 1 .. from /\ l1[m].parent \in 0 .. m - 1
      BY <2>3, <2>4, <2>7 DEF Ordered
    <3>2. l1[m].parent = l2[m].parent BY <2>7, <3>1
    <3>3. l1[m].parent \in 0 .. from /\ ~(m <= l1[m].parent) BY <3>1
    <3>4. Holds(l1[m].parent) BY <2>2, <3>3
    <3>5. Path(l1, ids1, m) = {m} \cup Path(l1, ids1, l1[m].parent)
      BY <2>3, <2>7, PathEquation
    <3>6. Path(l2, ids2, m) = {m} \cup Path(l2, ids2, l2[m].parent)
      BY <2>3, <2>5, <2>7, PathEquation
    <3>7. Holds(m) BY <3>2, <3>4, <3>5, <3>6
    <3> QED BY <3>7
  <2> QED BY <2>6, <2>7
<1>2. Holds(from) BY <1>1
<1> QED BY <1>2

\* With some entries missing, a path is what lies above the first missing one.
LEMMA PathOfFewer ==
  ASSUME NEW l, NEW ids, Ordered(l, ids), NEW fewer \in SUBSET ids,
         NEW from \in 0 .. MaxEntries
  PROVE  /\ Path(l, fewer, from) \subseteq Path(l, ids, from)
         /\ \A e \in Path(l, fewer, from) : \A x \in Path(l, ids, from) :
              e <= x => x \in Path(l, fewer, from)
<1> MaxEntries \in Nat BY BoundsAssumption
<1>0. Ordered(l, fewer) BY DEF Ordered
<1> DEFINE Holds(n) ==
             /\ Path(l, fewer, n) \subseteq Path(l, ids, n)
             /\ \A e \in Path(l, fewer, n) : \A x \in Path(l, ids, n) :
                  e <= x => x \in Path(l, fewer, n)
           Bad == {n \in 0 .. MaxEntries : ~ Holds(n)}
<1>1. Bad = {}
  <2> SUFFICES ASSUME Bad # {} PROVE FALSE OBVIOUS
  <2>1. Bad \in SUBSET Nat OBVIOUS
  <2>2. PICK m \in Bad : \A y \in Bad : m <= y BY <2>1, Least
  <2>3. CASE m \notin fewer
    <3>1. Path(l, fewer, m) = {} BY <1>0, <2>3, PathEquation
    <3> QED BY <3>1
  <2>4. CASE m \in fewer
    <3> DEFINE p == l[m].parent
    <3>1. m \in 1 .. MaxEntries /\ p \in 0 .. m - 1
      BY <2>4 DEF Ordered, Ids
    <3>2. p \in 0 .. MaxEntries /\ ~(m <= p) BY <3>1
    <3>3. Holds(p) BY <2>2, <3>2
    <3>4. Path(l, fewer, m) = {m} \cup Path(l, fewer, p) BY <1>0, <2>4, PathEquation
    <3>5. Path(l, ids, m) = {m} \cup Path(l, ids, p) BY <2>4, PathEquation
    <3>6. \A e \in Path(l, ids, p) : ~(m <= e)
      <4>1. \A e \in Path(l, ids, p) : e \in 1 .. p BY <3>2, PathWithin
      <4> QED BY <3>1, <4>1
    <3> HIDE DEF p
    <3>7. Holds(m) BY <3>3, <3>4, <3>5, <3>6
    <3> QED BY <3>7
  <2> QED BY <2>3, <2>4
<1>2. Holds(from) BY <1>1
<1> QED BY <1>2

\* Without the entries before some id, a path is what it has from that id on.
LEMMA PathAbove ==
  ASSUME NEW l, NEW ids, Ordered(l, ids), NEW low \in Nat, NEW from \in 0 .. MaxEntries
  PROVE  Path(l, {x \in ids : x >= low}, from) = {x \in Path(l, ids, from) : x >= low}
<1> MaxEntries \in Nat BY BoundsAssumption
<1> DEFINE fewer == {x \in ids : x >= low}
           Holds(n) == Path(l, fewer, n) = {x \in Path(l, ids, n) : x >= low}
           Bad == {n \in 0 .. MaxEntries : ~ Holds(n)}
<1>0. Ordered(l, fewer) BY DEF Ordered
<1>1. Bad = {}
  <2> SUFFICES ASSUME Bad # {} PROVE FALSE OBVIOUS
  <2>1. Bad \in SUBSET Nat OBVIOUS
  <2>2. PICK m \in Bad : \A y \in Bad : m <= y BY <2>1, Least
  <2>3. m \in 0 .. MaxEntries OBVIOUS
  <2>4. CASE m \notin ids
    <3>1. m \notin fewer BY <2>4
    <3> HIDE DEF fewer
    <3>2. Path(l, ids, m) = {} BY <2>3, <2>4, PathEquation
    <3>3. Path(l, fewer, m) = {} BY <1>0, <2>3, <3>1, PathEquation
    <3> QED BY <3>2, <3>3
  <2>5. CASE m \in ids
    <3> DEFINE p == l[m].parent
    <3>1. m \in 1 .. MaxEntries /\ p \in 0 .. m - 1 BY <2>5 DEF Ordered, Ids
    <3>2. p \in 0 .. MaxEntries /\ ~(m <= p) BY <3>1
    <3>3. Holds(p) BY <2>2, <3>2
    <3>4. Path(l, ids, m) = {m} \cup Path(l, ids, p) BY <2>3, <2>5, PathEquation
    <3>5. \A x \in Path(l, ids, m) : x \in 1 .. m BY <2>3, PathWithin
    <3>6. CASE m >= low
      <4>1. m \in fewer BY <2>5, <3>6
      <4> HIDE DEF fewer
      <4>2. Path(l, fewer, m) = {m} \cup Path(l, fewer, p)
        BY <1>0, <2>3, <4>1, PathEquation
      <4> HIDE DEF p
      <4>3. Holds(m) BY <3>3, <3>4, <3>6, <4>2
      <4> QED BY <4>3
    <3>7. CASE ~(m >= low)
      <4>1. m \notin fewer BY <3>7
      <4> HIDE DEF fewer
      <4>2. Path(l, fewer, m) = {} BY <1>0, <2>3, <4>1, PathEquation
      <4>3. \A x \in Path(l, ids, m) : ~(x >= low) BY <3>1, <3>5, <3>7
      <4> QED BY <4>2, <4>3
    <3> QED BY <3>6, <3>7
  <2> QED BY <2>4, <2>5
<1>2. Holds(from) BY <1>1
<1> QED BY <1>2

-----------------------------------------------------------------------------
(* Counting: createBranchedSession numbers the labels it writes anew in     *)
(* the order of their targets.                                              *)

UpTo(S, t) == Cardinality({u \in S : u <= t})

\* The members of a set of ids are numbered from 1, without gaps or repetition.
LEMMA Numbering ==
  ASSUME NEW N \in Nat, NEW S \in SUBSET (1 .. N)
  PROVE  /\ \A t \in S : UpTo(S, t) \in 1 .. N
         /\ \A t, u \in S : UpTo(S, t) = UpTo(S, u) => t = u
         /\ \A t \in S : UpTo(S, t) > 1 => \E u \in S : UpTo(S, u) = UpTo(S, t) - 1
<1> DEFINE below(t) == {u \in S : u <= t}
<1>1. \A x \in S : x \in 1 .. N /\ x \in Int OBVIOUS
<1>2. IsFiniteSet(S)
  <2>1. IsFiniteSet(1 .. N) BY FS_Interval
  <2> QED BY <2>1, FS_Subset
<1>3. \A t : IsFiniteSet(below(t)) /\ Cardinality(below(t)) \in Nat
  BY <1>2, FS_Subset, FS_CardinalityType
<1>4. ASSUME NEW t \in S, NEW u \in S, t < u
      PROVE  Cardinality(below(t)) < Cardinality(below(u))
  <2>1. below(t) \subseteq below(u) /\ u \in below(u) /\ u \notin below(t)
    <3>1. \A x \in S : x <= t => x <= u BY <1>1, <1>4
    <3>2. u <= u /\ ~(u <= t) BY <1>1, <1>4
    <3> QED BY <3>1, <3>2
  <2>2. /\ Cardinality(below(t)) <= Cardinality(below(u))
        /\ Cardinality(below(t)) # Cardinality(below(u))
    BY <1>3, <2>1, FS_Subset
  <2> QED BY <1>3, <2>2
<1>5. ASSUME NEW t \in S PROVE Cardinality(below(t)) \in 1 .. N
  <2>1. t \in below(t) BY <1>1
  <2>2. Cardinality(below(t)) # 0 BY <1>3, <2>1, FS_EmptySet
  <2>3. IsFiniteSet(1 .. N) /\ Cardinality(1 .. N) = N BY FS_Interval
  <2>4. below(t) \in SUBSET (1 .. N) OBVIOUS
  <2> HIDE DEF below
  <2>5. Cardinality(below(t)) <= N BY <2>3, <2>4, FS_Subset
  <2> QED BY <1>3, <2>2, <2>5
<1>6. ASSUME NEW t \in S, Cardinality(below(t)) > 1
      PROVE  \E u \in S : Cardinality(below(u)) = Cardinality(below(t)) - 1
  <2> DEFINE rest == below(t) \ {t}
  <2>1. t \in below(t) BY <1>1
  <2>2. Cardinality(rest) = Cardinality(below(t)) - 1
    <3>1. IsFiniteSet(below(t)) BY <1>3
    <3> HIDE DEF below
    <3> QED BY <2>1, <3>1, FS_RemoveElement
  <2>3. rest # {} BY <1>3, <1>6, <2>2, FS_EmptySet
  <2>4. rest \in SUBSET (0 .. N)
    <3>1. \A x \in rest : x \in 0 .. N BY <1>1
    <3> HIDE DEF rest
    <3> QED BY <3>1
  <2> DEFINE u == Max(rest)
  <2>5. u \in rest /\ \A y \in rest : u >= y BY <2>3, <2>4, MaxIsGreatest
  <2> HIDE DEF u
  <2>6. below(u) = rest
    <3>1. u \in S /\ u <= t /\ u # t BY <2>5
    <3>2. ASSUME NEW x \in S, x <= u PROVE x \in rest
      <4>1. x <= t /\ x # t BY <1>1, <3>1, <3>2
      <4> QED BY <4>1
    <3>3. ASSUME NEW x \in rest PROVE x <= u BY <2>5
    <3> QED BY <3>2, <3>3
  <2> QED BY <2>2, <2>5, <2>6
<1>7. \A t, u \in S : Cardinality(below(t)) = Cardinality(below(u)) => t = u
  <2> SUFFICES ASSUME NEW t \in S, NEW u \in S,
                      Cardinality(below(t)) = Cardinality(below(u))
               PROVE  t = u
    OBVIOUS
  <2>1. ~(t < u) BY <1>3, <1>4
  <2>2. ~(u < t) BY <1>3, <1>4
  <2> QED BY <1>1, <2>1, <2>2
<1>8. \A t : UpTo(S, t) = Cardinality(below(t)) BY DEF UpTo
<1> HIDE DEF below
<1> QED BY <1>3, <1>5, <1>6, <1>7, <1>8
=============================================================================
