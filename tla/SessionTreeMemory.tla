------------------------- MODULE SessionTreeMemory -------------------------
(***************************************************************************)
(* Compaction forgets nothing on a branch where every compaction finds the *)
(* entry it kept from: whatever was read of the file, and however the user *)
(* moved in the tree while a summary was being written.                    *)
(***************************************************************************)
EXTENDS SessionTreeProofs

-----------------------------------------------------------------------------
(* The invariant.  A summary answers for what comes before the first entry  *)
(* it kept, on every path that holds its own compactions' first entries.    *)
(* A later process may read fewer entries than the one that compacted, so   *)
(* it is required of every part of what is known.                           *)

SeenAt(entries, e) == entries[e].type \in {"message", "summary"}

SelfKept(entries, path) ==
    \A c \in path : entries[c].type = "compaction" => entries[c].ref \in path

Answers(entries, ids, kept, covers) ==
    LET path == Path(entries, ids, kept)
    IN kept \in ids /\ SelfKept(entries, path)
         => \A e \in path : e < kept /\ SeenAt(entries, e) => e \in covers

Known == IF up THEN mem ELSE disk

SummariesAnswer ==
    \A ids \in SUBSET Known :
       /\ \A c \in Known : log[c].type = "compaction"
            => Answers(log, ids, log[c].ref, log[c].covers)
       /\ Answers(log, ids, compacting.kept, compacting.covers)

LEMMA KnownIsOrdered ==
  ASSUME Typed
  PROVE  /\ Known \subseteq DOMAIN log
         /\ \A ids \in SUBSET DOMAIN log : Ordered(log, ids) /\ ids \subseteq 1 .. MaxEntries
BY DEF Known, Typed, Ordered, Backwards, Ids

\* With the invariant, the branch remembers what it holds.
LEMMA BranchRemembers ==
  ASSUME Typed, SummariesAnswer
  PROVE  NothingForgottenWhereKept
<1> DEFINE path == Path(log, mem, leaf)
           last == Biggest(Compactions(path))
<1> SUFFICES ASSUME up, \A c \in Compactions(path) : log[c].ref \in path
             PROVE  Remembered(path)
  BY DEF NothingForgottenWhereKept
<1>1. Ordered(log, mem) /\ leaf \in 0 .. MaxEntries BY TreesAreOrdered
<1>2. path \subseteq mem /\ path \subseteq 1 .. MaxEntries
  BY <1>1, PathWithin DEF Ordered, Ids
<1>3. Compactions(path) \in SUBSET (1 .. MaxEntries) BY <1>2 DEF Compactions
<1>4. CASE last = 0
  BY <1>4 DEF Remembered, Context
<1>5. CASE last > 0
  <2> DEFINE kept == log[last].ref
             rest == Path(log, mem, kept)
  <2>1. last \in path /\ log[last].type = "compaction" /\ kept \in path
    <3>1. last \in Compactions(path) BY <1>3, <1>5, BiggestId, BoundsAreNat
    <3> QED BY <3>1 DEF Compactions
  <2> HIDE DEF last
  <2>2. rest = {e \in path : e <= kept} BY <1>1, <2>1, PathSuffix
  <2>3. SelfKept(log, rest)
    <3> SUFFICES ASSUME NEW c \in rest, log[c].type = "compaction"
                 PROVE  log[c].ref \in rest
      BY DEF SelfKept
    <3>1. c \in path /\ c <= kept /\ log[c].ref \in path BY <2>2 DEF Compactions
    <3>2. log[c].ref \in 0 .. c - 1 BY <1>2, <3>1 DEF Typed, Backwards
    <3>3. log[c].ref <= kept
      <4>1. c \in Nat /\ kept \in Nat BY <1>2, <2>1, <3>1
      <4> QED BY <3>1, <3>2, <4>1
    <3> QED BY <2>2, <3>1, <3>3
  <2>4. Answers(log, mem, kept, log[last].covers)
    BY <1>2, <2>1 DEF SummariesAnswer, Known
  <2>5. ASSUME NEW e \in path, Visible(e), e \notin Context(path)
        PROVE  e \in log[last].covers
    <3>1. ~(e >= last) /\ ~(e >= kept)
      BY <1>5, <2>1, <2>5 DEF Context, last
    <3>2. e \in Nat /\ kept \in Nat BY <1>2, <2>1
    <3>3. e < kept /\ e \in rest BY <2>2, <3>1, <3>2
    <3>4. kept \in mem BY <1>2, <2>1
    <3> QED BY <2>3, <2>4, <2>5, <3>3, <3>4 DEF Answers, SeenAt, Visible
  <2> QED BY <1>5, <2>5 DEF Remembered, last
<1>6. last = 0 \/ last > 0 BY <1>3, BiggestId, BoundsAreNat
<1> QED BY <1>4, <1>5, <1>6

-----------------------------------------------------------------------------
(* A compaction under way answers for what it will not keep: either it      *)
(* summarises it, or the compaction before it did.                          *)

LEMMA PrepareAnswers ==
  ASSUME Typed, SummariesAnswer, PrepareCompaction
  PROVE  SummariesAnswer'
<1> DEFINE branch == Path(log, mem, leaf)
           last == Biggest(Compactions(branch))
           start == BoundaryStart(branch)
<1>1. up /\ Ordered(log, mem) /\ leaf \in 0 .. MaxEntries
  BY TreesAreOrdered DEF PrepareCompaction
<1>2. branch \subseteq mem /\ branch \subseteq 1 .. MaxEntries
  BY <1>1, PathWithin DEF Ordered, Ids
<1>3. PICK cut \in branch :
        /\ cut >= start
        /\ compacting' = [kept |-> FirstKept(branch, cut),
                          covers |-> Summarised(branch, FirstKept(branch, cut))
                             \cup (IF last > 0 THEN log[last].covers ELSE {})]
  BY DEF PrepareCompaction
<1> DEFINE kept == FirstKept(branch, cut)
<1>4. kept \in branch /\ kept >= start
  <2>1. branch \in SUBSET Nat BY <1>2
  <2> HIDE DEF branch
  <2> QED BY <1>3, <2>1, CutIsOnPath
<1>5. /\ Summarised(branch, kept) \subseteq compacting'.covers
      /\ last > 0 => log[last].covers \subseteq compacting'.covers
      /\ compacting'.kept = kept
  BY <1>3
<1>6. Known' = mem /\ Known = mem /\ log' = log BY <1>1 DEF PrepareCompaction, Known
<1>7. Compactions(branch) \in SUBSET (1 .. MaxEntries) BY <1>2 DEF Compactions
<1>8. /\ last \in Nat
      /\ last > 0 => last \in branch /\ log[last].type = "compaction"
  <2>1. last \in 0 .. MaxEntries /\ (last > 0 => last \in Compactions(branch))
    BY <1>7, BiggestId, BoundsAreNat
  <2> HIDE DEF last
  <2> QED BY <2>1, BoundsAreNat DEF Compactions
<1>9. start = IF last = 0 THEN 0
              ELSE IF log[last].ref \in branch THEN log[last].ref ELSE last + 1
  BY DEF BoundaryStart
<1> HIDE DEF kept, last, start
<1>10. ASSUME NEW ids \in SUBSET mem, kept \in ids, SelfKept(log, Path(log, ids, kept)),
              NEW e \in Path(log, ids, kept), e < kept, SeenAt(log, e)
       PROVE  e \in compacting'.covers
  <2> DEFINE path == Path(log, ids, kept)
  <2>1. Ordered(log, ids) /\ kept \in 0 .. MaxEntries
    BY <1>2, <1>4, KnownIsOrdered DEF Typed
  <2>2. Path(log, mem, kept) = {x \in branch : x <= kept}
    BY <1>1, <1>4, PathSuffix
  <2>3. /\ path \subseteq {x \in branch : x <= kept}
        /\ \A y \in path : \A x \in branch : x <= kept /\ y <= x => x \in path
    BY <1>1, <2>1, <2>2, PathOfFewer
  <2>4. e \in branch /\ e \in Nat /\ kept \in Nat BY <1>2, <1>4, <2>3
  <2> HIDE DEF path
  <2>5. CASE start <= e
    <3>1. e \in Summarised(branch, kept)
      BY <1>10, <2>4, <2>5 DEF Summarised, Visible, SeenAt, start
    <3> QED BY <1>5, <3>1
  <2>6. CASE ~(start <= e) /\ log[last].ref \in branch
    <3> DEFINE b == log[last].ref
    <3>1. last > 0 /\ start = b BY <1>8, <1>9, <2>4, <2>6
    <3>2. b \in Nat BY <1>2, <2>6
    <3> HIDE DEF b
    <3>3. e < b /\ b <= kept BY <1>4, <2>4, <2>6, <3>1, <3>2
    <3>4. b \in path
      <4>1. e \in path /\ b \in branch BY <1>10, <2>6 DEF path, b
      <4>2. e <= b BY <2>4, <3>2, <3>3
      <4> QED BY <2>3, <3>3, <4>1, <4>2
    <3>5. b \in ids BY <2>1, <3>4, PathWithin DEF path
    <3>6. Path(log, ids, b) = {x \in path : x <= b} BY <2>1, <3>4, PathSuffix DEF path
    <3>7. SelfKept(log, Path(log, ids, b))
      <4> SUFFICES ASSUME NEW c \in Path(log, ids, b), log[c].type = "compaction"
                   PROVE  log[c].ref \in Path(log, ids, b)
        BY DEF SelfKept
      <4>1. c \in path /\ c <= b /\ log[c].ref \in path
        BY <1>10, <3>6 DEF SelfKept, path
      <4>2. log[c].ref \in 0 .. c - 1 /\ c \in Nat
        BY <1>2, <2>3, <4>1 DEF Typed, Backwards
      <4>3. log[c].ref <= b BY <3>2, <4>1, <4>2
      <4> QED BY <3>6, <4>1, <4>3
    <3>8. Answers(log, ids, b, log[last].covers)
      BY <1>2, <1>6, <1>8, <3>1 DEF SummariesAnswer, b
    <3>9. e \in Path(log, ids, b)
      <4>1. e \in path /\ e <= b BY <1>10, <2>4, <3>2, <3>3 DEF path
      <4> QED BY <3>6, <4>1
    <3>10. e \in log[last].covers
      BY <1>10, <3>3, <3>5, <3>7, <3>8, <3>9 DEF Answers
    <3> QED BY <1>5, <3>1, <3>10
  <2>7. CASE ~(start <= e) /\ log[last].ref \notin branch
    <3>1. last > 0 /\ start = last + 1 BY <1>8, <1>9, <2>4, <2>7
    <3>2. e <= last /\ last <= kept BY <1>4, <1>8, <2>4, <2>7, <3>1
    <3>3. e \in path BY <1>10 DEF path
    <3>4. last \in path BY <1>8, <2>3, <3>1, <3>2, <3>3
    <3>5. log[last].ref \in path BY <1>8, <1>10, <3>1, <3>4 DEF SelfKept, path
    <3> QED BY <2>3, <2>7, <3>5
  <2> QED BY <2>5, <2>6, <2>7
<1>11. \A ids \in SUBSET mem : Answers(log, ids, kept, compacting'.covers)
  BY <1>10 DEF Answers
<1>12. ASSUME NEW ids \in SUBSET Known', NEW c \in Known', log'[c].type = "compaction"
       PROVE  Answers(log', ids, log'[c].ref, log'[c].covers)
  BY <1>6, <1>12 DEF SummariesAnswer
<1> QED BY <1>5, <1>6, <1>11, <1>12 DEF SummariesAnswer

\* A new entry changes no path that starts before it.
LEMMA AnswersAfterAppend ==
  ASSUME Typed, Typed', NEW entry, NEW how \in Outcomes, Append(entry, how),
         NEW ids \in SUBSET (mem \cup {NextId}), NEW kept \in DOMAIN log, NEW covers,
         Answers(log, ids \ {NextId}, kept, covers)
  PROVE  Answers(log', ids, kept, covers)
<1> DEFINE old == ids \ {NextId}
<1>1. /\ DOMAIN log' = DOMAIN log \cup {NextId}
      /\ \A e \in DOMAIN log : log'[e] = log[e]
      /\ NextId \in Ids
  BY AppendedLog
<1>2. NextId \notin DOMAIN log /\ \A e \in DOMAIN log : e \in 1 .. NextId - 1
  BY NextIdIsNew
<1>3. old \subseteq DOMAIN log BY DEF Typed
<1>4. Ordered(log, old) /\ kept \in 0 .. MaxEntries
  BY <1>3, KnownIsOrdered, BoundsAreNat DEF Typed, Ids
<1>5. Ordered(log', ids)
  <2>1. ids \subseteq DOMAIN log' BY <1>1, <1>3
  <2> QED BY <2>1 DEF Typed, Ordered, Backwards
<1>6. /\ kept < NextId /\ kept \in Nat /\ NextId \in Nat
      /\ \A e \in 1 .. kept : e # NextId
  <2>1. kept \in 1 .. NextId - 1 /\ NextId \in Nat BY <1>2, NextIdIsNew
  <2> QED BY <2>1
<1>7. Path(log, old, kept) = Path(log', ids, kept)
  <2>1. \A e \in 1 .. kept : e \in old <=> e \in ids BY <1>6
  <2>2. \A e \in 1 .. kept : e \in old => log[e].parent = log'[e].parent BY <1>1, <1>3
  <2> HIDE DEF old
  <2> QED BY <1>4, <1>5, <2>1, <2>2, PathAgrees
<1>8. Path(log, old, kept) \subseteq DOMAIN log BY <1>3, <1>4, PathWithin
<1>9. \A e \in Path(log, old, kept) : log'[e] = log[e] BY <1>1, <1>8
<1>10. kept \in ids => kept \in old BY <1>6
<1> HIDE DEF old
<1>11. SelfKept(log', Path(log', ids, kept)) => SelfKept(log, Path(log, old, kept))
  BY <1>7, <1>9 DEF SelfKept
<1>12. \A e \in Path(log, old, kept) : SeenAt(log', e) <=> SeenAt(log, e)
  BY <1>9 DEF SeenAt
<1> QED BY <1>7, <1>10, <1>11, <1>12 DEF Answers, old

LEMMA AppendAnswers ==
  ASSUME Typed, Typed', SummariesAnswer, NEW entry, NEW how \in Outcomes,
         Append(entry, how),
         \/ entry.type # "compaction" /\ compacting' = compacting
         \/ /\ entry.ref = compacting.kept /\ entry.covers = compacting.covers
            /\ compacting' = Idle
  PROVE  SummariesAnswer'
<1>1. /\ DOMAIN log' = DOMAIN log \cup {NextId}
      /\ \A e \in DOMAIN log : log'[e] = log[e]
      /\ log'[NextId] = entry
  BY AppendedLog
<1>2. up /\ up' /\ Known = mem /\ Known' = mem \cup {NextId} BY DEF Append, Known
<1>3. SUFFICES ASSUME NEW ids \in SUBSET (mem \cup {NextId})
               PROVE  /\ \A c \in mem \cup {NextId} : log'[c].type = "compaction"
                           => Answers(log', ids, log'[c].ref, log'[c].covers)
                      /\ Answers(log', ids, compacting'.kept, compacting'.covers)
  BY <1>2 DEF SummariesAnswer
<1>4. ids \ {NextId} \in SUBSET Known /\ mem \subseteq DOMAIN log /\ 0 \notin ids
  <2>1. mem \subseteq DOMAIN log /\ 0 \notin DOMAIN log BY DEF Typed, Ids
  <2>2. NextId # 0 BY NextIdIsNew
  <2> QED BY <1>2, <2>1, <2>2
<1>5. ASSUME NEW kept \in mem \cup {0}, NEW covers,
             Answers(log, ids \ {NextId}, kept, covers)
      PROVE  Answers(log', ids, kept, covers)
  <2>1. CASE kept = 0 BY <1>4, <2>1 DEF Answers
  <2>2. CASE kept \in DOMAIN log BY <1>5, <2>2, AnswersAfterAppend
  <2> QED BY <1>4, <2>1, <2>2
<1>6. Answers(log', ids, compacting.kept, compacting.covers)
  <2>1. compacting.kept \in mem \cup {0} BY DEF Typed
  <2>2. Answers(log, ids \ {NextId}, compacting.kept, compacting.covers)
    BY <1>4 DEF SummariesAnswer
  <2> QED BY <1>5, <2>1, <2>2
<1>7. Answers(log', ids, Idle.kept, Idle.covers) BY <1>4 DEF Answers, Idle
<1>8. ASSUME NEW c \in mem, log'[c].type = "compaction"
      PROVE  Answers(log', ids, log'[c].ref, log'[c].covers)
  <2>1. log'[c] = log[c] BY <1>1, <1>4
  <2>2. Answers(log, ids \ {NextId}, log[c].ref, log[c].covers)
    BY <1>2, <1>4, <1>8, <2>1 DEF SummariesAnswer
  <2>3. log[c].ref \in mem \cup {0} \/ log[c].ref \notin ids
    <3>1. c \in 1 .. NextId - 1 /\ NextId \in Nat BY <1>4, NextIdIsNew
    <3>2. log[c].ref \in 0 .. c - 1 BY <1>4 DEF Typed, Backwards
    <3>3. log[c].ref # NextId BY <3>1, <3>2
    <3> QED BY <3>3
  <2> QED BY <1>5, <2>1, <2>2, <2>3 DEF Answers
<1>9. ASSUME log'[NextId].type = "compaction"
      PROVE  Answers(log', ids, log'[NextId].ref, log'[NextId].covers)
  BY <1>1, <1>6, <1>9
<1> QED BY <1>6, <1>7, <1>8, <1>9

-----------------------------------------------------------------------------
(* A fork.  What it keeps of the branch is one chain, so that a path in it  *)
(* is what it keeps of a path there was before.                             *)

\* In the new log the kept entries are linked one to the next.
LEMMA ChainPath ==
  ASSUME Typed, Typed', NEW target \in Ids \cup {0}, NEW how \in Outcomes,
         Fork(target, how), NEW a \in Kept(Path(log, disk, target))
  PROVE  Path(log', DOMAIN log', a) =
           {k \in Kept(Path(log, disk, target)) : k <= a}
<1> DEFINE K == Kept(Path(log, disk, target))
           Holds(n) == n \in K => Path(log', DOMAIN log', n) = {k \in K : k <= n}
           Bad == {n \in 0 .. MaxEntries : ~ Holds(n)}
<1>1. /\ K \subseteq DOMAIN log' /\ K \in SUBSET (1 .. MaxEntries)
      /\ Ordered(log', DOMAIN log')
      /\ \A e \in K : log'[e].parent = Biggest({k \in K : k < e})
  <2> DEFINE path == Path(log, disk, target)
  <2>1. path \in SUBSET disk /\ log' = Rechained(path) BY ForkedBranch
  <2>2. K \in SUBSET (1 .. MaxEntries) BY <2>1 DEF Kept, Typed, Ids
  <2>3. Ordered(log', DOMAIN log') BY DEF Typed, Ordered, Backwards
  <2> HIDE DEF path
  <2>4. Kept(path) \subseteq DOMAIN log' BY <2>1, RechainedLog
  <2>5. ASSUME NEW e \in Kept(path)
        PROVE  log'[e].parent = Biggest({k \in Kept(path) : k < e})
    <3>1. log'[e] = [log[e] EXCEPT !.parent = Biggest({k \in Kept(path) : k < e})]
      BY <2>1, RechainedLog
    <3>2. log[e] \in Entries BY <2>1 DEF Kept, Typed, Backwards
    <3> QED BY <3>1, <3>2 DEF Entries
  <2> QED BY <2>2, <2>3, <2>4, <2>5 DEF path
<1> HIDE DEF K
<1>2. Bad = {}
  <2> SUFFICES ASSUME Bad # {} PROVE FALSE OBVIOUS
  <2>1. Bad \in SUBSET Nat BY BoundsAreNat
  <2>2. PICK m \in Bad : \A y \in Bad : m <= y BY <2>1, Least
  <2>3. m \in K /\ m \in 0 .. MaxEntries /\ m \in DOMAIN log' /\ m \in 1 .. MaxEntries
    BY <1>1
  <2> DEFINE before == {k \in K : k < m}
             p == Biggest(before)
  <2>4. Path(log', DOMAIN log', m) = {m} \cup Path(log', DOMAIN log', p)
    BY <1>1, <2>3, PathEquation
  <2>5. before \in SUBSET (1 .. MaxEntries) BY <1>1
  <2> HIDE DEF before
  <2>6. /\ p \in 0 .. MaxEntries /\ (before = {} => p = 0)
        /\ (before # {} => p \in before) /\ \A y \in before : p >= y
    BY <2>5, BiggestId, BoundsAreNat
  <2> HIDE DEF p
  <2>7. \A k \in K : k \in 1 .. MaxEntries BY <1>1
  <2>8. {k \in K : k <= m} = {m} \cup before
    <3>1. \A k \in K : k <= m <=> k = m \/ k < m BY <2>3, <2>7, BoundsAreNat
    <3> QED BY <2>3, <3>1 DEF before
  <2>9. CASE before = {}
    <3>1. 0 \notin DOMAIN log' BY DEF Typed, Ids
    <3>2. Path(log', DOMAIN log', 0) = {} BY <1>1, <3>1, BoundsAreNat, PathEquation
    <3> QED BY <2>4, <2>6, <2>8, <2>9, <3>2
  <2>10. CASE before # {}
    <3>1. p \in K /\ p < m /\ ~(m <= p) BY <2>3, <2>6, <2>10, BoundsAreNat DEF before
    <3>2. Path(log', DOMAIN log', p) = {k \in K : k <= p} BY <2>2, <2>6, <3>1
    <3>3. {k \in K : k <= p} = before
      <4>1. \A k \in K : k < m => k <= p BY <2>6 DEF before
      <4>2. \A k \in K : k <= p => k < m BY <2>3, <2>6, <2>7, <3>1, BoundsAreNat
      <4> QED BY <4>1, <4>2 DEF before
    <3> QED BY <2>4, <2>8, <3>2, <3>3
  <2> QED BY <2>9, <2>10
<1>3. a \in K /\ a \in 0 .. MaxEntries
  <2>1. a \in K BY DEF K
  <2> QED BY <1>1, <2>1
<1>4. Holds(a) BY <1>2, <1>3
<1> QED BY <1>3, <1>4 DEF K

LEMMA ForkAnswers ==
  ASSUME Typed, Typed', SummariesAnswer,
         NEW target \in Ids \cup {0}, NEW how \in Outcomes, Fork(target, how)
  PROVE  SummariesAnswer'
<1> DEFINE path == Path(log, disk, target)
           K == Kept(path)
<1>1. /\ path \in SUBSET disk /\ log' = Rechained(path) /\ mem' = DOMAIN log'
      /\ up /\ up' /\ compacting' = Idle /\ disk \subseteq mem
  BY ForkedBranch DEF Fork, Typed
<1>2. Known' = DOMAIN log' /\ Known = mem BY <1>1 DEF Known
<1>3. Ordered(log, disk) /\ target \in 0 .. MaxEntries
  BY TreesAreOrdered, BoundsAreNat DEF Ids
<1>4. K \subseteq path /\ K \subseteq disk /\ K \subseteq 1 .. MaxEntries
  BY <1>1 DEF Kept, Typed, Ids
<1>5. \A a \in K : Path(log', DOMAIN log', a) = {k \in K : k <= a} BY ChainPath
<1>6. \A a \in path : Path(log, disk, a) = {x \in path : x <= a}
  BY <1>3, PathSuffix
<1>7. \A x \in path : x \notin K => Marks(x) BY DEF Kept
<1> HIDE DEF path
<1>8. /\ DOMAIN log' = K \cup {Place(path, t) : t \in Named(path)}
      /\ \A e \in K : /\ log'[e].type = log[e].type /\ log'[e].ref = log[e].ref
                      /\ log'[e].covers = log[e].covers
      /\ \A t \in Named(path) : log'[Place(path, t)].type = "label"
  <2>1. DOMAIN log' = K \cup {Place(path, t) : t \in Named(path)} BY <1>1, RechainedLog
  <2>2. ASSUME NEW e \in K
        PROVE  /\ log'[e].type = log[e].type /\ log'[e].ref = log[e].ref
               /\ log'[e].covers = log[e].covers
    <3>1. log'[e] = [log[e] EXCEPT !.parent = Biggest({k \in K : k < e})]
      BY <1>1, RechainedLog
    <3>2. log[e] \in Entries BY <1>1, <1>4 DEF Typed, Backwards
    <3> QED BY <3>1, <3>2 DEF Entries
  <2>3. ASSUME NEW t \in Named(path) PROVE log'[Place(path, t)].type = "label"
    <3>1. PICK p : log'[Place(path, t)] = Entry("label", p, t) BY <1>1, RechainedLog
    <3> QED BY <3>1 DEF Entry
  <2> QED BY <2>1, <2>2, <2>3
<1>9. \A t \in Named(path) : Place(path, t) \in Nat /\ Place(path, t) > Biggest(DOMAIN log)
  BY <1>1, Places
<1> HIDE DEF K
<1>10. ASSUME NEW ids \in SUBSET DOMAIN log', NEW c \in DOMAIN log',
              log'[c].type = "compaction", log'[c].ref \in ids,
              SelfKept(log', Path(log', ids, log'[c].ref)),
              NEW e \in Path(log', ids, log'[c].ref), e < log'[c].ref, SeenAt(log', e)
       PROVE  e \in log'[c].covers
  <2> DEFINE a == log[c].ref
             A == Path(log', ids, a)
             low == Min(A)
             above == {x \in disk : x >= low}
             B == Path(log, above, a)
  <2>1. c \in K /\ c \in mem /\ log[c].type = "compaction" /\ log'[c].ref = a
        /\ log'[c].covers = log[c].covers
    BY <1>1, <1>4, <1>8, <1>10
  <2>2. a \in K
    <3>1. a \in 0 .. c - 1 /\ c \in 1 .. Biggest(DOMAIN log)
      BY <2>1, NextIdIsNew DEF Typed, Backwards
    <3>2. Biggest(DOMAIN log) \in Nat BY NextIdIsNew
    <3>3. \A t \in Named(path) : Place(path, t) # a BY <1>9, <3>1, <3>2
    <3> QED BY <1>8, <1>10, <2>1, <3>3
  <2>3. a \in path /\ a \in 1 .. MaxEntries BY <1>4, <2>2
  <2> HIDE DEF a
  <2>4. /\ A \subseteq {k \in K : k <= a}
        /\ \A y \in A : \A x \in K : x <= a /\ y <= x => x \in A
    <3>1. Ordered(log', DOMAIN log') BY DEF Typed, Ordered, Backwards
    <3>2. Path(log', DOMAIN log', a) = {k \in K : k <= a} BY <1>5, <2>2
    <3>3. a \in 0 .. MaxEntries BY <2>3
    <3>4. /\ A \subseteq Path(log', DOMAIN log', a)
          /\ \A y \in A : \A x \in Path(log', DOMAIN log', a) : y <= x => x \in A
      BY <3>1, <3>3, PathOfFewer
    <3> HIDE DEF A
    <3> QED BY <3>2, <3>4
  <2>5. e \in A /\ e < a /\ SelfKept(log', A) BY <1>10, <2>1
  <2> HIDE DEF A
  <2>6. low \in A /\ \A y \in A : low <= y
    <3>1. A \in SUBSET Nat BY <1>4, <2>4
    <3> QED BY <2>5, <3>1, MinIsLeast
  <2> HIDE DEF low
  <2>7. low \in Nat /\ low <= a BY <1>4, <2>4, <2>6
  <2>8. B = {x \in path : x <= a /\ x >= low}
    <3>1. a \in 0 .. MaxEntries BY <2>3
    <3>2. B = {x \in Path(log, disk, a) : x >= low} BY <1>3, <2>7, <3>1, PathAbove
    <3> HIDE DEF B
    <3> QED BY <1>6, <2>3, <3>2
  <2> HIDE DEF B
  <2>9. A \subseteq B BY <1>4, <2>4, <2>6, <2>8
  <2>10. SelfKept(log, B)
    <3> SUFFICES ASSUME NEW d \in B, log[d].type = "compaction" PROVE log[d].ref \in B
      BY DEF SelfKept
    <3>1. d \in K BY <1>7, <2>8 DEF Marks
    <3>2. d \in A BY <2>4, <2>6, <2>8, <3>1
    <3>3. log'[d].ref \in A BY <1>8, <2>5, <3>1, <3>2 DEF SelfKept
    <3> QED BY <1>8, <2>9, <3>1, <3>3
  <2>11. above \in SUBSET Known /\ a \in above
    <3>1. a \in disk BY <1>4, <2>2
    <3>2. a >= low BY <2>3, <2>7
    <3> QED BY <1>1, <1>2, <3>1, <3>2
  <2>12. Answers(log, above, a, log[c].covers)
    BY <1>2, <2>1, <2>11 DEF SummariesAnswer, a
  <2>13. SeenAt(log, e) BY <1>8, <1>10, <2>4, <2>5 DEF SeenAt
  <2>14. e \in log[c].covers
    <3> HIDE DEF above
    <3> QED BY <2>5, <2>9, <2>10, <2>11, <2>12, <2>13 DEF Answers, B
  <2> QED BY <2>1, <2>14
<1>11. \A ids \in SUBSET DOMAIN log' : Answers(log', ids, 0, {})
  BY DEF Answers, Typed, Ids
<1>12. compacting'.kept = 0 /\ compacting'.covers = {} BY <1>1 DEF Idle
<1>13. ASSUME NEW ids \in SUBSET DOMAIN log', NEW c \in DOMAIN log',
              log'[c].type = "compaction"
       PROVE  Answers(log', ids, log'[c].ref, log'[c].covers)
  BY <1>10, <1>13 DEF Answers
<1> QED BY <1>2, <1>11, <1>12, <1>13 DEF SummariesAnswer

-----------------------------------------------------------------------------
LEMMA AnswersNext == Typed /\ Typed' /\ SummariesAnswer /\ [Next]_vars => SummariesAnswer'
<1> SUFFICES ASSUME Typed, Typed', SummariesAnswer, [Next]_vars PROVE SummariesAnswer'
  OBVIOUS
<1>1. ASSUME UNCHANGED log, Known' \subseteq Known, compacting' \in {compacting, Idle}
      PROVE  SummariesAnswer'
  <2>1. \A ids \in SUBSET Known : Answers(log, ids, 0, {})
    BY DEF Answers, Known, Typed, Ids
  <2>2. \A ids \in SUBSET Known' : Answers(log', ids, compacting'.kept, compacting'.covers)
    BY <1>1, <2>1 DEF SummariesAnswer, Idle
  <2> QED BY <1>1, <2>2 DEF SummariesAnswer
<1>2. ASSUME NEW how \in Outcomes, NEW entry, Append(entry, how),
             entry.type # "compaction", compacting' = compacting
      PROVE  SummariesAnswer'
  BY <1>2, AppendAnswers
<1>3. \A type, parent, ref : Entry(type, parent, ref).type = type BY DEF Entry
<1>4. ASSUME NEW how \in Outcomes, AppendMessage(how) PROVE SummariesAnswer'
  BY <1>2, <1>3, <1>4 DEF AppendMessage
<1>5. ASSUME NEW how \in Outcomes, AppendCompaction(how) PROVE SummariesAnswer'
  <2> DEFINE entry == [Entry("compaction", leaf, compacting.kept)
                         EXCEPT !.covers = compacting.covers]
  <2>1. entry.ref = compacting.kept /\ entry.covers = compacting.covers BY DEF Entry
  <2>2. Append(entry, how) /\ compacting' = Idle BY <1>5 DEF AppendCompaction
  <2> HIDE DEF entry
  <2> QED BY <2>1, <2>2, AppendAnswers
<1>6. ASSUME NEW how \in Outcomes, NEW e \in Ids, AppendLabelChange(e, how)
      PROVE  SummariesAnswer'
  BY <1>2, <1>3, <1>6 DEF AppendLabelChange
<1>7. ASSUME NEW how \in Outcomes, NEW e \in Ids \cup {0}, BranchWithSummary(e, how)
      PROVE  SummariesAnswer'
  BY <1>2, <1>3, <1>7 DEF BranchWithSummary
<1>8. ASSUME NEW how \in Outcomes, NEW to, MoveLeaf(to, how) PROVE SummariesAnswer'
  BY <1>1, <1>8 DEF MoveLeaf, Known
<1>9. ASSUME NEW how \in Outcomes, ResetLeaf(how) PROVE SummariesAnswer'
  BY <1>8, <1>9 DEF ResetLeaf
<1>10. ASSUME NEW how \in Outcomes, NEW e \in Ids, Branch(e, how) PROVE SummariesAnswer'
  BY <1>8, <1>10 DEF Branch
<1>11. ASSUME NEW how \in Outcomes, NEW e \in Ids \cup {0}, Fork(e, how)
       PROVE  SummariesAnswer'
  BY <1>11, ForkAnswers
<1>12. CASE PrepareCompaction BY <1>12, PrepareAnswers
<1>13. CASE CompactionFails BY <1>1, <1>13 DEF CompactionFails, Known
<1>14. CASE Crash BY <1>1, <1>14 DEF Crash, Known, Typed
<1>15. CASE Restart BY <1>1, <1>15 DEF Restart, Known
<1>16. CASE ForkFrom BY <1>1, <1>16 DEF ForkFrom, Known
<1>17. CASE UNCHANGED vars BY <1>1, <1>17 DEF vars, Known
<1> QED BY <1>4, <1>5, <1>6, <1>7, <1>9, <1>10, <1>11, <1>12, <1>13, <1>14, <1>15,
           <1>16, <1>17 DEF Next

\* On a branch where every compaction finds the entry it kept from, the model is
\* asked with every message of the branch, itself or in a summary, however often
\* it was compacted, branched, forked, torn and reopened (prepareCompaction,
\* buildContextEntries).
THEOREM CompactionForgetsNothing == Spec => []NothingForgottenWhereKept
<1>1. Init => SummariesAnswer
  <2> SUFFICES ASSUME Init PROVE SummariesAnswer OBVIOUS
  <2>1. Known = {} /\ compacting.kept = 0 BY DEF Init, Known, Idle
  <2> QED BY <2>1 DEF SummariesAnswer, Answers
<1>2. Typed /\ SummariesAnswer => NothingForgottenWhereKept BY BranchRemembers
<1> QED BY <1>1, <1>2, TypedInit, TypedNext, AnswersNext, PTL DEF Spec
=============================================================================
