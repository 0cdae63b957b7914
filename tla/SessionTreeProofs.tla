------------------------- MODULE SessionTreeProofs -------------------------
(***************************************************************************)
(* What holds of the session store whatever the bounds: its types, the     *)
(* damage a failed write may do, the tree's connectedness, and what a      *)
(* restart or a fork preserves.                                            *)
(***************************************************************************)
EXTENDS SessionTreePaths

LEMMA BoundsAreNat ==
    /\ MaxEntries \in Nat /\ MaxForks \in Nat /\ MaxFaults \in Nat
    /\ MaxLabels \in Nat /\ MaxMoves \in Nat
BY BoundsAssumption

-----------------------------------------------------------------------------
(* Types.  An entry points backwards, the compaction under way at entries   *)
(* that are there, and what is on disk is in the memory of a process.       *)

Entries == [type : Types, parent : Ids \cup {0}, ref : Ids \cup {0},
            covers : SUBSET Ids]

Backwards(e, r) ==
    /\ r \in Entries
    /\ r.parent \in 0 .. e - 1 /\ r.ref \in 0 .. e - 1
    /\ r.covers \subseteq 1 .. e - 1

Typed ==
    /\ DOMAIN log \subseteq Ids
    /\ \A e \in DOMAIN log : Backwards(e, log[e])
    /\ mem \subseteq DOMAIN log /\ disk \subseteq DOMAIN log
    /\ up => disk \subseteq mem
    /\ ~up => mem = {}
    /\ tail \in {"clean", "open", "torn"}
    /\ leaf \in Ids \cup {0} /\ (up => leaf \in mem \cup {0})
    /\ labels \subseteq Ids /\ sidecar \in Ids \cup {0}
    /\ up \in BOOLEAN /\ saved \in BOOLEAN
    /\ compacting \in [kept : Ids \cup {0}, covers : SUBSET Ids]
    /\ compacting.kept \in mem \cup {0}
    /\ compacting.covers \subseteq 1 .. Biggest(DOMAIN log)
    /\ tears \in Nat /\ tears <= faults /\ faults \in 0 .. MaxFaults
    /\ forks \in 0 .. MaxForks /\ moves \in 0 .. MaxMoves

LEMMA TypedImpliesTypeOK == Typed => TypeOK
BY BoundsAreNat DEF Typed, TypeOK, Backwards, Entries

LEMMA TypedInit == Init => Typed
<1> SUFFICES ASSUME Init PROVE Typed OBVIOUS
<1>1. DOMAIN log = {} BY DEF Init
<1> QED BY <1>1, BoundsAreNat DEF Init, Typed, Idle, Ids

\* The next id is new, and the greatest once it is used.
LEMMA NextIdIsNew ==
  ASSUME Typed
  PROVE  /\ NextId \in Nat /\ NextId >= 1
         /\ NextId = Biggest(DOMAIN log) + 1 /\ Biggest(DOMAIN log) \in Nat
         /\ NextId \notin DOMAIN log
         /\ \A e \in DOMAIN log : e \in 1 .. NextId - 1
<1>1. DOMAIN log \in SUBSET (1 .. MaxEntries) BY DEF Typed, Ids
<1>2. /\ Biggest(DOMAIN log) \in 0 .. MaxEntries
      /\ \A y \in DOMAIN log : Biggest(DOMAIN log) >= y
  BY <1>1, BiggestId, BoundsAreNat
<1> HIDE DEF Biggest
<1>3. NextId = Biggest(DOMAIN log) + 1 BY DEF NextId
<1>4. \A e \in DOMAIN log : e \in Nat /\ e >= 1 BY <1>1
<1> QED BY <1>2, <1>3, <1>4

\* An append leaves the old entries as they are and adds one.
LEMMA AppendedLog ==
  ASSUME Typed, NEW entry, NEW how \in Outcomes, Append(entry, how)
  PROVE  /\ DOMAIN log' = DOMAIN log \cup {NextId}
         /\ \A e \in DOMAIN log : log'[e] = log[e]
         /\ log'[NextId] = entry
         /\ NextId \in Ids
         /\ Biggest(DOMAIN log') = NextId
<1>1. /\ DOMAIN log' = DOMAIN log \cup {NextId}
      /\ \A e \in DOMAIN log' : log'[e] = IF e = NextId THEN entry ELSE log[e]
  BY DEF Append
<1>2. NextId \in Ids
  BY NextIdIsNew, BoundsAreNat DEF Append, Typed, Ids
<1>3. Biggest(DOMAIN log') = NextId
  <2>1. DOMAIN log' \in SUBSET (1 .. MaxEntries) BY <1>1, <1>2 DEF Typed, Ids
  <2>2. \A y \in DOMAIN log' : NextId >= y BY <1>1, NextIdIsNew
  <2> QED BY <1>1, <2>1, <2>2, BiggestUnique, BoundsAreNat
<1> QED BY <1>1, <1>2, <1>3, NextIdIsNew

\* What is written to disk by an append is old or is the new entry.
LEMMA LineWrites ==
  ASSUME NEW id, NEW how \in Outcomes, tail \in {"clean", "open", "torn"}, Line(id, how)
  PROVE  /\ disk' \subseteq disk \cup {id}
         /\ tail' \in {"clean", "open", "torn"}
BY DEF Line, Outcomes

\* Every step that appends keeps the types of what it changes.
LEMMA TypedAppend ==
  ASSUME Typed, NEW entry, NEW how \in Outcomes, Append(entry, how),
         Backwards(NextId, entry),
         labels' \subseteq Ids,
         moves' \in 0 .. MaxMoves,
         compacting' \in {compacting, Idle}
  PROVE  Typed'
<1> USE DEF Typed
<1>1. /\ DOMAIN log' = DOMAIN log \cup {NextId}
      /\ \A e \in DOMAIN log : log'[e] = log[e]
      /\ log'[NextId] = entry
      /\ NextId \in Ids
      /\ Biggest(DOMAIN log') = NextId
  BY AppendedLog
<1>2. \A e \in DOMAIN log' : Backwards(e, log'[e])
  BY <1>1
<1>3. /\ mem' = mem \cup {NextId} /\ leaf' = NextId /\ up' = up /\ up
      /\ sidecar' \in {NextId, sidecar}
      /\ forks' = forks
      /\ Line(NextId, how)
  BY DEF Append
<1>4. disk' \subseteq disk \cup {NextId} /\ tail' \in {"clean", "open", "torn"}
  BY <1>3, LineWrites
<1>5. compacting' \in [kept : Ids \cup {0}, covers : SUBSET Ids]
  BY BoundsAreNat DEF Idle, Ids
<1>6. compacting'.kept \in mem' \cup {0}
  BY <1>3 DEF Idle
<1>7. compacting'.covers \subseteq 1 .. Biggest(DOMAIN log')
  <2>1. NextId = Biggest(DOMAIN log) + 1 /\ Biggest(DOMAIN log) \in Nat BY NextIdIsNew
  <2>2. 1 .. Biggest(DOMAIN log) \subseteq 1 .. NextId BY <2>1
  <2> QED BY <1>1, <2>2 DEF Idle
<1>8. faults' \in 0 .. MaxFaults /\ tears' \in Nat /\ tears' <= faults' /\ saved' \in BOOLEAN
  <2>1. Fault(how) /\ tears' = IF Done(how) THEN tears ELSE tears + 1 BY DEF Append
  <2>2. CASE how = "whole" BY <2>1, <2>2 DEF Fault, Done
  <2>3. CASE how # "whole"
    <3>1. faults + 1 <= MaxFaults /\ faults' = faults + 1 /\ saved' = FALSE
      BY <2>1, <2>3 DEF Fault
    <3>2. tears' = tears \/ tears' = tears + 1 BY <2>1
    <3>3. faults \in Nat /\ tears \in Nat /\ tears <= faults BY BoundsAreNat
    <3> HIDE DEF Typed
    <3>4. saved' \in BOOLEAN BY <3>1
    <3>5. faults' \in 0 .. MaxFaults BY <3>1, <3>3, BoundsAreNat
    <3>6. tears' \in Nat /\ tears' <= faults' BY <3>1, <3>2, <3>3
    <3> QED BY <3>4, <3>5, <3>6
  <2> QED BY <2>2, <2>3
<1> QED BY <1>1, <1>2, <1>3, <1>4, <1>5, <1>6, <1>7, <1>8

\* An entry that appends below the leaf, or below a known entry, points back.
LEMMA NewEntry ==
  ASSUME Typed, NEW type \in Types, NEW parent \in mem \cup {0}, NEW ref \in mem \cup {0}
  PROVE  Backwards(NextId, Entry(type, parent, ref))
<1>1. /\ NextId \in Nat /\ NextId >= 1
      /\ \A e \in DOMAIN log : e \in 1 .. NextId - 1
  BY NextIdIsNew
<1>2. parent \in 0 .. NextId - 1 /\ ref \in 0 .. NextId - 1
  BY <1>1 DEF Typed
<1>3. parent \in Ids \cup {0} /\ ref \in Ids \cup {0} BY DEF Typed
<1> QED BY <1>2, <1>3 DEF Backwards, Entries, Entry

-----------------------------------------------------------------------------
(* The log of a fork: what is kept of the branch, and a new entry for every *)
(* label that holds there.                                                  *)

Kept(path) == {e \in path : ~Marks(e)}
Named(path) == Labelled(disk) \cap Kept(path)
Place(path, t) == Biggest(DOMAIN log) + UpTo(Named(path), t)

LEMMA Places ==
  ASSUME Typed, NEW path \in SUBSET disk
  PROVE  /\ \A t \in Named(path) : /\ Place(path, t) \in 1 .. MaxEntries + MaxEntries
                                   /\ Place(path, t) > Biggest(DOMAIN log)
         /\ \A t, u \in Named(path) : Place(path, t) = Place(path, u) => t = u
         /\ \A t \in Named(path) :
              \/ Place(path, t) = Biggest(DOMAIN log) + 1
              \/ \E u \in Named(path) : Place(path, u) = Place(path, t) - 1
<1> DEFINE S == Named(path)
<1>1. S \in SUBSET (1 .. MaxEntries) BY DEF Named, Labelled, Ids
<1>2. Biggest(DOMAIN log) \in 0 .. MaxEntries
  <2>1. DOMAIN log \in SUBSET (1 .. MaxEntries) BY DEF Typed, Ids
  <2> QED BY <2>1, BiggestId, BoundsAreNat
<1> HIDE DEF S
<1>3. /\ \A t \in S : UpTo(S, t) \in 1 .. MaxEntries
      /\ \A t, u \in S : UpTo(S, t) = UpTo(S, u) => t = u
      /\ \A t \in S : UpTo(S, t) > 1 => \E u \in S : UpTo(S, u) = UpTo(S, t) - 1
  BY <1>1, BoundsAreNat, Numbering
<1>4. \A t : Place(path, t) = Biggest(DOMAIN log) + UpTo(S, t) BY DEF Place, S
<1>5. \A t \in S : UpTo(S, t) = 1 \/ UpTo(S, t) > 1 BY <1>3
<1>6. \A t \in S : /\ Place(path, t) \in 1 .. MaxEntries + MaxEntries
                   /\ Place(path, t) > Biggest(DOMAIN log)
  BY <1>2, <1>3, <1>4, BoundsAreNat
<1>7. \A t, u \in S : Place(path, t) = Place(path, u) => t = u
  BY <1>2, <1>3, <1>4
<1>8. \A t \in S : \/ Place(path, t) = Biggest(DOMAIN log) + 1
                   \/ \E u \in S : Place(path, u) = Place(path, t) - 1
  <2> TAKE t \in S
  <2>1. CASE UpTo(S, t) > 1
    <3>1. PICK u \in S : UpTo(S, u) = UpTo(S, t) - 1 BY <1>3, <2>1
    <3>2. Place(path, u) = Place(path, t) - 1 BY <1>2, <1>3, <1>4, <3>1
    <3> QED BY <3>2
  <2> QED BY <1>4, <1>5, <2>1
<1> QED BY <1>6, <1>7, <1>8 DEF S

LEMMA RechainedLog ==
  ASSUME Typed, NEW path \in SUBSET disk
  PROVE  /\ DOMAIN Rechained(path) = Kept(path) \cup {Place(path, t) : t \in Named(path)}
         /\ \A e \in Kept(path) :
              Rechained(path)[e] =
                [log[e] EXCEPT !.parent = Biggest({k \in Kept(path) : k < e})]
         /\ \A t \in Named(path) :
              Rechained(path)[Place(path, t)] =
                Entry("label", IF Place(path, t) = Biggest(DOMAIN log) + 1
                               THEN Biggest(Kept(path)) ELSE Place(path, t) - 1, t)
<1> DEFINE n == Biggest(DOMAIN log)
           K == Kept(path)
           S == Named(path)
           R == [e \in K \cup {Place(path, t) : t \in S} |->
                  IF e <= n
                  THEN [log[e] EXCEPT !.parent = Biggest({k \in K : k < e})]
                  ELSE Entry("label", IF e = n + 1 THEN Biggest(K) ELSE e - 1,
                             CHOOSE t \in S : Place(path, t) = e)]
<1>1. Rechained(path) = R
  BY DEF Rechained, Kept, Named, Place, UpTo
<1>2. \A e \in K : e <= n
  <2>1. \A e \in DOMAIN log : e <= n BY NextIdIsNew
  <2> QED BY <2>1 DEF Kept, Typed
<1>3. ASSUME NEW t \in S
      PROVE  /\ ~(Place(path, t) <= n)
             /\ (CHOOSE u \in S : Place(path, u) = Place(path, t)) = t
  <2>1. Place(path, t) \in Nat /\ Place(path, t) > n /\ n \in Nat
    BY Places, NextIdIsNew
  <2>2. \A u \in S : Place(path, u) = Place(path, t) => u = t BY Places
  <2> QED BY <2>1, <2>2
<1> HIDE DEF n, K, S
<1>4. DOMAIN R = K \cup {Place(path, t) : t \in S} OBVIOUS
<1>5. \A e \in K : R[e] = [log[e] EXCEPT !.parent = Biggest({k \in K : k < e})]
  BY <1>2
<1>6. \A t \in S : R[Place(path, t)] =
                Entry("label", IF Place(path, t) = n + 1
                               THEN Biggest(K) ELSE Place(path, t) - 1, t)
  BY <1>3
<1> QED BY <1>1, <1>4, <1>5, <1>6 DEF n, K, S

\* The entries of a fork point backwards.
LEMMA RechainedTyped ==
  ASSUME Typed, NEW path \in SUBSET disk,
         Biggest(DOMAIN Rechained(path)) <= MaxEntries
  PROVE  /\ DOMAIN Rechained(path) \subseteq Ids
         /\ \A e \in DOMAIN Rechained(path) : Backwards(e, Rechained(path)[e])
<1> DEFINE n == Biggest(DOMAIN log)
           K == Kept(path)
           S == Named(path)
           R == Rechained(path)
<1>1. MaxEntries \in Nat BY BoundsAreNat
<1>2. K \in SUBSET (1 .. MaxEntries) /\ S \subseteq K /\ K \subseteq DOMAIN log
  BY DEF Kept, Named, Typed, Ids
<1>3. n \in Nat /\ \A e \in K : e <= n
  <2>1. \A e \in DOMAIN log : e <= n BY NextIdIsNew
  <2> QED BY <1>2, <2>1, NextIdIsNew
<1>4. \A t \in S : Place(path, t) \in 1 .. MaxEntries + MaxEntries /\ Place(path, t) > n
  BY Places
<1>5. DOMAIN R = K \cup {Place(path, t) : t \in S} BY RechainedLog
<1>6. DOMAIN R \in SUBSET (1 .. MaxEntries + MaxEntries)
  <2>1. \A e \in K : e \in 1 .. MaxEntries + MaxEntries BY <1>1, <1>2
  <2> HIDE DEF n, K, S, R
  <2>2. \A e \in DOMAIN R : e \in 1 .. MaxEntries + MaxEntries BY <1>4, <1>5, <2>1
  <2> QED BY <2>2
<1>7. \A e \in DOMAIN R : e <= MaxEntries
  <2>1. \A e \in DOMAIN R : Biggest(DOMAIN R) >= e /\ Biggest(DOMAIN R) \in Nat
    BY <1>1, <1>6, BiggestId
  <2>2. \A e \in DOMAIN R : e \in Nat BY <1>6
  <2> QED BY <1>1, <2>1, <2>2
<1>8. DOMAIN R \subseteq Ids BY <1>1, <1>6, <1>7 DEF Ids
<1>9. ASSUME NEW e \in K PROVE Backwards(e, R[e])
  <2>1. R[e] = [log[e] EXCEPT !.parent = Biggest({k \in K : k < e})] BY RechainedLog
  <2>2. Backwards(e, log[e]) /\ e \in Ids BY <1>2 DEF Typed
  <2>3. Biggest({k \in K : k < e}) \in 0 .. e - 1
    <3>1. e \in 1 .. MaxEntries BY <1>2
    <3>2. {k \in K : k < e} \in SUBSET (1 .. e - 1) BY <1>2, <3>1
    <3> QED BY <3>1, <3>2, BiggestId
  <2>4. Biggest({k \in K : k < e}) \in Ids \cup {0} BY <1>1, <2>2, <2>3 DEF Ids
  <2> QED BY <2>1, <2>2, <2>3, <2>4 DEF Backwards, Entries
<1>10. ASSUME NEW t \in S PROVE Backwards(Place(path, t), R[Place(path, t)])
  <2> DEFINE e == Place(path, t)
             p == IF e = n + 1 THEN Biggest(K) ELSE e - 1
  <2>1. R[e] = Entry("label", p, t) BY RechainedLog
  <2>2. e \in Ids /\ e \in Nat /\ e > n BY <1>4, <1>5, <1>8
  <2>3. K \in SUBSET (1 .. n) BY <1>2, <1>3
  <2>4. Biggest(K) \in 0 .. n BY <1>3, <2>3, BiggestId
  <2>5. t \in 1 .. n BY <1>2, <2>3
  <2> HIDE DEF e, n, K, S
  <2>6. p \in 0 .. e - 1 /\ t \in 0 .. e - 1 BY <1>3, <2>2, <2>4, <2>5
  <2>7. p \in Ids \cup {0} /\ t \in Ids \cup {0} BY <1>1, <2>2, <2>6 DEF Ids
  <2> QED BY <2>1, <2>6, <2>7 DEF Backwards, Entries, Entry, Types, e
<1> QED BY <1>5, <1>8, <1>9, <1>10

-----------------------------------------------------------------------------
(* Every step keeps the types.                                              *)

LEMMA TreesAreOrdered ==
  ASSUME Typed
  PROVE  /\ Ordered(log, mem) /\ Ordered(log, disk)
         /\ up => leaf \in 0 .. MaxEntries
         /\ Path(log, disk, 0) = {}
BY PathEquation, BoundsAreNat DEF Typed, Ordered, Backwards, Ids

\* A cut keeps an entry of the branch, at or after where the summary starts.
LEMMA CutIsOnPath ==
  ASSUME NEW path \in SUBSET Nat, NEW cut \in path, cut >= BoundaryStart(path)
  PROVE  /\ FirstKept(path, cut) \in path
         /\ FirstKept(path, cut) >= BoundaryStart(path)
         /\ FirstKept(path, cut) <= cut
<1> DEFINE invisible(e) == ~Visible(e) /\ log[e].type # "compaction"
           S == {k \in path : /\ BoundaryStart(path) <= k /\ k <= cut
                              /\ \A e \in path : k <= e /\ e < cut => invisible(e)}
<1>1. cut \in S
  <2>1. \A e \in path : ~(cut <= e /\ e < cut) OBVIOUS
  <2> QED BY <2>1
<1>2. S \in SUBSET Nat OBVIOUS
<1>3. FirstKept(path, cut) = Min(S) BY DEF FirstKept
<1> HIDE DEF S
<1>4. Min(S) \in S /\ \A y \in S : Min(S) <= y BY <1>1, <1>2, MinIsLeast
<1> QED BY <1>1, <1>3, <1>4 DEF S

LEMMA TypedPrepare == Typed /\ PrepareCompaction => Typed'
<1> SUFFICES ASSUME Typed, PrepareCompaction PROVE Typed' OBVIOUS
<1> DEFINE path == Path(log, mem, leaf)
           last == Biggest(Compactions(path))
<1>1. up /\ path \subseteq mem /\ path \in SUBSET (1 .. MaxEntries)
  <2>1. up BY DEF PrepareCompaction
  <2>2. Path(log, mem, leaf) \subseteq mem BY <2>1, TreesAreOrdered, PathWithin
  <2>3. mem \subseteq 1 .. MaxEntries BY DEF Typed, Ids
  <2> QED BY <2>1, <2>2, <2>3
<1>2. PICK cut \in path :
        /\ cut >= BoundaryStart(path)
        /\ compacting' = [kept |-> FirstKept(path, cut),
                          covers |-> Summarised(path, FirstKept(path, cut))
                             \cup (IF last > 0 THEN log[last].covers ELSE {})]
  BY DEF PrepareCompaction
<1>3. UNCHANGED <<log, mem, disk, tail, leaf, labels, sidecar, up, saved,
                  tears, faults, forks, moves>>
  BY DEF PrepareCompaction
<1>4. FirstKept(path, cut) \in path
  <2>1. path \in SUBSET Nat BY <1>1
  <2> HIDE DEF path
  <2> QED BY <1>2, <2>1, CutIsOnPath
<1>5. last > 0 => last \in DOMAIN log
  <2>1. Compactions(path) \in SUBSET (1 .. MaxEntries) BY <1>1 DEF Compactions
  <2>2. last > 0 => last \in Compactions(path) BY <2>1, BiggestId, BoundsAreNat
  <2> QED BY <1>1, <2>2 DEF Compactions, Typed
<1>6. \A e \in DOMAIN log : e \in 1 .. Biggest(DOMAIN log)
  BY NextIdIsNew
<1>7. Summarised(path, FirstKept(path, cut)) \subseteq 1 .. Biggest(DOMAIN log)
  BY <1>1, <1>6 DEF Summarised, Typed
<1>8. last > 0 => log[last].covers \subseteq 1 .. Biggest(DOMAIN log)
  <2> SUFFICES ASSUME last > 0
               PROVE  log[last].covers \subseteq 1 .. Biggest(DOMAIN log)
    OBVIOUS
  <2> HIDE DEF last
  <2>1. last \in 1 .. Biggest(DOMAIN log) /\ Biggest(DOMAIN log) \in Nat
    BY <1>5, <1>6, NextIdIsNew
  <2>2. log[last].covers \subseteq 1 .. last - 1 BY <1>5 DEF Typed, Backwards
  <2> QED BY <2>1, <2>2
<1>9. 1 .. Biggest(DOMAIN log) \subseteq Ids
  <2>1. DOMAIN log \in SUBSET (1 .. MaxEntries) BY DEF Typed, Ids
  <2>2. Biggest(DOMAIN log) \in 0 .. MaxEntries BY <2>1, BiggestId, BoundsAreNat
  <2> QED BY <2>2, BoundsAreNat DEF Ids
<1> HIDE DEF path, last
<1>10. /\ compacting' \in [kept : Ids \cup {0}, covers : SUBSET Ids]
       /\ compacting'.kept \in mem
       /\ compacting'.covers \subseteq 1 .. Biggest(DOMAIN log)
  BY <1>1, <1>2, <1>4, <1>7, <1>8, <1>9 DEF Typed
<1> QED BY <1>3, <1>10 DEF Typed

\* What Fork reads of the file, and what it gives the session.
LEMMA ForkedBranch ==
  ASSUME Typed, NEW target \in Ids \cup {0}, NEW how \in Outcomes, Fork(target, how)
  PROVE  /\ Path(log, disk, target) \in SUBSET disk
         /\ log' = Rechained(Path(log, disk, target))
         /\ Biggest(DOMAIN log') <= MaxEntries
         /\ DOMAIN log' \subseteq Ids
         /\ \A e \in DOMAIN log' : Backwards(e, log'[e])
         /\ mem' = DOMAIN log' /\ disk' = DOMAIN log'
<1> DEFINE path == Path(log, disk, target)
<1>1. path \in SUBSET disk
  <2>1. target \in 0 .. MaxEntries BY BoundsAreNat DEF Ids
  <2> QED BY <2>1, TreesAreOrdered, PathWithin
<1>2. /\ log' = Rechained(path) /\ mem' = DOMAIN log' /\ disk' = DOMAIN log'
      /\ Biggest(DOMAIN Rechained(path)) + faults + moves <= MaxEntries
  BY DEF Fork
<1>3. Biggest(DOMAIN Rechained(path)) \in Nat
  <2> HIDE DEF path
  <2>1. \A t \in Named(path) : Place(path, t) \in 1 .. MaxEntries + MaxEntries
    BY <1>1, Places
  <2>2. Kept(path) \subseteq 1 .. MaxEntries BY <1>1 DEF Kept, Typed, Ids
  <2>3. \A e \in DOMAIN Rechained(path) : e \in 1 .. MaxEntries + MaxEntries
    <3>1. DOMAIN Rechained(path) = Kept(path) \cup {Place(path, t) : t \in Named(path)}
      BY <1>1, RechainedLog
    <3> QED BY <2>1, <2>2, <3>1, BoundsAreNat
  <2>4. DOMAIN Rechained(path) \in SUBSET (1 .. MaxEntries + MaxEntries) BY <2>3
  <2> QED BY <2>4, BiggestId, BoundsAreNat
<1> HIDE DEF path
<1>4. Biggest(DOMAIN Rechained(path)) <= MaxEntries
  BY <1>2, <1>3, BoundsAreNat DEF Typed
<1>5. /\ DOMAIN Rechained(path) \subseteq Ids
      /\ \A e \in DOMAIN Rechained(path) : Backwards(e, Rechained(path)[e])
  BY <1>1, <1>4, RechainedTyped
<1> QED BY <1>1, <1>2, <1>4, <1>5 DEF path

LEMMA FaultTyped ==
  ASSUME Typed, NEW how \in Outcomes, Fault(how)
  PROVE  faults' \in 0 .. MaxFaults /\ faults <= faults' /\ saved' \in BOOLEAN
BY BoundsAreNat DEF Typed, Fault

LEMMA TypedFork ==
  ASSUME Typed, NEW target \in Ids \cup {0}, NEW how \in Outcomes, Fork(target, how)
  PROVE  Typed'
<1>1. /\ DOMAIN log' \subseteq Ids
      /\ \A e \in DOMAIN log' : Backwards(e, log'[e])
      /\ mem' = DOMAIN log' /\ disk' = DOMAIN log'
  BY ForkedBranch
<1>2. /\ leaf' \in DOMAIN log' \cup {0} /\ leaf' = Biggest(DOMAIN log')
      /\ Biggest(DOMAIN log') \in Nat
  <2>1. DOMAIN log' \in SUBSET (1 .. MaxEntries) BY <1>1 DEF Ids
  <2>2. leaf' = Biggest(DOMAIN log') BY DEF Fork
  <2> QED BY <2>1, <2>2, BiggestId, BoundsAreNat
<1>3. labels' \subseteq Ids
  <2>1. labels' = {log'[e].ref : e \in {d \in DOMAIN log' : log'[d].type = "label"}}
    BY DEF Fork
  <2> DEFINE path == Path(log, disk, target)
  <2>2. path \in SUBSET disk /\ log' = Rechained(path) BY ForkedBranch
  <2> HIDE DEF path
  <2>3. /\ DOMAIN log' = Kept(path) \cup {Place(path, t) : t \in Named(path)}
        /\ \A e \in Kept(path) :
             log'[e] = [log[e] EXCEPT !.parent = Biggest({k \in Kept(path) : k < e})]
        /\ \A t \in Named(path) : log'[Place(path, t)].ref = t
    <3>1. \A type, p, t : Entry(type, p, t).ref = t BY DEF Entry
    <3>2. path \in SUBSET disk BY <2>2
    <3>3. /\ DOMAIN Rechained(path) = Kept(path) \cup {Place(path, t) : t \in Named(path)}
          /\ \A e \in Kept(path) : Rechained(path)[e] =
               [log[e] EXCEPT !.parent = Biggest({k \in Kept(path) : k < e})]
      BY <3>2, RechainedLog
    <3>4. \A t \in Named(path) : Rechained(path)[Place(path, t)].ref = t
      <4> TAKE t \in Named(path)
      <4>1. Rechained(path)[Place(path, t)] =
              Entry("label", IF Place(path, t) = Biggest(DOMAIN log) + 1
                             THEN Biggest(Kept(path)) ELSE Place(path, t) - 1, t)
        BY <3>2, RechainedLog
      <4> QED BY <3>1, <4>1
    <3> QED BY <2>2, <3>3, <3>4
  <2>4. ASSUME NEW d \in DOMAIN log', log'[d].type = "label" PROVE log'[d].ref \in Ids
    <3>1. CASE d \in Kept(path)
      <4>1. d \in DOMAIN log /\ ~Marks(d) BY <2>2, <3>1 DEF Kept, Typed
      <4>2. log'[d].type = log[d].type
        BY <2>3, <3>1, <4>1 DEF Typed, Backwards, Entries
      <4> QED BY <2>4, <4>1, <4>2 DEF Marks
    <3>2. CASE \E t \in Named(path) : d = Place(path, t)
      BY <2>3, <3>2 DEF Named, Labelled
    <3> QED BY <2>3, <3>1, <3>2
  <2> QED BY <2>1, <2>4
<1>4. up /\ up' = up /\ tail' = "clean" /\ compacting' = Idle
      /\ sidecar' \in {leaf', 0} /\ tears' = tears /\ moves' = moves
      /\ forks' = forks + 1 /\ forks < MaxForks
  BY DEF Fork
<1>5. faults' \in 0 .. MaxFaults /\ faults <= faults' /\ saved' \in BOOLEAN
  BY FaultTyped DEF Fork
<1>6. tears' \in Nat /\ tears' <= faults'
  BY <1>4, <1>5, BoundsAreNat DEF Typed
<1>7. forks' \in 0 .. MaxForks BY <1>4, BoundsAreNat DEF Typed
<1>8. compacting' \in [kept : Ids \cup {0}, covers : SUBSET Ids] BY <1>4 DEF Idle
<1>9. compacting'.kept = 0 /\ compacting'.covers = {} BY <1>4 DEF Idle
<1>10. leaf' \in Ids \cup {0} /\ sidecar' \in Ids \cup {0} BY <1>1, <1>2, <1>4
<1> QED BY <1>1, <1>2, <1>3, <1>4, <1>5, <1>6, <1>7, <1>8, <1>9, <1>10 DEF Typed

LEMMA TypedAppends ==
  ASSUME Typed, NEW how \in Outcomes,
         \/ AppendMessage(how)
         \/ AppendCompaction(how)
         \/ \E e \in Ids : AppendLabelChange(e, how)
         \/ \E e \in Ids \cup {0} : BranchWithSummary(e, how)
  PROVE  Typed'
<1>1. leaf \in Ids \cup {0} /\ (up => leaf \in mem \cup {0}) /\ labels \subseteq Ids
      /\ moves \in 0 .. MaxMoves /\ compacting.kept \in mem \cup {0}
  BY DEF Typed
<1>2. \A entry : Append(entry, how) => up BY DEF Append
<1>3. CASE AppendMessage(how)
  <2>1. /\ Append(Entry("message", leaf, 0), how)
        /\ UNCHANGED <<labels, compacting, moves>>
    BY <1>3 DEF AppendMessage
  <2>2. Backwards(NextId, Entry("message", leaf, 0))
    BY <1>1, <1>2, <2>1, NewEntry DEF Types
  <2> QED BY <1>1, <2>1, <2>2, TypedAppend
<1>4. CASE AppendCompaction(how)
  <2> DEFINE entry == [Entry("compaction", leaf, compacting.kept)
                         EXCEPT !.covers = compacting.covers]
  <2>1. Append(entry, how) /\ compacting' = Idle /\ UNCHANGED <<labels, moves>>
    BY <1>4 DEF AppendCompaction
  <2>2. Backwards(NextId, Entry("compaction", leaf, compacting.kept))
    BY <1>1, <1>2, <2>1, NewEntry DEF Types
  <2>3. compacting.covers \subseteq 1 .. NextId - 1 /\ compacting.covers \subseteq Ids
    <3>1. NextId - 1 = Biggest(DOMAIN log) BY NextIdIsNew
    <3> QED BY <3>1 DEF Typed
  <2>4. Backwards(NextId, entry) BY <2>2, <2>3 DEF Backwards, Entries, Entry
  <2> HIDE DEF entry
  <2> QED BY <1>1, <2>1, <2>4, TypedAppend
<1>5. ASSUME NEW e \in Ids, AppendLabelChange(e, how) PROVE Typed'
  <2>1. /\ e \in mem
        /\ Append(Entry(IF e \in labels THEN "unlabel" ELSE "label", leaf, e), how)
        /\ labels' \subseteq labels \cup {e}
        /\ UNCHANGED <<compacting, moves>>
    BY <1>5 DEF AppendLabelChange
  <2>2. Backwards(NextId, Entry(IF e \in labels THEN "unlabel" ELSE "label", leaf, e))
    BY <1>1, <1>2, <2>1, NewEntry DEF Types
  <2> QED BY <1>1, <2>1, <2>2, TypedAppend
<1>6. ASSUME NEW to \in Ids \cup {0}, BranchWithSummary(to, how) PROVE Typed'
  <2>1. /\ to \in mem \cup {0} /\ Append(Entry("summary", to, 0), how)
        /\ moves < MaxMoves /\ moves' = moves + 1
        /\ UNCHANGED <<labels, compacting>>
    BY <1>6 DEF BranchWithSummary, Moves
  <2>2. Backwards(NextId, Entry("summary", to, 0)) BY <2>1, NewEntry DEF Types
  <2>3. moves' \in 0 .. MaxMoves BY <1>1, <2>1, BoundsAreNat
  <2> QED BY <1>1, <2>1, <2>2, <2>3, TypedAppend
<1> QED BY <1>3, <1>4, <1>5, <1>6

LEMMA TypedMove ==
  ASSUME Typed, NEW how \in Outcomes, NEW to \in mem \cup {0}, MoveLeaf(to, how)
  PROVE  Typed'
<1>1. /\ up /\ leaf' = to /\ sidecar' \in {to, sidecar}
      /\ moves < MaxMoves /\ moves' = moves + 1
      /\ UNCHANGED <<log, mem, disk, tail, labels, up, compacting, tears, forks>>
  BY DEF MoveLeaf, Moves
<1>2. faults' \in 0 .. MaxFaults /\ faults <= faults' /\ saved' \in BOOLEAN
  BY FaultTyped DEF MoveLeaf
<1>3. moves' \in 0 .. MaxMoves BY <1>1, BoundsAreNat DEF Typed
<1>4. tears' \in Nat /\ tears' <= faults' BY <1>1, <1>2, BoundsAreNat DEF Typed
<1>5. to \in Ids \cup {0} BY DEF Typed
<1> QED BY <1>1, <1>2, <1>3, <1>4, <1>5 DEF Typed

\* What a process reads back: readable lines, hence known entries.
LEMMA TypedReopen == Typed /\ (Restart \/ ForkFrom) => Typed'
<1> SUFFICES ASSUME Typed, Restart \/ ForkFrom PROVE Typed' OBVIOUS
<1>1. Biggest(disk) \in disk \cup {0}
  <2>1. disk \in SUBSET (1 .. MaxEntries) BY DEF Typed, Ids
  <2> QED BY <2>1, BiggestId, BoundsAreNat
<1>2. /\ ~up /\ up' = TRUE /\ mem' = disk /\ leaf' \in disk \cup {0}
      /\ labels' \subseteq Ids /\ saved' = TRUE
      /\ tail' \in {tail, "clean"} /\ sidecar' \in {sidecar, 0}
      /\ UNCHANGED <<log, disk, compacting, tears, faults, moves>>
  BY <1>1 DEF Restart, ForkFrom, Labelled
<1>3. forks' \in 0 .. MaxForks BY BoundsAreNat DEF Typed, Restart, ForkFrom
<1>4. compacting.kept = 0 BY <1>2 DEF Typed
<1> QED BY <1>2, <1>3, <1>4 DEF Typed

LEMMA TypedNext == Typed /\ [Next]_vars => Typed'
<1> SUFFICES ASSUME Typed, [Next]_vars PROVE Typed' OBVIOUS
<1>1. ASSUME NEW how \in Outcomes, AppendMessage(how) PROVE Typed'
  BY <1>1, TypedAppends
<1>2. ASSUME NEW how \in Outcomes, AppendCompaction(how) PROVE Typed'
  BY <1>2, TypedAppends
<1>3. ASSUME NEW how \in Outcomes, NEW e \in Ids, AppendLabelChange(e, how) PROVE Typed'
  BY <1>3, TypedAppends
<1>4. ASSUME NEW how \in Outcomes, NEW e \in Ids \cup {0}, BranchWithSummary(e, how)
      PROVE  Typed'
  BY <1>4, TypedAppends
<1>5. ASSUME NEW how \in Outcomes, ResetLeaf(how) PROVE Typed'
  BY <1>5, TypedMove DEF ResetLeaf
<1>6. ASSUME NEW how \in Outcomes, NEW e \in Ids, Branch(e, how) PROVE Typed'
  BY <1>6, TypedMove DEF Branch
<1>7. ASSUME NEW how \in Outcomes, NEW e \in Ids \cup {0}, Fork(e, how) PROVE Typed'
  BY <1>7, TypedFork
<1>8. CASE PrepareCompaction BY <1>8, TypedPrepare
<1>9. CASE CompactionFails
  BY <1>9, BoundsAreNat DEF CompactionFails, Typed, Idle
<1>10. CASE Crash
  BY <1>10, BoundsAreNat DEF Crash, Typed, Idle
<1>11. CASE Restart \/ ForkFrom BY <1>11, TypedReopen
<1>12. CASE UNCHANGED vars BY <1>12 DEF vars, Typed
<1> QED BY <1>1, <1>2, <1>3, <1>4, <1>5, <1>6, <1>7, <1>8, <1>9, <1>10, <1>11, <1>12
        DEF Next

\* The types of the session store: memory, file, leaf and labels stay inside
\* the tree, and every entry points to earlier ones, through torn lines, forks,
\* restarts and compactions under way (session-manager.ts).
THEOREM TypeCorrect == Spec => []TypeOK
<1>1. Typed => TypeOK BY TypedImpliesTypeOK
<1> QED BY <1>1, TypedInit, TypedNext, PTL DEF Spec

-----------------------------------------------------------------------------
(* Damage.  Each failed append pays for two lines: its own, and the one     *)
(* that the end of the file may still cost.  At an open end that is the     *)
(* entry before it and the next one; inside a broken line, the next one.    *)

Owed == IF tail = "open" THEN 2 ELSE IF tail = "torn" THEN 1 ELSE 0

DamagePaid == Cardinality(Lost) + Owed <= 2 * tears

LEMMA LostIsFinite ==
  ASSUME Typed
  PROVE  IsFiniteSet(Lost) /\ Cardinality(Lost) \in Nat
<1>1. IsFiniteSet(1 .. MaxEntries) BY FS_Interval, BoundsAreNat
<1>2. Lost \in SUBSET (1 .. MaxEntries) BY DEF Typed, Lost, Ids
<1> QED BY <1>1, <1>2, FS_Subset, FS_CardinalityType

\* Adding up to two elements to a finite set adds at most two to its size.
LEMMA FewMore ==
  ASSUME NEW S, NEW T, NEW a, NEW b, IsFiniteSet(S), T \subseteq S \cup {a, b}
  PROVE  /\ IsFiniteSet(T) /\ Cardinality(T) \in Nat
         /\ Cardinality(T) <= Cardinality(S) + 2
         /\ T \subseteq S \cup {a} => Cardinality(T) <= Cardinality(S) + 1
         /\ T \subseteq S => Cardinality(T) <= Cardinality(S)
<1> DEFINE A == S \cup {a}
           B == A \cup {b}
<1>1. Cardinality(S) \in Nat BY FS_CardinalityType
<1>2. IsFiniteSet(A) /\ Cardinality(A) \in {Cardinality(S), Cardinality(S) + 1}
  BY FS_AddElement
<1> HIDE DEF A
<1>3. IsFiniteSet(B) /\ Cardinality(B) \in {Cardinality(A), Cardinality(A) + 1}
  BY <1>2, FS_AddElement
<1>4. T \in SUBSET B BY DEF A
<1>5. IsFiniteSet(T) /\ Cardinality(T) <= Cardinality(B) BY <1>3, <1>4, FS_Subset
<1>6. Cardinality(T) \in Nat BY <1>5, FS_CardinalityType
<1>7. T \subseteq S \cup {a} => Cardinality(T) <= Cardinality(A)
  BY <1>2, FS_Subset DEF A
<1>8. T \subseteq S => Cardinality(T) <= Cardinality(S) BY FS_Subset
<1> HIDE DEF B
<1> QED BY <1>1, <1>2, <1>3, <1>5, <1>6, <1>7, <1>8

LEMMA DamageAppend ==
  ASSUME Typed, DamagePaid, NEW entry, NEW how \in Outcomes, Append(entry, how)
  PROVE  DamagePaid'
<1> DEFINE last == Biggest(disk)
<1>1. /\ Line(NextId, how)
      /\ tears' = IF Done(how) THEN tears ELSE tears + 1
  BY DEF Append
<1>2. DOMAIN log' = DOMAIN log \cup {NextId} BY AppendedLog
<1>3. /\ tears \in Nat /\ Cardinality(Lost) \in Nat /\ IsFiniteSet(Lost)
      /\ tail \in {"clean", "open", "torn"} /\ disk \subseteq DOMAIN log
  BY LostIsFinite DEF Typed
<1>4. Lost' \subseteq Lost \cup {NextId, last}
  BY <1>1, <1>2, <1>3 DEF Line, Lost
<1>5. Cardinality(Lost)' = Cardinality(Lost') OBVIOUS
<1>6. /\ Cardinality(Lost') \in Nat
      /\ Cardinality(Lost') <= Cardinality(Lost) + 2
      /\ Lost' \subseteq Lost \cup {NextId} => Cardinality(Lost') <= Cardinality(Lost) + 1
      /\ Lost' \subseteq Lost => Cardinality(Lost') <= Cardinality(Lost)
  BY <1>3, <1>4, FewMore
<1>7. tail # "open" => Lost' \subseteq Lost \cup {NextId}
  BY <1>1, <1>2, <1>3 DEF Line, Lost
<1>8. tail = "clean" /\ how \notin {"nothing", "torn"} => Lost' \subseteq Lost
  BY <1>1, <1>2, <1>3 DEF Line, Lost
<1>9. how = "nothing" => tail' = tail /\ Lost' \subseteq Lost \cup {NextId}
  BY <1>1, <1>2, <1>3 DEF Line, Lost
<1>10. how = "torn" => tail' = "torn" BY <1>1 DEF Line
<1>11. how = "open" => tail' = IF tail = "clean" THEN "open" ELSE "torn"
  BY <1>1 DEF Line
<1>12. Done(how) => tail' = "clean" BY <1>1 DEF Line, Done
<1>13. how \in {"nothing", "torn", "open"} \/ Done(how) BY DEF Outcomes, Done
<1>14. how \in {"nothing", "torn", "open"} => ~Done(how) BY DEF Done
<1>15. DamagePaid <=> Cardinality(Lost) + Owed <= 2 * tears BY DEF DamagePaid
<1>16. DamagePaid' <=> Cardinality(Lost') + Owed' <= 2 * tears' BY DEF DamagePaid
<1> HIDE DEF last
<1>17. CASE how = "nothing"
  BY <1>1, <1>3, <1>6, <1>9, <1>14, <1>15, <1>16, <1>17 DEF Owed
<1>18. CASE how = "torn"
  BY <1>1, <1>3, <1>6, <1>7, <1>10, <1>14, <1>15, <1>16, <1>18 DEF Owed
<1>19. CASE how = "open"
  BY <1>1, <1>3, <1>6, <1>7, <1>8, <1>11, <1>14, <1>15, <1>16, <1>19 DEF Owed
<1>20. CASE Done(how)
  BY <1>1, <1>3, <1>6, <1>7, <1>8, <1>12, <1>14, <1>15, <1>16, <1>20 DEF Owed
<1> QED BY <1>13, <1>17, <1>18, <1>19, <1>20

LEMMA DamageInit == Init => DamagePaid
<1> SUFFICES ASSUME Init PROVE DamagePaid OBVIOUS
<1>1. Lost = {} /\ Owed = 0 /\ tears = 0 BY DEF Init, Lost, Owed
<1> QED BY <1>1, FS_EmptySet DEF DamagePaid

LEMMA DamageNext == Typed /\ DamagePaid /\ [Next]_vars => DamagePaid'
<1> SUFFICES ASSUME Typed, DamagePaid, [Next]_vars PROVE DamagePaid' OBVIOUS
<1>1. ASSUME UNCHANGED <<log, disk, tail, tears>> PROVE DamagePaid'
  BY <1>1 DEF DamagePaid, Lost, Owed
<1>2. ASSUME NEW how \in Outcomes, NEW entry, Append(entry, how) PROVE DamagePaid'
  BY <1>2, DamageAppend
<1>3. ASSUME NEW how \in Outcomes, AppendMessage(how) PROVE DamagePaid'
  BY <1>2, <1>3 DEF AppendMessage
<1>4. ASSUME NEW how \in Outcomes, AppendCompaction(how) PROVE DamagePaid'
  BY <1>2, <1>4 DEF AppendCompaction
<1>5. ASSUME NEW how \in Outcomes, NEW e \in Ids, AppendLabelChange(e, how)
      PROVE  DamagePaid'
  BY <1>2, <1>5 DEF AppendLabelChange
<1>6. ASSUME NEW how \in Outcomes, NEW e \in Ids \cup {0}, BranchWithSummary(e, how)
      PROVE  DamagePaid'
  BY <1>2, <1>6 DEF BranchWithSummary
<1>7. ASSUME NEW how \in Outcomes, ResetLeaf(how) PROVE DamagePaid'
  BY <1>1, <1>7 DEF ResetLeaf, MoveLeaf
<1>8. ASSUME NEW how \in Outcomes, NEW e \in Ids, Branch(e, how) PROVE DamagePaid'
  BY <1>1, <1>8 DEF Branch, MoveLeaf
<1>9. ASSUME NEW how \in Outcomes, NEW e \in Ids \cup {0}, Fork(e, how)
      PROVE  DamagePaid'
  <2>1. disk' = DOMAIN log' /\ tail' = "clean" /\ tears' = tears BY <1>9 DEF Fork
  <2>2. Lost' = {} /\ Owed' = 0 BY <2>1 DEF Lost, Owed
  <2>3. Cardinality(Lost)' = 0 BY <2>2, FS_EmptySet
  <2>4. tears \in Nat BY DEF Typed
  <2> QED BY <2>1, <2>2, <2>3, <2>4 DEF DamagePaid
<1>10. CASE PrepareCompaction BY <1>1, <1>10 DEF PrepareCompaction
<1>11. CASE CompactionFails BY <1>1, <1>11 DEF CompactionFails
<1>12. CASE Crash BY <1>1, <1>12 DEF Crash
<1>13. CASE Restart BY <1>1, <1>13 DEF Restart
<1>14. CASE ForkFrom
  <2>1. UNCHANGED <<log, disk, tears>> /\ tail' = "clean" BY <1>14 DEF ForkFrom
  <2>2. Lost' = Lost /\ Owed' = 0 BY <2>1 DEF Lost, Owed
  <2>3. Cardinality(Lost) \in Nat /\ tears \in Nat BY LostIsFinite DEF Typed
  <2>4. Owed \in Nat BY DEF Owed
  <2> QED BY <2>1, <2>2, <2>3, <2>4 DEF DamagePaid
<1>15. CASE UNCHANGED vars BY <1>1, <1>15 DEF vars
<1> QED BY <1>3, <1>4, <1>5, <1>6, <1>7, <1>8, <1>9, <1>10, <1>11, <1>12, <1>13,
           <1>14, <1>15 DEF Next

\* A failed write costs at most two lines, whatever is appended, forked or
\* reopened after it (_persist, loadEntriesFromFile of session-manager.ts).
THEOREM DamageStaysBounded == Spec => []DamageBounded
<1>1. Typed /\ DamagePaid => DamageBounded
  <2> SUFFICES ASSUME Typed, DamagePaid PROVE DamageBounded OBVIOUS
  <2>1. Cardinality(Lost) \in Nat /\ tears \in Nat BY LostIsFinite DEF Typed
  <2>2. Owed \in Nat BY DEF Owed
  <2> QED BY <2>1, <2>2 DEF DamagePaid, DamageBounded
<1> QED BY <1>1, TypedInit, TypedNext, DamageInit, DamageNext, PTL DEF Spec

-----------------------------------------------------------------------------
(* Connectedness.  Every parent is an entry of the log, so that only a lost *)
(* line can be missing from what a process holds.                           *)

Connected == \A e \in DOMAIN log : log[e].parent \in DOMAIN log \cup {0}
HeldTogether == Connected /\ CutOnlyByDamage

LEMMA HeldAppend ==
  ASSUME Typed, HeldTogether, NEW entry, NEW how \in Outcomes, Append(entry, how),
         entry.parent \in mem \cup {0}
  PROVE  HeldTogether'
<1>1. /\ DOMAIN log' = DOMAIN log \cup {NextId}
      /\ \A e \in DOMAIN log : log'[e] = log[e]
      /\ log'[NextId] = entry
  BY AppendedLog
<1>2. NextId \notin DOMAIN log BY NextIdIsNew
<1>3. mem' = mem \cup {NextId} /\ disk' \subseteq disk \cup {NextId}
  BY LineWrites DEF Append, Typed
<1>4. Lost \subseteq Lost' BY <1>1, <1>2, <1>3 DEF Lost, Typed
<1>5. mem \subseteq DOMAIN log BY DEF Typed
<1>6. Connected' BY <1>1, <1>5 DEF Connected, HeldTogether
<1>7. \A e \in mem' : log'[e].parent \in mem' \cup Lost' \cup {0}
  BY <1>1, <1>3, <1>4, <1>5 DEF HeldTogether, CutOnlyByDamage
<1> QED BY <1>6, <1>7 DEF HeldTogether, CutOnlyByDamage

LEMMA HeldFork ==
  ASSUME Typed, NEW target \in Ids \cup {0}, NEW how \in Outcomes, Fork(target, how)
  PROVE  HeldTogether'
<1> DEFINE path == Path(log, disk, target)
<1>1. path \in SUBSET disk /\ log' = Rechained(path) /\ mem' = DOMAIN log'
  BY ForkedBranch
<1>2. Kept(path) \in SUBSET (1 .. MaxEntries) /\ Kept(path) \subseteq DOMAIN log
  BY <1>1 DEF Kept, Typed, Ids
<1> HIDE DEF path
<1>3. DOMAIN log' = Kept(path) \cup {Place(path, t) : t \in Named(path)}
  BY <1>1, RechainedLog
<1>4. ASSUME NEW e \in Kept(path) PROVE log'[e].parent \in DOMAIN log' \cup {0}
  <2>1. log'[e] = [log[e] EXCEPT !.parent = Biggest({k \in Kept(path) : k < e})]
    BY <1>1, RechainedLog
  <2>2. log[e] \in Entries BY <1>2 DEF Typed, Backwards
  <2>3. {k \in Kept(path) : k < e} \in SUBSET (1 .. MaxEntries) BY <1>2
  <2>4. Biggest({k \in Kept(path) : k < e}) \in Kept(path) \cup {0}
    BY <2>3, BiggestId, BoundsAreNat
  <2>5. log'[e].parent = Biggest({k \in Kept(path) : k < e}) BY <2>1, <2>2 DEF Entries
  <2> QED BY <1>3, <2>4, <2>5
<1>5. ASSUME NEW t \in Named(path)
      PROVE  log'[Place(path, t)].parent \in DOMAIN log' \cup {0}
  <2> DEFINE p == IF Place(path, t) = Biggest(DOMAIN log) + 1
                  THEN Biggest(Kept(path)) ELSE Place(path, t) - 1
  <2>1. log'[Place(path, t)] = Entry("label", p, t) BY <1>1, RechainedLog
  <2>2. Biggest(Kept(path)) \in Kept(path) \cup {0}
    BY <1>2, BiggestId, BoundsAreNat
  <2>3. \/ Place(path, t) = Biggest(DOMAIN log) + 1
        \/ \E u \in Named(path) : Place(path, u) = Place(path, t) - 1
    BY <1>1, Places
  <2>4. p \in DOMAIN log' \cup {0} BY <1>3, <2>2, <2>3
  <2> HIDE DEF p
  <2>5. log'[Place(path, t)].parent = p BY <2>1 DEF Entry
  <2> QED BY <2>4, <2>5
<1>6. Connected' BY <1>3, <1>4, <1>5 DEF Connected
<1>7. CutOnlyByDamage' BY <1>1, <1>6 DEF Connected, CutOnlyByDamage
<1> QED BY <1>6, <1>7 DEF HeldTogether

LEMMA HeldNext == Typed /\ HeldTogether /\ [Next]_vars => HeldTogether'
<1> SUFFICES ASSUME Typed, HeldTogether, [Next]_vars PROVE HeldTogether' OBVIOUS
<1>1. ASSUME UNCHANGED <<log, disk>>, mem' \in {mem, {}, disk} PROVE HeldTogether'
  <2>1. Connected' /\ Lost' = Lost BY <1>1 DEF HeldTogether, Connected, Lost
  <2>2. CASE mem' = mem
    BY <1>1, <2>1, <2>2 DEF HeldTogether, CutOnlyByDamage
  <2>3. CASE mem' = {}
    BY <2>1, <2>3 DEF HeldTogether, CutOnlyByDamage
  <2>4. CASE mem' = disk
    BY <1>1, <2>1, <2>4 DEF HeldTogether, CutOnlyByDamage, Connected, Lost, Typed
  <2> QED BY <1>1, <2>2, <2>3, <2>4
<1>2. ASSUME NEW how \in Outcomes, NEW entry, Append(entry, how),
             entry.parent \in mem \cup {0}
      PROVE  HeldTogether'
  BY <1>2, HeldAppend
<1>3. \A type, parent, ref : Entry(type, parent, ref).parent = parent
  BY DEF Entry
<1>4. up => leaf \in mem \cup {0} BY DEF Typed
<1>5. ASSUME NEW how \in Outcomes, AppendMessage(how) PROVE HeldTogether'
  BY <1>2, <1>3, <1>4, <1>5 DEF AppendMessage, Append
<1>6. ASSUME NEW how \in Outcomes, AppendCompaction(how) PROVE HeldTogether'
  <2> DEFINE entry == [Entry("compaction", leaf, compacting.kept)
                         EXCEPT !.covers = compacting.covers]
  <2>1. entry.parent = leaf BY DEF Entry
  <2>2. Append(entry, how) /\ up BY <1>6 DEF AppendCompaction, Append
  <2> HIDE DEF entry
  <2> QED BY <1>2, <1>4, <2>1, <2>2
<1>7. ASSUME NEW how \in Outcomes, NEW e \in Ids, AppendLabelChange(e, how)
      PROVE  HeldTogether'
  BY <1>2, <1>3, <1>4, <1>7 DEF AppendLabelChange, Append
<1>8. ASSUME NEW how \in Outcomes, NEW e \in Ids \cup {0}, BranchWithSummary(e, how)
      PROVE  HeldTogether'
  BY <1>2, <1>3, <1>8 DEF BranchWithSummary
<1>9. ASSUME NEW how \in Outcomes, ResetLeaf(how) PROVE HeldTogether'
  BY <1>1, <1>9 DEF ResetLeaf, MoveLeaf
<1>10. ASSUME NEW how \in Outcomes, NEW e \in Ids, Branch(e, how) PROVE HeldTogether'
  BY <1>1, <1>10 DEF Branch, MoveLeaf
<1>11. ASSUME NEW how \in Outcomes, NEW e \in Ids \cup {0}, Fork(e, how)
       PROVE  HeldTogether'
  BY <1>11, HeldFork
<1>12. CASE PrepareCompaction BY <1>1, <1>12 DEF PrepareCompaction
<1>13. CASE CompactionFails BY <1>1, <1>13 DEF CompactionFails
<1>14. CASE Crash BY <1>1, <1>14 DEF Crash
<1>15. CASE Restart BY <1>1, <1>15 DEF Restart
<1>16. CASE ForkFrom BY <1>1, <1>16 DEF ForkFrom
<1>17. CASE UNCHANGED vars BY <1>1, <1>17 DEF vars
<1> QED BY <1>5, <1>6, <1>7, <1>8, <1>9, <1>10, <1>11, <1>12, <1>13, <1>14, <1>15,
           <1>16, <1>17 DEF Next

\* No fork, restart or move cuts a conversation off from its beginning: a parent
\* is missing only where its line was lost (createBranchedSession).
THEOREM CutsOnlyByDamage == Spec => []CutOnlyByDamage
<1>1. Init => HeldTogether BY DEF Init, HeldTogether, Connected, CutOnlyByDamage
<1>2. HeldTogether => CutOnlyByDamage BY DEF HeldTogether
<1> QED BY <1>1, <1>2, TypedInit, TypedNext, HeldNext, PTL DEF Spec

-----------------------------------------------------------------------------
(* The leaf.  When the last change of the leaf met no fault, the sidecar    *)
(* names the leaf, or names nothing that is in the file while the leaf is   *)
(* its last entry: either way a restart finds the leaf again.               *)

LeafSaved ==
    saved => \/ sidecar = leaf
             \/ sidecar \notin disk /\ leaf = Biggest(disk)

LEMMA LeafNext == Typed /\ LeafSaved /\ [Next]_vars => LeafSaved'
<1> SUFFICES ASSUME Typed, LeafSaved, [Next]_vars PROVE LeafSaved' OBVIOUS
<1>1. ASSUME UNCHANGED <<disk, leaf, sidecar, saved>> PROVE LeafSaved'
  BY <1>1 DEF LeafSaved
<1>2. ASSUME NEW how \in Outcomes, NEW entry, Append(entry, how) PROVE LeafSaved'
  BY <1>2 DEF Append, Fault, LeafSaved
<1>3. ASSUME NEW how \in Outcomes, NEW to, MoveLeaf(to, how) PROVE LeafSaved'
  BY <1>3 DEF MoveLeaf, Fault, LeafSaved
<1>4. ASSUME NEW how \in Outcomes, NEW e \in Ids \cup {0}, Fork(e, how) PROVE LeafSaved'
  BY <1>4 DEF Fork, Fault, LeafSaved
<1>5. CASE Restart BY <1>5 DEF Restart, LeafSaved
<1>6. CASE ForkFrom
  <2>1. 0 \notin disk BY DEF Typed, Ids
  <2> QED BY <1>6, <2>1 DEF ForkFrom, LeafSaved
<1>7. CASE PrepareCompaction \/ CompactionFails \/ Crash \/ UNCHANGED vars
  BY <1>1, <1>7 DEF PrepareCompaction, CompactionFails, Crash, vars
<1> QED BY <1>2, <1>3, <1>4, <1>5, <1>6, <1>7
        DEF Next, AppendMessage, AppendCompaction, ResetLeaf, AppendLabelChange,
            Branch, BranchWithSummary

\* Only a restart and the opening of a copy start a process.
LEMMA StartsAreReopenings ==
  ASSUME Typed, [Next]_vars, ~up, up'
  PROVE  Restart \/ (ForkFrom /\ forks' # forks)
<1>1. ForkFrom => forks' # forks BY BoundsAreNat DEF ForkFrom, Typed
<1>2. \A how, entry : ~Append(entry, how) BY DEF Append
<1>3. \A how, to : ~MoveLeaf(to, how) BY DEF MoveLeaf, Moves
<1>4. \A how, to : ~Fork(to, how) BY DEF Fork
<1> QED BY <1>1, <1>2, <1>3, <1>4
        DEF Next, vars, AppendMessage, AppendCompaction, ResetLeaf, AppendLabelChange,
            Branch, BranchWithSummary, PrepareCompaction, CompactionFails, Crash

\* A restart resumes where the user was, if that entry is readable and the last
\* change of the leaf met no fault (writeMetaSidecar, setSessionFile).
THEOREM RestartsKeepLeaf == Spec => RestartKeepsLeaf
<1>1. Init => LeafSaved BY DEF Init, LeafSaved
<1>2. Typed /\ LeafSaved /\ [Next]_vars
        => (~up /\ up' /\ UNCHANGED forks /\ saved /\ leaf \in disk => leaf' = leaf)
  BY StartsAreReopenings DEF LeafSaved, Restart
<1>3. Typed /\ LeafSaved /\ [Next]_vars
        => [~up /\ up' /\ UNCHANGED forks /\ saved /\ leaf \in disk => leaf' = leaf]_vars
  BY <1>2
<1> QED BY <1>1, <1>3, TypedInit, TypedNext, LeafNext, PTL DEF Spec, RestartKeepsLeaf

-----------------------------------------------------------------------------
(* Labels.  A mark names an entry of the log; and until an append fails,    *)
(* the file holds every entry and the labels shown are what its marks say.  *)

MarksOf(entries, ids, t) ==
    {e \in ids : entries[e].type \in {"label", "unlabel"} /\ entries[e].ref = t}
LabelHolds(entries, ids, t) ==
    /\ MarksOf(entries, ids, t) # {}
    /\ entries[Max(MarksOf(entries, ids, t))].type = "label"

LabelsKnown ==
    /\ \A e \in DOMAIN log : Marks(e) => log[e].ref \in DOMAIN log
    /\ tears = 0 => labels = Labelled(DOMAIN log)

LEMMA LabelledMeans ==
    Labelled(DOMAIN log) = {t \in Ids : LabelHolds(log, DOMAIN log, t)}
BY DEF Labelled, LabelHolds, MarksOf, Marks

LEMMA LabelledAfter ==
    Labelled(DOMAIN log)' = {t \in Ids : LabelHolds(log', DOMAIN log', t)}
BY DEF Labelled, LabelHolds, MarksOf, Marks

\* Without damage the file holds the whole log.
LEMMA FileIsWhole ==
  ASSUME Typed, DamagePaid, tears = 0
  PROVE  /\ disk = DOMAIN log /\ tail = "clean"
         /\ up => mem = DOMAIN log
<1>1. Cardinality(Lost) \in Nat /\ IsFiniteSet(Lost) BY LostIsFinite
<1>2. Owed \in Nat BY DEF Owed
<1>3. Cardinality(Lost) = 0 /\ Owed = 0 BY <1>1, <1>2 DEF DamagePaid
<1>4. Lost = {} BY <1>1, <1>3, FS_EmptySet
<1> QED BY <1>3, <1>4 DEF Lost, Owed, Typed

\* A label that holds names an entry of the log.
LEMMA LabelledAreEntries ==
  ASSUME Typed, LabelsKnown
  PROVE  Labelled(DOMAIN log) \subseteq DOMAIN log
BY DEF Labelled, LabelsKnown

LEMMA LabelsAppend ==
  ASSUME Typed, LabelsKnown, NEW entry, NEW how \in Outcomes, Append(entry, how),
         \/ entry.type \notin {"label", "unlabel"} /\ labels' = labels
         \/ /\ entry.ref \in DOMAIN log
            /\ entry.type = (IF entry.ref \in labels THEN "unlabel" ELSE "label")
            /\ labels' = IF ~Done(how) THEN labels
                         ELSE IF entry.ref \in labels THEN labels \ {entry.ref}
                         ELSE labels \cup {entry.ref}
  PROVE  LabelsKnown'
<1>1. /\ DOMAIN log' = DOMAIN log \cup {NextId}
      /\ \A e \in DOMAIN log : log'[e] = log[e]
      /\ log'[NextId] = entry
      /\ NextId \in Ids
  BY AppendedLog
<1>2. NextId \notin DOMAIN log /\ \A e \in DOMAIN log : e \in 1 .. NextId - 1
  BY NextIdIsNew
<1>3. \A e \in DOMAIN log' : Marks(e)' => log'[e].ref \in DOMAIN log'
  BY <1>1 DEF LabelsKnown, Marks
<1>4. ASSUME tears' = 0 PROVE labels' = Labelled(DOMAIN log)'
  <2>1. Done(how) /\ tears = 0
    BY <1>4 DEF Append, Typed
  <2>2. labels = {t \in Ids : LabelHolds(log, DOMAIN log, t)}
    BY <2>1, LabelledMeans DEF LabelsKnown
  <2>3. ASSUME NEW t \in Ids,
               entry.type \notin {"label", "unlabel"} \/ entry.ref # t
        PROVE  LabelHolds(log', DOMAIN log', t) <=> LabelHolds(log, DOMAIN log, t)
    <3>1. MarksOf(log', DOMAIN log', t) = MarksOf(log, DOMAIN log, t)
      BY <1>1, <1>2, <2>3 DEF MarksOf
    <3>2. MarksOf(log, DOMAIN log, t) \in SUBSET (0 .. MaxEntries)
      BY BoundsAreNat DEF MarksOf, Typed, Ids
    <3>3. MarksOf(log, DOMAIN log, t) # {} =>
            Max(MarksOf(log, DOMAIN log, t)) \in MarksOf(log, DOMAIN log, t)
      BY <3>2, MaxIsGreatest, BoundsAreNat
    <3>4. MarksOf(log, DOMAIN log, t) # {} =>
            Max(MarksOf(log, DOMAIN log, t)) \in DOMAIN log
      BY <3>3 DEF MarksOf
    <3> QED BY <1>1, <3>1, <3>4 DEF LabelHolds
  <2>4. CASE entry.type \notin {"label", "unlabel"} /\ labels' = labels
    BY <2>2, <2>3, <2>4, LabelledAfter
  <2>5. CASE /\ entry.ref \in DOMAIN log
             /\ entry.type = (IF entry.ref \in labels THEN "unlabel" ELSE "label")
             /\ labels' = IF entry.ref \in labels THEN labels \ {entry.ref}
                          ELSE labels \cup {entry.ref}
    <3> DEFINE t == entry.ref
               S == MarksOf(log', DOMAIN log', t)
    <3>1. NextId \in S /\ S \subseteq DOMAIN log' BY <1>1, <2>5 DEF MarksOf
    <3>2. \A e \in DOMAIN log' : e <= NextId /\ e \in 0 .. MaxEntries
      BY <1>1, <1>2, BoundsAreNat DEF Typed, Ids
    <3>3. S \in SUBSET (0 .. MaxEntries) BY <3>1, <3>2
    <3> HIDE DEF S
    <3>4. Max(S) \in S /\ Max(S) >= NextId BY <3>1, <3>3, MaxIsGreatest, BoundsAreNat
    <3>5. Max(S) = NextId
      <4>1. Max(S) <= NextId /\ Max(S) \in 0 .. MaxEntries /\ NextId \in 0 .. MaxEntries
        BY <3>1, <3>2, <3>4
      <4> QED BY <3>4, <4>1, BoundsAreNat
    <3>6. t \in Ids BY <2>5 DEF Typed
    <3>7. LabelHolds(log', DOMAIN log', t) <=> t \notin labels
      BY <1>1, <2>5, <3>1, <3>5 DEF LabelHolds, S
    <3>8. \A u \in Ids : u # t =>
            (LabelHolds(log', DOMAIN log', u) <=> u \in labels)
      BY <2>2, <2>3
    <3> HIDE DEF t
    <3>9. labels' = {u \in Ids : LabelHolds(log', DOMAIN log', u)}
      BY <2>2, <2>5, <3>6, <3>7, <3>8 DEF t
    <3> QED BY <3>9, LabelledAfter
  <2> QED BY <2>1, <2>4, <2>5
<1> QED BY <1>3, <1>4 DEF LabelsKnown

\* A fork shows the labels of what it keeps, each by one new mark.
LEMMA LabelsFork ==
  ASSUME Typed, DamagePaid, LabelsKnown,
         NEW target \in Ids \cup {0}, NEW how \in Outcomes, Fork(target, how)
  PROVE  LabelsKnown' /\ (tears = 0 => labels' = labels \cap mem')
<1> DEFINE path == Path(log, disk, target)
           K == Kept(path)
           S == Named(path)
<1>1. /\ path \in SUBSET disk /\ log' = Rechained(path) /\ mem' = DOMAIN log'
      /\ DOMAIN log' \subseteq Ids
  BY ForkedBranch
<1>2. labels' = {log'[e].ref : e \in {d \in DOMAIN log' : log'[d].type = "label"}}
      /\ tears' = tears
  BY DEF Fork
<1> HIDE DEF path
<1>3. DOMAIN log' = K \cup {Place(path, t) : t \in S} BY <1>1, RechainedLog
<1>4. \A e \in K : log'[e].type \notin {"label", "unlabel"}
  <2> TAKE e \in K
  <2>1. log'[e] = [log[e] EXCEPT !.parent = Biggest({k \in K : k < e})]
    BY <1>1, RechainedLog
  <2>2. e \in DOMAIN log /\ ~Marks(e) BY <1>1 DEF Kept, Typed
  <2>3. log'[e].type = log[e].type BY <2>1, <2>2 DEF Typed, Backwards, Entries
  <2> QED BY <2>2, <2>3 DEF Marks
<1>5. \A t \in S : log'[Place(path, t)].type = "label" /\ log'[Place(path, t)].ref = t
  <2> TAKE t \in S
  <2>1. PICK p : log'[Place(path, t)] = Entry("label", p, t) BY <1>1, RechainedLog
  <2> QED BY <2>1 DEF Entry
<1>6. S \subseteq K /\ S \subseteq Ids /\ S \subseteq Labelled(disk)
  BY DEF Named, Labelled
<1>7. labels' = S
  BY <1>2, <1>3, <1>4, <1>5
<1>8. \A t \in S : /\ MarksOf(log', DOMAIN log', t) = {Place(path, t)}
                   /\ LabelHolds(log', DOMAIN log', t)
  <2> TAKE t \in S
  <2>1. MarksOf(log', DOMAIN log', t) = {Place(path, t)}
    BY <1>3, <1>4, <1>5 DEF MarksOf
  <2>2. Place(path, t) \in Nat BY <1>1, Places
  <2>3. Max({Place(path, t)}) = Place(path, t)
    <3>1. {Place(path, t)} \in SUBSET (0 .. Place(path, t)) BY <2>2
    <3>2. {Place(path, t)} # {} OBVIOUS
    <3>3. Max({Place(path, t)}) \in {Place(path, t)} BY <2>2, <3>1, <3>2, MaxIsGreatest
    <3> QED BY <3>3
  <2> QED BY <1>5, <2>1, <2>3 DEF LabelHolds
<1>9. \A t : t \notin S => MarksOf(log', DOMAIN log', t) = {}
  BY <1>3, <1>4, <1>5 DEF MarksOf
<1>10. Labelled(DOMAIN log)' = S
  <2>1. \A t \in Ids : LabelHolds(log', DOMAIN log', t) <=> t \in S
    BY <1>8, <1>9 DEF LabelHolds
  <2> QED BY <1>6, <2>1, LabelledAfter
<1>11. \A e \in DOMAIN log' : Marks(e)' => log'[e].ref \in DOMAIN log'
  BY <1>3, <1>4, <1>5, <1>6 DEF Marks
<1>12. ASSUME tears = 0 PROVE labels' = labels \cap mem'
  <2>1. disk = DOMAIN log /\ labels = Labelled(disk)
    BY <1>12, FileIsWhole DEF LabelsKnown
  <2>2. labels \subseteq DOMAIN log BY <2>1, LabelledAreEntries
  <2>3. \A t \in S : Place(path, t) \notin labels
    <3>1. \A t \in S : Place(path, t) \in Nat /\ Place(path, t) > Biggest(DOMAIN log)
      BY <1>1, Places
    <3>2. \A e \in labels : e \in 1 .. Biggest(DOMAIN log)
      BY <2>2, NextIdIsNew
    <3>3. Biggest(DOMAIN log) \in Nat BY NextIdIsNew
    <3> QED BY <3>1, <3>2, <3>3
  <2>4. S = labels \cap K BY <2>1 DEF Named
  <2> QED BY <1>1, <1>3, <1>7, <2>3, <2>4
<1> QED BY <1>2, <1>7, <1>10, <1>11, <1>12 DEF LabelsKnown

LEMMA LabelsNext ==
    Typed /\ DamagePaid /\ LabelsKnown /\ [Next]_vars
      => /\ LabelsKnown'
         /\ (forks' # forks \/ (~up /\ up')) /\ tears = 0 => labels' = labels \cap mem'
<1> SUFFICES ASSUME Typed, DamagePaid, LabelsKnown, [Next]_vars
             PROVE  /\ LabelsKnown'
                    /\ (forks' # forks \/ (~up /\ up')) /\ tears = 0
                         => labels' = labels \cap mem'
  OBVIOUS
<1> DEFINE Kept2 == /\ LabelsKnown'
                    /\ (forks' # forks \/ (~up /\ up')) /\ tears = 0
                         => labels' = labels \cap mem'
<1>1. ASSUME UNCHANGED <<log, tears, labels, forks>>, up' => up PROVE Kept2
  BY <1>1 DEF LabelsKnown, Labelled, Marks
<1>2. ASSUME NEW how \in Outcomes, NEW entry, Append(entry, how),
             \/ entry.type \notin {"label", "unlabel"} /\ labels' = labels
             \/ /\ entry.ref \in DOMAIN log
                /\ entry.type = (IF entry.ref \in labels THEN "unlabel" ELSE "label")
                /\ labels' = IF ~Done(how) THEN labels
                             ELSE IF entry.ref \in labels THEN labels \ {entry.ref}
                             ELSE labels \cup {entry.ref}
      PROVE  Kept2
  <2>1. forks' = forks /\ up BY <1>2 DEF Append
  <2>2. LabelsKnown' BY <1>2, LabelsAppend
  <2> QED BY <2>1, <2>2
<1>3. \A type, parent, ref : /\ Entry(type, parent, ref).type = type
                             /\ Entry(type, parent, ref).ref = ref
  BY DEF Entry
<1> HIDE DEF Kept2
<1> SUFFICES Kept2 BY DEF Kept2
<1>4. ASSUME NEW how \in Outcomes, AppendMessage(how) PROVE Kept2
  BY <1>2, <1>3, <1>4 DEF AppendMessage
<1>5. ASSUME NEW how \in Outcomes, AppendCompaction(how) PROVE Kept2
  <2> DEFINE entry == [Entry("compaction", leaf, compacting.kept)
                         EXCEPT !.covers = compacting.covers]
  <2>1. entry.type = "compaction" BY DEF Entry
  <2>2. Append(entry, how) /\ labels' = labels BY <1>5 DEF AppendCompaction
  <2> HIDE DEF entry
  <2> QED BY <1>2, <2>1, <2>2
<1>6. ASSUME NEW how \in Outcomes, NEW e \in Ids, AppendLabelChange(e, how) PROVE Kept2
  <2> DEFINE entry == Entry(IF e \in labels THEN "unlabel" ELSE "label", leaf, e)
  <2>1. /\ e \in mem /\ Append(entry, how)
        /\ labels' = IF ~Done(how) THEN labels
                     ELSE IF e \in labels THEN labels \ {e} ELSE labels \cup {e}
    BY <1>6 DEF AppendLabelChange
  <2>2. entry.ref = e /\ entry.type = (IF e \in labels THEN "unlabel" ELSE "label")
    BY <1>3
  <2>3. e \in DOMAIN log BY <2>1 DEF Typed
  <2> HIDE DEF entry
  <2> QED BY <1>2, <2>1, <2>2, <2>3
<1>7. ASSUME NEW how \in Outcomes, NEW e \in Ids \cup {0}, BranchWithSummary(e, how)
      PROVE  Kept2
  BY <1>2, <1>3, <1>7 DEF BranchWithSummary
<1>8. ASSUME NEW how \in Outcomes, NEW to, MoveLeaf(to, how) PROVE Kept2
  BY <1>1, <1>8 DEF MoveLeaf
<1>9. ASSUME NEW how \in Outcomes, NEW e \in Ids \cup {0}, Fork(e, how) PROVE Kept2
  BY <1>9, LabelsFork DEF Kept2
<1>10. CASE Restart \/ ForkFrom
  <2>1. /\ UNCHANGED <<log, disk, tears>> /\ mem' = disk /\ labels' = Labelled(disk)
    BY <1>10 DEF Restart, ForkFrom
  <2>2. tears = 0 => labels' = labels /\ mem' = DOMAIN log /\ labels = Labelled(DOMAIN log)
    BY <2>1, FileIsWhole DEF LabelsKnown
  <2>3. labels = Labelled(DOMAIN log) => labels \subseteq DOMAIN log BY LabelledAreEntries
  <2>4. LabelsKnown' BY <2>1, <2>2 DEF LabelsKnown, Labelled, Marks
  <2> QED BY <2>2, <2>3, <2>4 DEF Kept2
<1>11. CASE PrepareCompaction BY <1>1, <1>11 DEF PrepareCompaction
<1>12. CASE CompactionFails BY <1>1, <1>12 DEF CompactionFails
<1>13. CASE Crash BY <1>1, <1>13 DEF Crash
<1>14. CASE UNCHANGED vars BY <1>1, <1>14 DEF vars
<1>15. ASSUME NEW how \in Outcomes, ResetLeaf(how) PROVE Kept2
  BY <1>8, <1>15 DEF ResetLeaf
<1>16. ASSUME NEW how \in Outcomes, NEW e \in Ids, Branch(e, how) PROVE Kept2
  BY <1>8, <1>16 DEF Branch
<1> QED BY <1>4, <1>5, <1>6, <1>7, <1>9, <1>10, <1>11, <1>12, <1>13, <1>14, <1>15,
           <1>16 DEF Next

\* Until an append fails, a restart or a fork shows the labels shown before on
\* all that is still there (_buildIndex, createBranchedSession).
THEOREM LabelsAlwaysSurvive == Spec => LabelsSurvive
<1>1. Init => LabelsKnown
  <2> SUFFICES ASSUME Init PROVE LabelsKnown OBVIOUS
  <2>1. DOMAIN log = {} /\ labels = {} BY DEF Init
  <2> QED BY <2>1 DEF LabelsKnown, Labelled
<1>2. Typed /\ DamagePaid /\ LabelsKnown /\ [Next]_vars => LabelsKnown'
  BY LabelsNext
<1>3. Typed /\ DamagePaid /\ LabelsKnown /\ [Next]_vars
        => [(forks' # forks \/ (~up /\ up')) /\ tears = 0
              => labels' = labels \cap mem']_vars
  BY LabelsNext
<1> QED BY <1>1, <1>2, <1>3, TypedInit, TypedNext, DamageInit, DamageNext, PTL
        DEF Spec, LabelsSurvive
=============================================================================
