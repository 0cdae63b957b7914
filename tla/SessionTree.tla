---------------------------- MODULE SessionTree ----------------------------
(***************************************************************************)
(* The session store: SessionManager of                                    *)
(* packages/coding-agent/src/core/session-manager.ts, with the cut point   *)
(* of compaction/compaction.ts and the fork of agent-session-runtime.ts.   *)
(*                                                                         *)
(* A session is a tree of entries, kept twice: in memory and as lines      *)
(* appended to a JSONL file.  The selected leaf is kept in memory and in a *)
(* sidecar file written after each change.  What the model is asks is what *)
(* survives a line half written, a sidecar not written, a crash, a fork to *)
(* a new file, and a compaction that takes its time while the user moves   *)
(* about in the tree.                                                      *)
(*                                                                         *)
(* An operation is synchronous in the code, so it is one step here, with   *)
(* the outcome of its two writes as a choice.  A crash between the two     *)
(* writes is the step in which the second one fails, followed by Crash.    *)
(*                                                                         *)
(* Entry ids are numbers given in order, so that an ancestor has a smaller *)
(* id than its descendants and the order of lines is the order of ids.     *)
(* Messages stand for every entry the model reads and a compaction may cut *)
(* at.  Settings, names and extension entries behave as labels do.         *)
(***************************************************************************)
EXTENDS Integers, FiniteSets, FiniteSetsExt

CONSTANTS
    MaxEntries,     \* bound: the largest entry id, less one per fault, move or fork
    MaxForks,       \* bound: forks to a new file
    MaxFaults,      \* bound: failed writes
    MaxLabels,      \* bound: label entries that set a label, at a time
    MaxMoves,       \* bound: moves of the leaf by the user
    MovesWhileCompacting    \* whether the user moves in the tree meanwhile

ASSUME BoundsAssumption ==
    /\ MaxEntries \in Nat /\ MaxForks \in Nat /\ MaxFaults \in Nat
    /\ MaxLabels \in Nat /\ MaxMoves \in Nat
    /\ MovesWhileCompacting \in BOOLEAN

VARIABLES
    log,        \* the entries given to the current file, by id
    mem,        \* fileEntries and byId: the ids this process holds
    disk,       \* the ids a reader of the file finds
    tail,       \* the end of the file: "clean" after a newline, "open" when
                \* the last entry lacks it, "torn" inside a broken line
    leaf,       \* leafId, 0 for null; kept as history while down
    labels,     \* labelsById: the labelled ids; kept as history while down
    sidecar,    \* leafId in the .meta.json file, 0 for null or no file
    up,         \* whether a process has the session open
    compacting, \* the compaction whose summary is being written, or Idle
    saved,      \* history: whether the last change of the leaf had no fault
    tears,      \* history: appends that failed
    faults,     \* writes that failed
    forks,      \* forks made
    moves       \* moves made

vars == <<log, mem, disk, tail, leaf, labels, sidecar, up, compacting, saved,
          tears, faults, forks, moves>>

Ids == 1 .. MaxEntries
Types == {"message", "label", "unlabel", "compaction", "summary"}
Idle == [kept |-> 0, covers |-> {}]
Biggest(S) == IF S = {} THEN 0 ELSE Max(S)
NextId == Biggest(DOMAIN log) + 1
Marks(e) == log[e].type \in {"label", "unlabel"}

(***************************************************************************)
(* buildSessionPath, getBranch: the ids from an entry back to the root, or *)
(* to the first whose parent is missing.                                   *)
(***************************************************************************)
Path(entries, ids, from) ==
    LET back[e \in 0 .. MaxEntries] ==
            IF e \in ids THEN {e} \cup back[entries[e].parent] ELSE {}
    IN back[from]

\* sessionEntryToContextMessages: the entries that give a message, the
\* compactions apart.
Visible(e) == log[e].type \in {"message", "summary"}

Compactions(path) == {e \in path : log[e].type = "compaction"}

(***************************************************************************)
(* buildContextEntries: the latest compaction of the path, what it kept,   *)
(* and what came after it.                                                 *)
(***************************************************************************)
Context(path) ==
    LET last == Biggest(Compactions(path))
        kept == IF last > 0 THEN log[last].ref ELSE 0
    IN IF last = 0 THEN path
       ELSE {e \in path : e >= last \/ (kept \in path /\ e >= kept)}

(***************************************************************************)
(* _buildIndex: what the label entries say of each target, the last one    *)
(* winning.                                                                *)
(***************************************************************************)
Labelled(ids) ==
    LET marks(t) == {e \in ids : Marks(e) /\ log[e].ref = t}
    IN {t \in Ids : marks(t) # {} /\ log[Max(marks(t))].type = "label"}

(***************************************************************************)
(* _appendEntry and _persist.  Memory takes the entry first.  The line is  *)
(* written whole, or the write throws: with nothing written, with a part   *)
(* of the line, or with all of it but its newline.  A line written after a *)
(* broken or unfinished one is read as one with it, and neither is an      *)
(* entry.  The sidecar comes last and its failure is swallowed.            *)
(***************************************************************************)
Outcomes == {"whole", "whole, no sidecar", "nothing", "torn", "open"}
Done(how) == how \in {"whole", "whole, no sidecar"}

Fault(how) ==
    /\ faults + (IF how = "whole" THEN 0 ELSE 1) <= MaxFaults
    /\ faults' = faults + (IF how = "whole" THEN 0 ELSE 1)
    /\ saved' = (how = "whole")

\* Mutant: no newline ends a line that follows a broken one.
LineOpen(id, how) ==
    LET glued == disk \ (IF tail = "open" THEN {Biggest(disk)} ELSE {})
    IN IF how = "nothing" THEN disk' = disk /\ tail' = tail
       ELSE IF tail = "clean" /\ how # "torn"
            THEN disk' = disk \cup {id} /\ tail' = IF Done(how) THEN "clean" ELSE "open"
            ELSE disk' = glued /\ tail' = "torn"

Line(id, how) ==
    LET glued == disk \ (IF tail = "open" THEN {Biggest(disk)} ELSE {})
    IN CASE how = "nothing" -> disk' = disk /\ tail' = tail
         [] how = "torn"    -> disk' = glued /\ tail' = "torn"
         [] how = "open"    ->
                IF tail = "clean" THEN disk' = disk \cup {id} /\ tail' = "open"
                ELSE disk' = glued /\ tail' = "torn"
         [] OTHER           ->
                /\ disk' = IF tail = "clean" THEN disk \cup {id} ELSE glued
                /\ tail' = "clean"

Append(entry, how) ==
    LET id == NextId IN
    /\ up /\ id + faults + moves + forks <= MaxEntries
    /\ Fault(how)
    /\ log' = [e \in DOMAIN log \cup {id} |-> IF e = id THEN entry ELSE log[e]]
    /\ mem' = mem \cup {id}
    /\ leaf' = id
    /\ Line(id, how)
    /\ sidecar' = IF how = "whole" THEN id ELSE sidecar
    /\ tears' = IF Done(how) THEN tears ELSE tears + 1
    /\ UNCHANGED <<up, forks>>

Entry(type, parent, ref) ==
    [type |-> type, parent |-> parent, ref |-> ref, covers |-> {}]

Init ==
    /\ log = << >> /\ mem = {} /\ disk = {} /\ tail = "clean"
    /\ leaf = 0 /\ labels = {} /\ sidecar = 0 /\ up = TRUE
    /\ compacting = Idle /\ saved = TRUE
    /\ tears = 0 /\ faults = 0 /\ forks = 0 /\ moves = 0

\* appendMessage and the other plain appends.
AppendMessage(how) ==
    /\ Append(Entry("message", leaf, 0), how)
    /\ UNCHANGED <<labels, compacting, moves>>

\* appendLabelChange: set the label of an entry, or clear the one it has.  The
\* map is changed after the append, so not when that throws.
AppendLabelChange(target, how) ==
    LET marked == target \in labels
    IN /\ target \in mem
       /\ marked \/ Cardinality({e \in DOMAIN log : log[e].type = "label"}) < MaxLabels
       /\ Append(Entry(IF marked THEN "unlabel" ELSE "label", leaf, target), how)
       /\ labels' = IF ~Done(how) THEN labels
                    ELSE IF marked THEN labels \ {target}
                    ELSE labels \cup {target}
       /\ UNCHANGED <<compacting, moves>>

-----------------------------------------------------------------------------
(* Moving in the tree.                                                     *)

Moves ==
    /\ up /\ (MovesWhileCompacting \/ compacting = Idle)
    /\ moves < MaxMoves /\ moves' = moves + 1

\* Mutant: the move is not written to the sidecar.
MoveInMemory(to, how) ==
    /\ Moves /\ to # leaf
    /\ how = "whole"
    /\ leaf' = to
    /\ Fault(how)
    /\ UNCHANGED <<log, mem, disk, tail, labels, sidecar, up, compacting, tears,
                   forks>>

\* branch and resetLeaf: the leaf moves and the sidecar is written.
MoveLeaf(to, how) ==
    /\ Moves /\ to # leaf
    /\ how \in {"whole", "whole, no sidecar"}
    /\ leaf' = to
    /\ sidecar' = IF how = "whole" THEN to ELSE sidecar
    /\ Fault(how)
    /\ UNCHANGED <<log, mem, disk, tail, labels, up, compacting, tears, forks>>

Branch(to, how) == to \in mem /\ MoveLeaf(to, how)
ResetLeaf(how) == MoveLeaf(0, how)

\* branchWithSummary: the summary of what was left becomes a child of the
\* target.
BranchWithSummary(to, how) ==
    /\ Moves /\ to \in mem \cup {0} /\ to # leaf
    /\ Append(Entry("summary", to, 0), how)
    /\ UNCHANGED <<labels, compacting>>

-----------------------------------------------------------------------------
(* Compaction.                                                             *)

\* Mutant: what the previous compaction kept is not summarised again.
BoundaryAtCompaction(path) == Biggest(Compactions(path)) + 1

\* prepareCompaction: where the part still to be summarised begins.
BoundaryStart(path) ==
    LET last == Biggest(Compactions(path))
    IN IF last = 0 THEN 0
       ELSE IF log[last].ref \in path THEN log[last].ref ELSE last + 1

\* findCutPoint: the first entry kept for a cut at an entry the model reads,
\* with the labels and settings just before it.
FirstKept(path, cut) ==
    LET invisible(e) == ~Visible(e) /\ log[e].type # "compaction"
        start == BoundaryStart(path)
    IN Min({k \in path :
              /\ start <= k /\ k <= cut
              /\ \A e \in path : k <= e /\ e < cut => invisible(e)})

\* prepareCompaction: what goes into the summary, besides the previous one.
Summarised(path, kept) ==
    LET start == BoundaryStart(path)
    IN {e \in path : start <= e /\ e < kept /\ Visible(e)}

(***************************************************************************)
(* compact and _runAutoCompaction of agent-session.ts: the branch is read  *)
(* and a cut chosen by token count, any cut here; the summary is awaited;  *)
(* then the compaction is appended, at whatever the leaf is by then.       *)
(***************************************************************************)
PrepareCompaction ==
    LET path == Path(log, mem, leaf)
        last == Biggest(Compactions(path))
    IN /\ up /\ compacting = Idle /\ path # {}
       /\ log[Max(path)].type # "compaction"
       /\ \E cut \in {e \in path : e >= BoundaryStart(path) /\ Visible(e)} :
            LET kept == FirstKept(path, cut) IN
            /\ Summarised(path, kept) # {}
            /\ compacting' = [kept |-> kept, covers |-> Summarised(path, kept)
                     \cup (IF last > 0 THEN log[last].covers ELSE {})]
       /\ UNCHANGED <<log, mem, disk, tail, leaf, labels, sidecar, up, saved,
                      tears, faults, forks, moves>>

\* appendCompaction
AppendCompaction(how) ==
    /\ compacting # Idle
    /\ Append([Entry("compaction", leaf, compacting.kept)
                 EXCEPT !.covers = compacting.covers], how)
    /\ compacting' = Idle
    /\ UNCHANGED <<labels, moves>>

\* The summary fails or is cancelled.
CompactionFails ==
    /\ compacting # Idle /\ compacting' = Idle
    /\ UNCHANGED <<log, mem, disk, tail, leaf, labels, sidecar, up, saved,
                   tears, faults, forks, moves>>

-----------------------------------------------------------------------------
(* Forks, crashes and restarts.                                            *)

\* Mutant: the entries keep the parents they had.
KeptAsTheyWere(path) == [e \in {d \in path : ~Marks(d)} |-> log[e]]

\* Mutant: only labels set on the branch itself are written anew.
LabelsOfBranch(path) ==
    LET kept  == {e \in path : ~Marks(e)}
        n     == Biggest(DOMAIN log)
        named == Labelled(path) \cap kept
        at(t) == n + Cardinality({u \in named : u <= t})
    IN [e \in kept \cup {at(t) : t \in named} |->
          IF e <= n
          THEN [log[e] EXCEPT !.parent = Biggest({k \in kept : k < e})]
          ELSE Entry("label", IF e = n + 1 THEN Biggest(kept) ELSE e - 1,
                     CHOOSE t \in named : at(t) = e)]

\* createBranchedSession: the entries of a branch without its labels, each
\* linked to the one before it, then the labels that still hold, as new
\* entries.
Rechained(path) ==
    LET kept  == {e \in path : ~Marks(e)}
        n     == Biggest(DOMAIN log)
        named == Labelled(disk) \cap kept
        at(t) == n + Cardinality({u \in named : u <= t})
    IN [e \in kept \cup {at(t) : t \in named} |->
          IF e <= n
          THEN [log[e] EXCEPT !.parent = Biggest({k \in kept : k < e})]
          ELSE Entry("label", IF e = n + 1 THEN Biggest(kept) ELSE e - 1,
                     CHOOSE t \in named : at(t) = e)]

(***************************************************************************)
(* AgentSessionRuntime.fork, for /fork and /clone: the file is opened      *)
(* anew, its branch up to the target written to a new file in one piece,   *)
(* and the session continues there; the null target gives an empty one.    *)
(***************************************************************************)
Fork(target, how) ==
    LET branch == Rechained(Path(log, disk, target))
        last   == Biggest(DOMAIN branch) IN
    /\ up /\ forks < MaxForks
    /\ target \in (mem \cap disk) \cup {0}
    /\ how \in {"whole", "whole, no sidecar"} /\ Fault(how)
    /\ last + faults + moves <= MaxEntries
    /\ log' = branch
    /\ mem' = DOMAIN branch /\ disk' = DOMAIN branch
    /\ tail' = "clean"
    /\ leaf' = last
    /\ labels' = {branch[e].ref : e \in {d \in DOMAIN branch : branch[d].type = "label"}}
    /\ sidecar' = IF how = "whole" THEN last ELSE 0
    /\ compacting' = Idle
    /\ forks' = forks + 1
    /\ UNCHANGED <<up, tears, moves>>

\* The process ends at any point; leaf and labels stay as history.
Crash ==
    /\ up /\ up' = FALSE
    /\ mem' = {} /\ compacting' = Idle
    /\ UNCHANGED <<log, disk, tail, leaf, labels, sidecar, saved, tears,
                   faults, forks, moves>>

\* Mutant: the leaf of the sidecar is taken without looking for it.
RestartUnchecked ==
    /\ ~up /\ up' = TRUE
    /\ mem' = disk
    /\ labels' = Labelled(disk)
    /\ leaf' = IF sidecar # 0 THEN sidecar ELSE Biggest(disk)
    /\ saved' = TRUE
    /\ UNCHANGED <<log, disk, tail, sidecar, compacting, tears, faults, forks,
                   moves>>

\* open, setSessionFile: the readable lines, the last of them as the leaf
\* unless the sidecar names one that is there.
Restart ==
    /\ ~up /\ up' = TRUE
    /\ mem' = disk
    /\ labels' = Labelled(disk)
    /\ leaf' = IF sidecar \in disk THEN sidecar ELSE Biggest(disk)
    /\ saved' = TRUE
    /\ UNCHANGED <<log, disk, tail, sidecar, compacting, tears, faults, forks,
                   moves>>

\* forkFrom: the same, after copying the readable lines to a new file that has
\* no sidecar.
ForkFrom ==
    /\ ~up /\ up' = TRUE
    /\ forks < MaxForks /\ forks' = forks + 1
    /\ mem' = disk
    /\ tail' = "clean" /\ sidecar' = 0
    /\ labels' = Labelled(disk)
    /\ leaf' = Biggest(disk)
    /\ saved' = TRUE
    /\ UNCHANGED <<log, disk, compacting, tears, faults, moves>>

Next ==
    \/ \E how \in Outcomes :
         \/ AppendMessage(how)
         \/ AppendCompaction(how)
         \/ ResetLeaf(how)
         \/ \E e \in Ids : AppendLabelChange(e, how) \/ Branch(e, how)
         \/ \E e \in Ids \cup {0} : BranchWithSummary(e, how) \/ Fork(e, how)
    \/ PrepareCompaction
    \/ CompactionFails
    \/ Crash
    \/ Restart
    \/ ForkFrom

Spec == Init /\ [][Next]_vars

-----------------------------------------------------------------------------
(* Properties.                                                             *)

\* Memory and file hold entries of the log, the ids that point into the tree
\* point backwards, and the leaf of a running session is an entry or null.
TypeOK ==
    /\ DOMAIN log \subseteq Ids
    /\ \A e \in DOMAIN log :
         /\ log[e].type \in Types
         /\ log[e].parent \in 0 .. e - 1 /\ log[e].ref \in 0 .. e - 1
         /\ log[e].covers \subseteq 1 .. e - 1
    /\ mem \subseteq DOMAIN log /\ disk \subseteq DOMAIN log
    /\ tail \in {"clean", "open", "torn"}
    /\ leaf \in Ids \cup {0} /\ (up => leaf \in mem \cup {0})
    /\ labels \subseteq Ids /\ sidecar \in Ids \cup {0}
    /\ up \in BOOLEAN /\ saved \in BOOLEAN
    /\ compacting.kept \in Ids \cup {0} /\ compacting.covers \subseteq Ids
    /\ tears \in 0 .. MaxFaults /\ faults \in 0 .. MaxFaults
    /\ forks \in 0 .. MaxForks /\ moves \in 0 .. MaxMoves

Lost == DOMAIN log \ disk

\* A write that fails costs its own line and at most the next one
\* (appendFileSync in _persist, loadEntriesFromFile): every later append is
\* readable again, however often the session is opened in between.
DamageBounded == Cardinality(Lost) <= 2 * tears

\* The parent of an entry is missing only if its line was lost: no fork,
\* restart or move in the tree cuts a conversation off from its beginning
\* (createBranchedSession re-links what stood below a label).
CutOnlyByDamage ==
    \A e \in mem : log[e].parent \in mem \cup Lost \cup {0}

\* What the model is asked with holds every message of the branch, itself or in
\* the summary of the latest compaction (buildContextEntries, prepareCompaction
\* starting at what the previous compaction kept).
Remembered(path) ==
    LET last == Biggest(Compactions(path))
    IN \A e \in path : Visible(e) =>
         e \in Context(path) \/ (last > 0 /\ e \in log[last].covers)

NothingForgotten == up => Remembered(Path(log, mem, leaf))

\* The same for the branches on which every compaction finds the entry it kept
\* from.
NothingForgottenWhereKept ==
    up => LET path == Path(log, mem, leaf)
          IN (\A c \in Compactions(path) : log[c].ref \in path) => Remembered(path)

\* A restart resumes at the entry that was selected, an earlier branch too, if
\* that entry is in the file and the last change of the leaf met no fault
\* (writeMetaSidecar after every append and move, setSessionFile).
RestartKeepsLeaf ==
    [][~up /\ up' /\ UNCHANGED forks /\ saved /\ leaf \in disk => leaf' = leaf]_vars

\* Unless an append failed, a restart or a fork shows the labels shown before on
\* every entry that is still there, those set from another branch too
\* (_buildIndex, the labels createBranchedSession writes anew).
LabelsSurvive ==
    [][(forks' # forks \/ (~up /\ up')) /\ tears = 0
         => labels' = labels \cap mem']_vars
=============================================================================
