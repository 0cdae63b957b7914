------------------------- MODULE AgentSessionProofs -------------------------
(***************************************************************************)
(* What holds of a session for any number of callers and messages.  With   *)
(* every command in use: the types, that its turn token is never stale,    *)
(* and that it never keeps a shell result while it is idle.  Without       *)
(* compact(): that what it displays as queued is still to be delivered.    *)
(* With one prompting caller among any number that steer and abort: that   *)
(* it loses no message, that it is quiet when it says it is idle, and that *)
(* no shell result comes between tool calls and their results.             *)
(***************************************************************************)
EXTENDS AgentSession, TLAPS, WellFoundedInduction, SequenceTheorems

-----------------------------------------------------------------------------
(* The token.  A new turn takes the number after the current epoch, which   *)
(* no interruption can have marked yet: that is the bound to carry along.   *)

Epochs ==
    /\ epoch \in Nat
    /\ interrupted \subseteq 0..epoch
    /\ EpochNeverStale

(* Only a new turn, an interruption and the end of a run touch the token.   *)
LEMMA EpochStep ==
    Next => \/ UNCHANGED epochs
            \/ epoch' = epoch + 1 /\ token' = epoch + 1 /\ UNCHANGED interrupted
            \/ InterruptEpoch
            \/ UNCHANGED <<epoch, interrupted>> /\ token' \in {0, token}
<1> SUFFICES ASSUME Next
             PROVE  \/ UNCHANGED epochs
                    \/ epoch' = epoch + 1 /\ token' = epoch + 1 /\ UNCHANGED interrupted
                    \/ InterruptEpoch
                    \/ UNCHANGED <<epoch, interrupted>> /\ token' \in {0, token}
    OBVIOUS
<1>1. CASE Inputs
    BY <1>1 DEF Inputs, Steer, FollowUp, NextTurn, RecordBash, ClearQueue, epochs
<1>2. CASE Agent
    BY <1>2 DEF Agent, Drain, EmitMessage, CallTools, ToolsAnswered, RunEnds, RunFinishes,
                epochs
<1>3. ASSUME NEW c \in Callers, Client(c)
      PROVE  UNCHANGED epochs \/ InterruptEpoch
    BY <1>3 DEF Client, Prompt, Abort, Compact, AbortThen, epochs
<1>4. ASSUME NEW c \in Callers, Resume(c), ~RunAgentPrompt(c)
      PROVE  UNCHANGED epochs
    BY <1>4 DEF Resume, PostRun, SleepEnds, SleepCancelled, ContinueAgent, PreflightEnds,
                Settle, Settled, CompactEnds, PreflightCompactionEnds, AutoCompactionEnds,
                epochs
<1>5. ASSUME NEW c \in Callers, RunAgentPrompt(c)
      PROVE  epoch' = epoch + 1 /\ token' = epoch + 1 /\ UNCHANGED interrupted
    BY <1>5 DEF RunAgentPrompt
<1> QED
    BY <1>1, <1>2, <1>3, <1>4, <1>5 DEF Next

LEMMA EpochsStep == Epochs /\ [Next]_vars => Epochs'
<1> SUFFICES ASSUME Epochs, [Next]_vars
             PROVE  Epochs'
    OBVIOUS
<1> USE DEF Epochs, EpochNeverStale
<1>1. CASE UNCHANGED vars
    BY <1>1 DEF vars, epochs
<1>2. CASE UNCHANGED epochs
    BY <1>2 DEF epochs
<1>3. CASE epoch' = epoch + 1 /\ token' = epoch + 1 /\ UNCHANGED interrupted
    BY <1>3
<1>4. CASE InterruptEpoch
    BY <1>4 DEF InterruptEpoch
<1>5. CASE UNCHANGED <<epoch, interrupted>> /\ token' \in {0, token}
    BY <1>5
<1> QED
    BY <1>1, <1>2, <1>3, <1>4, <1>5, EpochStep

(* The agent loop of a session never finds its epoch stale, whatever the    *)
(* callers do: checkEpoch() is TRUE for all of a run.                       *)
THEOREM TokenStaysCurrent == Spec => []EpochNeverStale
<1>1. Init => Epochs
    BY DEF Init, Epochs, EpochNeverStale
<1>2. Epochs /\ [Next]_vars => Epochs'
    BY EpochsStep
<1>3. Epochs => EpochNeverStale
    BY DEF Epochs
<1> QED
    BY <1>1, <1>2, <1>3, PTL DEF Spec

-----------------------------------------------------------------------------
(* The deferred shell results.                                             *)

(* Only a result that arrives while the session streams is deferred, and    *)
(* streaming ends in the step that flushes.                                 *)
LEMMA BashStep ==
    ASSUME NoBashLeftBehind, Next
    PROVE  NoBashLeftBehind'
<1> USE DEF NoBashLeftBehind
<1>1. CASE \E b \in Bashes : RecordBash(b)
    BY <1>1 DEF RecordBash, Deferred
<1>2. CASE ClearQueue \/ \E m \in Msgs : Steer(m) \/ FollowUp(m) \/ NextTurn(m)
    BY <1>2 DEF ClearQueue, Steer, FollowUp, NextTurn
<1>3. CASE Agent
    BY <1>3 DEF Agent, Drain, EmitMessage, CallTools, ToolsAnswered, RunEnds, RunFinishes
<1>4. ASSUME NEW c \in Callers, Client(c)
      PROVE  NoBashLeftBehind'
    BY <1>4 DEF Client, Prompt, Flush, Abort, Compact, AbortThen
<1>5. ASSUME NEW c \in Callers, Resume(c)
      PROVE  NoBashLeftBehind'
  <2>1. CASE RunAgentPrompt(c)
      BY <2>1 DEF RunAgentPrompt, MarkActive
  <2>2. CASE Settle(c) \/ PreflightEnds(c)
      BY <2>2 DEF Settle, PreflightEnds, Flush
  <2>3. CASE \/ PostRun(c) \/ SleepEnds(c) \/ SleepCancelled(c) \/ ContinueAgent(c)
             \/ Settled(c) \/ CompactEnds(c)
      BY <2>3 DEF PostRun, SleepEnds, SleepCancelled, ContinueAgent, Settled, CompactEnds
  <2>4. CASE \E how \in Compactions :
                 PreflightCompactionEnds(c, how) \/ AutoCompactionEnds(c, how)
      BY <2>4 DEF PreflightCompactionEnds, AutoCompactionEnds
  <2> QED
      BY <1>5, <2>1, <2>2, <2>3, <2>4 DEF Resume
<1> QED
    BY <1>1, <1>2, <1>3, <1>4, <1>5 DEF Next, Inputs

(* An idle session holds no deferred shell result, even when one caller's   *)
(* failed prompt() settles the session under another caller's run.          *)
THEOREM BashFlushed == Spec => []NoBashLeftBehind
<1>1. Init => NoBashLeftBehind
    BY DEF Init, NoBashLeftBehind
<1>2. NoBashLeftBehind /\ [Next]_vars => NoBashLeftBehind'
    BY BashStep DEF NoBashLeftBehind, vars
<1> QED
    BY <1>1, <1>2, PTL DEF Spec

-----------------------------------------------------------------------------
(* Sequences of messages: what each operation leaves in them.              *)

(* The first place of a sequence that passes a test. *)
LEMMA LeastPlace ==
    ASSUME NEW I \in SUBSET Nat, I # {}
    PROVE  Min(I) \in I
<1>1. PICK x \in I : \A y \in I : ~(<<y, x>> \in OpToRel(<, Nat))
    BY NatLessThanWellFounded, WFMin
<1>2. \A y \in I : ~(y < x)
    BY <1>1 DEF OpToRel
<1>3. \E z \in I : \A y \in I : z <= y
    BY <1>2
<1> QED
    BY <1>3 DEF Min

LEMMA AppendsOne ==
    ASSUME NEW S, NEW s \in Seq(S), NEW m \in S
    PROVE  /\ Append(s, m) \in Seq(S)
           /\ ToSet(Append(s, m)) = ToSet(s) \cup {m}
           /\ IsInjective(s) /\ m \notin ToSet(s) => IsInjective(Append(s, m))
<1>1. /\ Append(s, m) \in Seq(S) /\ Len(Append(s, m)) = Len(s) + 1
      /\ \A i \in 1..Len(s) : Append(s, m)[i] = s[i]
      /\ Append(s, m)[Len(s) + 1] = m
    BY AppendProperties
<1>2. DOMAIN Append(s, m) = 1..(Len(s) + 1) /\ DOMAIN s = 1..Len(s) /\ Len(s) \in Nat
    BY <1>1
<1>3. ToSet(Append(s, m)) = ToSet(s) \cup {m}
    BY <1>1, <1>2, Len(s) + 1 \in 1..(Len(s) + 1) DEF ToSet
<1>4. ASSUME IsInjective(s), m \notin ToSet(s)
      PROVE  IsInjective(Append(s, m))
    BY <1>1, <1>2, <1>4 DEF ToSet, IsInjective
<1> QED
    BY <1>1, <1>3, <1>4

LEMMA TakesHead ==
    ASSUME NEW S, NEW s \in Seq(S), s # <<>>
    PROVE  /\ Head(s) \in S /\ Tail(s) \in Seq(S) /\ <<Head(s)>> \in Seq(S)
           /\ ToSet(s) = {Head(s)} \cup ToSet(Tail(s))
           /\ ToSet(<<Head(s)>>) = {Head(s)}
<1>1. /\ Head(s) \in S /\ Tail(s) \in Seq(S) /\ Len(Tail(s)) = Len(s) - 1
      /\ \A i \in 1..Len(Tail(s)) : Tail(s)[i] = s[i + 1]
    BY HeadTailProperties
<1>2. Len(s) \in Nat /\ Len(s) # 0 /\ Head(s) = s[1]
    BY EmptySeq
<1>3. ToSet(s) = {Head(s)} \cup ToSet(Tail(s))
  <2>1. ASSUME NEW x \in ToSet(s)
        PROVE  x = Head(s) \/ x \in ToSet(Tail(s))
    <3>1. PICK i \in 1..Len(s) : x = s[i]
        BY <2>1 DEF ToSet
    <3>2. ASSUME i # 1
          PROVE  x \in ToSet(Tail(s))
      <4>1. i - 1 \in DOMAIN Tail(s) /\ Tail(s)[i - 1] = x
          BY <1>1, <1>2, <3>1, <3>2
      <4>2. PICK j : j = i - 1
          OBVIOUS
      <4> QED
          BY <4>1, <4>2 DEF ToSet
    <3> QED
        BY <1>2, <3>1, <3>2
  <2>2. ASSUME NEW x \in ToSet(Tail(s))
        PROVE  x \in ToSet(s)
    <3>1. PICK i \in 1..Len(Tail(s)) : x = Tail(s)[i]
        BY <1>1, <2>2 DEF ToSet
    <3> QED
        BY <1>1, <1>2, <3>1, i + 1 \in 1..Len(s) DEF ToSet
  <2>3. Head(s) \in ToSet(s)
      BY <1>2, 1 \in 1..Len(s) DEF ToSet
  <2> QED
      BY <2>1, <2>2, <2>3
<1> QED
    BY <1>1, <1>3 DEF ToSet

LEMMA JoinsTwo ==
    ASSUME NEW S, NEW s \in Seq(S), NEW t \in Seq(S)
    PROVE  /\ s \o t \in Seq(S)
           /\ ToSet(s \o t) = ToSet(s) \cup ToSet(t)
           /\ s # <<>> => s \o t # <<>>
<1>1. /\ s \o t \in Seq(S) /\ Len(s \o t) = Len(s) + Len(t)
      /\ \A i \in 1..(Len(s) + Len(t)) :
            (s \o t)[i] = IF i <= Len(s) THEN s[i] ELSE t[i - Len(s)]
    BY ConcatProperties
<1>2. Len(s) \in Nat /\ Len(t) \in Nat
    OBVIOUS
<1>3. ToSet(s \o t) \subseteq ToSet(s) \cup ToSet(t)
    BY <1>1, <1>2 DEF ToSet
<1>4. ASSUME NEW i \in 1..Len(s)
      PROVE  s[i] \in ToSet(s \o t)
    BY <1>1, <1>2 DEF ToSet
<1>5. ASSUME NEW i \in 1..Len(t)
      PROVE  t[i] \in ToSet(s \o t)
  <2>1. Len(s) + i \in DOMAIN (s \o t) /\ (s \o t)[Len(s) + i] = t[i]
      BY <1>1, <1>2
  <2>2. PICK u : u = s \o t
      OBVIOUS
  <2>3. PICK j : j = Len(s) + i
      OBVIOUS
  <2> QED
      BY <2>1, <2>2, <2>3 DEF ToSet
<1>6. ToSet(s) \cup ToSet(t) \subseteq ToSet(s \o t)
  <2>1. ASSUME NEW x \in ToSet(s)
        PROVE  x \in ToSet(s \o t)
    <3>1. PICK i \in 1..Len(s) : x = s[i]
        BY DEF ToSet
    <3> QED
        BY <1>4, <3>1
  <2>2. ASSUME NEW x \in ToSet(t)
        PROVE  x \in ToSet(s \o t)
    <3>1. PICK i \in 1..Len(t) : x = t[i]
        BY DEF ToSet
    <3> QED
        BY <1>5, <3>1
  <2> QED
      BY <2>1, <2>2
<1>7. s # <<>> => s \o t # <<>>
    BY <1>1, <1>2, EmptySeq
<1> QED
    BY <1>1, <1>3, <1>6, <1>7

LEMMA RemovesFirst ==
    ASSUME NEW S, NEW s \in Seq(S), NEW m
    PROVE  /\ RemoveFirst(s, m) \in Seq(S)
           /\ ToSet(RemoveFirst(s, m)) \subseteq ToSet(s)
           /\ IsInjective(s) => /\ IsInjective(RemoveFirst(s, m))
                                /\ ToSet(RemoveFirst(s, m)) = ToSet(s) \ {m}
<1>1. CASE ~\E i \in 1..Len(s) : s[i] = m
    BY <1>1 DEF RemoveFirst, ToSet
<1>2. CASE \E i \in 1..Len(s) : s[i] = m
  <2> DEFINE I == {i \in 1..Len(s) : s[i] = m}
  <2>1. I # {} /\ I \in SUBSET Nat
      BY <1>2
  <2>2. PICK k : k = Min(I)
      OBVIOUS
  <2>3. k \in 1..Len(s) /\ s[k] = m
      BY <2>1, <2>2, LeastPlace
  <2>4. PICK t : t = SubSeq(s, 1, k - 1) \o SubSeq(s, k + 1, Len(s))
      OBVIOUS
  <2>5. RemoveFirst(s, m) = t
      BY <1>2, <2>1, <2>2, <2>4 DEF RemoveFirst, SelectInSeq, RemoveAt
  <2>6. /\ SubSeq(s, 1, k - 1) \in Seq(S) /\ Len(SubSeq(s, 1, k - 1)) = k - 1
        /\ \A i \in 1..(k - 1) : SubSeq(s, 1, k - 1)[i] = s[i]
    <3>1. \A i \in 1..(k - 1) : s[i] \in S
        BY <2>3
    <3>2. /\ SubSeq(s, 1, k - 1) \in Seq(S)
          /\ Len(SubSeq(s, 1, k - 1)) = IF 1 <= k - 1 THEN k - 1 - 1 + 1 ELSE 0
          /\ \A i \in 1..(k - 1 - 1 + 1) : SubSeq(s, 1, k - 1)[i] = s[1 + i - 1]
        BY <2>3, <3>1, SubSeqProperties
    <3> QED
        BY <2>3, <3>2
  <2>7. /\ SubSeq(s, k + 1, Len(s)) \in Seq(S)
        /\ Len(SubSeq(s, k + 1, Len(s))) = Len(s) - k
        /\ \A i \in 1..(Len(s) - k) : SubSeq(s, k + 1, Len(s))[i] = s[k + i]
    <3>1. \A i \in (k + 1)..Len(s) : s[i] \in S
        BY <2>3
    <3>2. /\ SubSeq(s, k + 1, Len(s)) \in Seq(S)
          /\ Len(SubSeq(s, k + 1, Len(s)))
               = IF k + 1 <= Len(s) THEN Len(s) - (k + 1) + 1 ELSE 0
          /\ \A i \in 1..(Len(s) - (k + 1) + 1) :
                SubSeq(s, k + 1, Len(s))[i] = s[(k + 1) + i - 1]
        BY <2>3, <3>1, SubSeqProperties
    <3> QED
        BY <2>3, <3>2
  <2>8. /\ t \in Seq(S) /\ Len(t) = (k - 1) + (Len(s) - k)
        /\ \A i \in 1..((k - 1) + (Len(s) - k)) :
              t[i] = IF i <= k - 1 THEN SubSeq(s, 1, k - 1)[i]
                                   ELSE SubSeq(s, k + 1, Len(s))[i - (k - 1)]
      BY <2>4, <2>6, <2>7, ConcatProperties
  <2>9. /\ Len(t) = Len(s) - 1 /\ Len(s) \in Nat
        /\ \A i \in 1..(Len(s) - 1) : t[i] = IF i < k THEN s[i] ELSE s[i + 1]
      BY <2>3, <2>6, <2>7, <2>8
  <2>10. DOMAIN t = 1..(Len(s) - 1) /\ DOMAIN s = 1..Len(s)
      BY <2>8, <2>9
  <2>11. ASSUME NEW i \in DOMAIN t
         PROVE  \E j \in DOMAIN s : t[i] = s[j] /\ j # k /\ j = IF i < k THEN i ELSE i + 1
    <3>1. CASE i < k
        BY <2>3, <2>9, <2>10, <2>11, <3>1
    <3>2. CASE i >= k
        BY <2>3, <2>9, <2>10, <2>11, <3>2
    <3> QED
        BY <2>3, <2>10, <2>11, <3>1, <3>2
  <2>12. ToSet(t) \subseteq ToSet(s)
    <3>1. ASSUME NEW x \in ToSet(t)
          PROVE  x \in ToSet(s)
      <4>1. PICK i \in DOMAIN t : x = t[i]
          BY <3>1 DEF ToSet
      <4> QED
          BY <2>11, <4>1 DEF ToSet
    <3> QED
        BY <3>1
  <2>14. ASSUME IsInjective(s)
         PROVE  IsInjective(t) /\ m \notin ToSet(t)
    <3>1. \A a, b \in DOMAIN s : s[a] = s[b] => a = b
        BY <2>14 DEF IsInjective
    <3>2. ASSUME NEW a \in DOMAIN t, NEW b \in DOMAIN t, t[a] = t[b]
          PROVE  a = b
      <4>1. PICK j \in DOMAIN s : t[a] = s[j] /\ j = IF a < k THEN a ELSE a + 1
          BY <2>11
      <4>2. PICK l \in DOMAIN s : t[b] = s[l] /\ l = IF b < k THEN b ELSE b + 1
          BY <2>11
      <4>3. j = l
          BY <3>1, <3>2, <4>1, <4>2
      <4> QED
          BY <2>3, <2>9, <2>10, <4>1, <4>2, <4>3
    <3>3. m \notin ToSet(t)
        BY <2>3, <2>10, <2>11, <3>1 DEF ToSet
    <3> QED
        BY <3>2, <3>3 DEF IsInjective
  <2>13. ASSUME NEW x \in ToSet(s), x # m
         PROVE  x \in ToSet(t)
    <3>1. PICK i \in 1..Len(s) : x = s[i] /\ i # k
        BY <2>3, <2>13 DEF ToSet
    <3>2. \E j \in DOMAIN t : t[j] = x
      <4>1. CASE i < k
          BY <2>3, <2>9, <2>10, <3>1, <4>1
      <4>2. CASE i > k
        <5>1. i - 1 \in DOMAIN t /\ ~(i - 1 < k) /\ (i - 1) + 1 = i
            BY <2>3, <2>9, <2>10, <3>1, <4>2
        <5>2. t[i - 1] = s[(i - 1) + 1]
            BY <2>9, <2>10, <5>1
        <5> QED
            BY <3>1, <5>1, <5>2
      <4> QED
          BY <2>3, <3>1, <4>1, <4>2
    <3> QED
        BY <3>2 DEF ToSet
  <2> QED
      BY <2>5, <2>8, <2>12, <2>13, <2>14
<1> QED
    BY <1>1, <1>2

-----------------------------------------------------------------------------
(* Types, whose the run is, and who carries messages.  They go together:    *)
(* the end of a run sends its owner on, so the owner must be a caller that  *)
(* waits for it; a rejected prompt gives back the first of its messages, so *)
(* it must carry one.                                                       *)

Entry == [at : Places, pre : BOOLEAN, msgs : Seq(Msgs), willRetry : BOOLEAN]

Data ==
    /\ active \in BOOLEAN /\ signal \in BOOLEAN
    /\ connected \in BOOLEAN /\ overflowTried \in BOOLEAN
    /\ run \in {"none", "running", "ending"} /\ owner \in Callers \cup {NoOne}
    /\ calling \in {"no", "open", "done"}
    /\ pending \in Seq(Msgs) /\ steering \in Seq(Msgs) /\ followUps \in Seq(Msgs)
    /\ shownSteering \in Seq(Msgs) /\ shownFollowUps \in Seq(Msgs)
    /\ nextTurn \in Seq(Msgs)
    /\ context \subseteq Msgs \cup Bashes /\ persisted \subseteq Msgs \cup Bashes
    /\ used \subseteq Msgs \cup Bashes
    /\ lastRole \in {"none", "user", "assistant", "error"}
    /\ pendingBash \subseteq Bashes
    /\ lastAssistant \in Outcomes \cup {"none"}
    /\ retryAttempt \in 0..MaxRetries
    /\ epoch \in Nat /\ token \in Nat /\ runs \in Nat /\ interrupted \subseteq 0..epoch
    /\ returned \subseteq Msgs

LEMMA TypesSplit == TypeOK <=> call \in [Callers -> Entry] /\ Data
BY DEF TypeOK, Entry, Data

(* The run belongs to the one caller that waits for it, holds no message    *)
(* once it ends, and leaves no tool call open.                              *)
Owned ==
    /\ run # "none" => owner \in Callers /\ At(owner, "run")
    /\ \A c \in Callers : At(c, "run") => run # "none" /\ owner = c
    /\ run # "running" => pending = <<>>
    /\ calling = "open" => run = "running"

(* Who carries messages: a prompt() in its preflight or about to start. *)
Handed ==
    \A c \in Callers :
        /\ At(c, "preflight") => call[c].pre
        /\ At(c, "before") => ~call[c].pre
        /\ call[c].msgs # <<>> <=> call[c].pre \/ At(c, "before")

Typed == call \in [Callers -> Entry] /\ Data /\ Owned /\ Handed

(* What the agent and the inputs leave alone. *)
LEMMA KeepsCallers ==
    ASSUME Typed, UNCHANGED <<call, run, owner>>,
           run # "running" => UNCHANGED pending,
           calling' = "open" => run = "running" \/ calling = "open"
    PROVE  call' \in [Callers -> Entry] /\ Owned' /\ Handed'
BY DEF Typed, Owned, Handed, At

LEMMA InputsTyped ==
    ASSUME SessionAssumption, Typed, Inputs
    PROVE  Typed'
<1> USE DEF Typed
<1>1. call' \in [Callers -> Entry] /\ Owned' /\ Handed'
  <2>1. UNCHANGED <<call, run, owner, pending, calling>>
      BY DEF Inputs, Steer, FollowUp, NextTurn, RecordBash, ClearQueue, agent
  <2> QED
      BY <2>1, KeepsCallers
<1>2. Data'
  <2> USE DEF Data, Accept, agent, queues, shown, log, retry, epochs
  <2>1. ASSUME NEW m \in Msgs, Steer(m) \/ FollowUp(m) \/ NextTurn(m)
        PROVE  Data'
    <3>1. CASE Steer(m)
        BY <3>1, AppendsOne DEF Steer
    <3>2. CASE FollowUp(m)
        BY <3>2, AppendsOne DEF FollowUp
    <3>3. CASE NextTurn(m)
        BY <3>3, AppendsOne DEF NextTurn
    <3> QED
        BY <2>1, <3>1, <3>2, <3>3
  <2>2. ASSUME NEW b \in Bashes, RecordBash(b)
        PROVE  Data'
      BY <2>2 DEF RecordBash
  <2>3. CASE ClearQueue
    <3>1. ToSet(shownSteering) \subseteq Msgs /\ ToSet(shownFollowUps) \subseteq Msgs
        BY DEF ToSet
    <3> QED
        BY <2>3, <3>1 DEF ClearQueue
  <2> QED
      BY <2>1, <2>2, <2>3 DEF Inputs
<1> QED
    BY <1>1, <1>2

LEMMA AgentTyped ==
    ASSUME SessionAssumption, Typed, Agent
    PROVE  Typed'
<1> USE DEF Typed
<1>1. CASE Drain
  <2>1. call' \in [Callers -> Entry] /\ Owned' /\ Handed'
      BY <1>1, KeepsCallers DEF Drain
  <2>2. CASE steering # <<>> /\ pending' = <<Head(steering)>> /\ steering' = Tail(steering)
             /\ UNCHANGED followUps
    <3>1. <<Head(steering)>> \in Seq(Msgs) /\ Tail(steering) \in Seq(Msgs)
        BY <2>2, TakesHead DEF Data
    <3> QED
        BY <1>1, <2>1, <2>2, <3>1 DEF Drain, Data, shown, log, retry, epochs
  <2>3. CASE followUps # <<>> /\ pending' = <<Head(followUps)>> /\ followUps' = Tail(followUps)
             /\ UNCHANGED steering
    <3>1. <<Head(followUps)>> \in Seq(Msgs) /\ Tail(followUps) \in Seq(Msgs)
        BY <2>3, TakesHead DEF Data
    <3> QED
        BY <1>1, <2>1, <2>3, <3>1 DEF Drain, Data, shown, log, retry, epochs
  <2> QED
      BY <1>1, <2>2, <2>3 DEF Drain
<1>2. CASE EmitMessage
  <2>1. call' \in [Callers -> Entry] /\ Owned' /\ Handed'
      BY <1>2, KeepsCallers DEF EmitMessage
  <2>2. Head(pending) \in Msgs /\ Tail(pending) \in Seq(Msgs)
      BY <1>2, TakesHead DEF EmitMessage, Data
  <2>3. shownSteering' \in Seq(Msgs) /\ shownFollowUps' \in Seq(Msgs)
      BY <1>2, RemovesFirst DEF EmitMessage, TakeOffDisplay, shown, Data
  <2>4. Data'
      BY <1>2, <2>2, <2>3 DEF EmitMessage, Data, queues, retry, epochs
  <2> QED
      BY <2>1, <2>4
<1>3. CASE CallTools
  <2>1. call' \in [Callers -> Entry] /\ Owned' /\ Handed'
      BY <1>3, KeepsCallers DEF CallTools
  <2>2. Data'
      BY <1>3 DEF CallTools, AssistantEnds, Data, SessionAssumption, Outcomes, queues, shown,
                  epochs
  <2> QED
      BY <2>1, <2>2
<1>4. CASE ToolsAnswered
  <2>1. call' \in [Callers -> Entry] /\ Owned' /\ Handed'
      BY <1>4, KeepsCallers DEF ToolsAnswered
  <2>2. Data'
      BY <1>4 DEF ToolsAnswered, Data, queues, shown, retry, epochs
  <2> QED
      BY <2>1, <2>2
<1>5. CASE RunFinishes
  <2>1. owner \in Callers /\ call[owner] \in Entry /\ At(owner, "run")
      BY <1>5 DEF RunFinishes, Owned
  <2>2. call' \in [Callers -> Entry]
      BY <1>5, <2>1 DEF RunFinishes, Goto, Entry, Places
  <2>3. Owned' /\ Handed'
      BY <1>5, <2>1 DEF RunFinishes, Goto, Owned, Handed, At, Entry
  <2>4. Data'
      BY <1>5 DEF RunFinishes, Data, queues, shown, log, retry
  <2> QED
      BY <2>2, <2>3, <2>4
<1>6. ASSUME NEW outcome \in Outcomes, RunEnds(outcome)
      PROVE  Typed'
  <2>1. call' \in [Callers -> Entry] /\ Handed'
      BY <1>6 DEF RunEnds, Handed, At
  <2>2. Owned'
      BY <1>6 DEF RunEnds, Owned, At
  <2>3. Data'
      BY <1>6 DEF RunEnds, AssistantEnds, Data, SessionAssumption, Outcomes, queues, shown,
                  epochs
  <2> QED
      BY <2>1, <2>2, <2>3
<1> QED
    BY <1>1, <1>2, <1>3, <1>4, <1>5, <1>6 DEF Agent

(* Going on to another place, with or without a decision about a retry. *)
LEMMA GoesOn ==
    ASSUME call \in [Callers -> Entry], NEW c \in Callers, NEW p \in Places,
           NEW w \in BOOLEAN,
           call' = [call EXCEPT ![c].at = p]
             \/ call' = [call EXCEPT ![c].at = p, ![c].willRetry = w]
    PROVE  /\ call' \in [Callers -> Entry]
           /\ \A x \in Callers : /\ call'[x].at = IF x = c THEN p ELSE call[x].at
                                 /\ call'[x].pre = call[x].pre
                                 /\ call'[x].msgs = call[x].msgs
<1>1. CASE call' = [call EXCEPT ![c].at = p]
    BY <1>1 DEF Entry
<1>2. CASE call' = [call EXCEPT ![c].at = p, ![c].willRetry = w]
  <2>1. call' = [call EXCEPT ![c] = [at |-> p, pre |-> call[c].pre, msgs |-> call[c].msgs,
                                     willRetry |-> w]]
      BY <1>2 DEF Entry
  <2> QED
      BY <2>1 DEF Entry
<1> QED
    BY <1>1, <1>2

(* A move of one caller that neither starts a run nor enters or leaves the   *)
(* places where messages are carried disturbs nothing.                       *)
LEMMA MovesOn ==
    ASSUME Typed, NEW c \in Callers, NEW p \in Places \ {"preflight", "before", "run"},
           ~At(c, "before"), ~At(c, "run"),
           \A x \in Callers : /\ call'[x].at = IF x = c THEN p ELSE call[x].at
                              /\ call'[x].pre = call[x].pre
                              /\ call'[x].msgs = call[x].msgs,
           UNCHANGED <<run, owner, pending, calling>>
    PROVE  Owned' /\ Handed'
BY DEF Typed, Owned, Handed, At

LEMMA Wanders ==
    ASSUME Typed, NEW c \in Callers, NEW p \in Places \ {"preflight", "before", "run"},
           NEW w \in BOOLEAN, ~At(c, "before"), ~At(c, "run"),
           call' = [call EXCEPT ![c].at = p]
             \/ call' = [call EXCEPT ![c].at = p, ![c].willRetry = w],
           UNCHANGED <<run, owner, pending, calling>>
    PROVE  call' \in [Callers -> Entry] /\ Owned' /\ Handed'
<1>1. call \in [Callers -> Entry] /\ p \in Places
    BY DEF Typed
<1> QED
    BY <1>1, GoesOn, MovesOn

LEMMA CompactionChecked ==
    ASSUME Typed, NEW c \in Callers, NEW outcome \in Outcomes, CheckCompaction(c, outcome),
           ~At(c, "before"), ~At(c, "run"), UNCHANGED <<run, owner, pending, calling>>
    PROVE  /\ call' \in [Callers -> Entry] /\ Owned' /\ Handed'
           /\ shownSteering' \in Seq(Msgs) /\ UNCHANGED shownFollowUps
           /\ overflowTried' \in BOOLEAN
<1>1. PICK p \in {"again", "finish", "compact"}, w \in BOOLEAN :
          call' = [call EXCEPT ![c].at = p]
            \/ call' = [call EXCEPT ![c].at = p, ![c].willRetry = w]
    BY DEF CheckCompaction, AfterNoCompaction, Goto
<1>2. p \in Places \ {"preflight", "before", "run"}
    BY DEF Places
<1>3. call' \in [Callers -> Entry] /\ Owned' /\ Handed'
    BY <1>1, <1>2, Wanders
<1>4. shownSteering' \in {<<>>, shownSteering} /\ UNCHANGED shownFollowUps
    BY DEF CheckCompaction, AfterNoCompaction
<1>5. shownSteering' \in Seq(Msgs)
  <2>1. shownSteering \in Seq(Msgs) /\ <<>> \in Seq(Msgs)
      BY EmptySeq DEF Typed, Data
  <2> QED
      BY <1>4, <2>1
<1>6. overflowTried' \in BOOLEAN
    BY DEF CheckCompaction
<1> QED
    BY <1>3, <1>4, <1>5, <1>6

(* The messages of the next turn join a prompt that is let through. *)
LEMMA LetsThrough ==
    ASSUME Typed, NEW c \in Callers, NEW ms \in Seq(Msgs), ms # <<>>, EnterBefore(c, ms),
           ~At(c, "run"), UNCHANGED <<run, owner, pending, calling>>
    PROVE  /\ call' \in [Callers -> Entry] /\ Owned' /\ Handed'
           /\ nextTurn' \in Seq(Msgs)
<1>1. ms \o nextTurn \in Seq(Msgs) /\ ms \o nextTurn # <<>>
    BY JoinsTwo DEF Typed, Data
<1>2. call' \in [Callers -> Entry]
    BY <1>1 DEF EnterBefore, Ready, Typed, Entry, Places
<1>3. Owned' /\ Handed'
    BY <1>1, <1>2 DEF EnterBefore, Ready, Typed, Entry, Owned, Handed, At
<1>4. nextTurn' \in Seq(Msgs)
    BY DEF EnterBefore
<1> QED
    BY <1>2, <1>3, <1>4

LEMMA ClientTyped ==
    ASSUME SessionAssumption, Typed, NEW c \in Callers, Client(c)
    PROVE  Typed'
<1> USE DEF Typed
<1>1. ASSUME NEW m \in Msgs, Prompt(c, m)
      PROVE  Typed'
  <2>1. UNCHANGED <<run, owner, pending, calling>>
      BY <1>1 DEF Prompt, agent
  <2>2. <<m>> \in Seq(Msgs) /\ <<m>> # <<>> /\ ~At(c, "run")
      BY <1>1 DEF Prompt, At
  <2>3. CASE EnterBefore(c, <<m>>) /\ UNCHANGED overflowTried
    <3>1. call' \in [Callers -> Entry] /\ Owned' /\ Handed' /\ nextTurn' \in Seq(Msgs)
        BY <2>1, <2>2, <2>3, LetsThrough
    <3> QED
        BY <1>1, <2>3, <3>1 DEF Prompt, Flush, Accept, Data, agent, queues, shown, epochs
  <2>4. ASSUME NEW w \in BOOLEAN,
               call' = [call EXCEPT ![c] = [at |-> "preflight", pre |-> TRUE,
                                            msgs |-> <<m>>, willRetry |-> w]],
               UNCHANGED nextTurn, overflowTried' = (overflowTried \/ w)
        PROVE  Typed'
    <3>1. call' \in [Callers -> Entry]
        BY <2>2, <2>4 DEF Entry, Places
    <3>2. Owned' /\ Handed'
        BY <2>1, <2>2, <2>4 DEF Owned, Handed, At, Entry
    <3> QED
        BY <1>1, <2>4, <3>1, <3>2 DEF Prompt, Flush, Accept, Data, agent, queues, shown, epochs
  <2> QED
      BY <1>1, <2>3, <2>4 DEF Prompt
<1>2. ASSUME NEW w \in {"waiting", "stopping"}, NEW p \in {"ready", "compacting"},
             At(c, "ready"), AbortThen(c, w, p)
      PROVE  /\ call' \in [Callers -> Entry] /\ Owned' /\ Handed'
             /\ signal' \in BOOLEAN /\ epoch' \in Nat /\ token' \in Nat
             /\ interrupted' \subseteq 0..epoch' /\ UNCHANGED <<run, owner, pending, calling, runs>>
  <2>1. call' \in [Callers -> Entry]
    <3>1. [Ready EXCEPT !.at = w] \in Entry /\ [Ready EXCEPT !.at = p] \in Entry
        BY EmptySeq DEF Ready, Entry, Places
    <3>2. ASSUME NEW x \in Callers
          PROVE  call[x] \in Entry /\ [call[x] EXCEPT !.at = "cancelled"] \in Entry
        BY DEF Entry, Places
    <3> QED
        BY <1>2, <3>1, <3>2 DEF AbortThen
  <2>2. Owned' /\ Handed'
      BY <1>2, <2>1 DEF AbortThen, Ready, Entry, Owned, Handed, At
  <2>3. signal' \in BOOLEAN /\ epoch' \in Nat /\ token' \in Nat
      BY <1>2 DEF AbortThen, InterruptEpoch, Data
  <2>4. interrupted' \subseteq 0..epoch'
      BY <1>2 DEF AbortThen, InterruptEpoch, Data
  <2> QED
      BY <1>2, <2>1, <2>2, <2>3, <2>4 DEF AbortThen
<1>3. CASE Abort(c)
  <2>1. /\ call' \in [Callers -> Entry] /\ Owned' /\ Handed'
        /\ signal' \in BOOLEAN /\ epoch' \in Nat /\ token' \in Nat
        /\ interrupted' \subseteq 0..epoch' /\ UNCHANGED <<run, owner, pending, calling, runs>>
      BY <1>2, <1>3 DEF Abort
  <2> QED
      BY <1>3, <2>1 DEF Abort, Data, queues, shown, log, retry
<1>4. CASE Compact(c)
  <2>1. /\ call' \in [Callers -> Entry] /\ Owned' /\ Handed'
        /\ signal' \in BOOLEAN /\ epoch' \in Nat /\ token' \in Nat
        /\ interrupted' \subseteq 0..epoch' /\ UNCHANGED <<run, owner, pending, calling, runs>>
      BY <1>2, <1>4 DEF Compact
  <2> QED
      BY <1>4, <2>1 DEF Compact, Data, queues, shown, log, retry
<1> QED
    BY <1>1, <1>3, <1>4 DEF Client

LEMMA ResumeTyped ==
    ASSUME SessionAssumption, Typed, NEW c \in Callers, Resume(c)
    PROVE  Typed'
<1> USE DEF Typed
<1>0. call[c] \in Entry /\ call[c].msgs \in Seq(Msgs)
    BY DEF Entry
<1>1. CASE RunAgentPrompt(c)
  <2>1. Head(call[c].msgs) \in Msgs
      BY <1>0, <1>1, TakesHead DEF RunAgentPrompt, Handed
  <2>2. CASE run # "none"
    <3>1. call' = [call EXCEPT ![c] = [Ready EXCEPT !.at = "finish"]]
        BY <1>1, <2>2 DEF RunAgentPrompt
    <3>2. call' \in [Callers -> Entry]
        BY <3>1, EmptySeq DEF Ready, Entry, Places
    <3>3. Owned' /\ Handed'
        BY <1>1, <2>2, <3>1 DEF RunAgentPrompt, Ready, Entry, Owned, Handed, At, agent
    <3> QED
        BY <1>1, <2>1, <2>2, <3>2, <3>3
           DEF RunAgentPrompt, MarkActive, Data, agent, queues, shown, log, retry
  <2>3. CASE run = "none"
    <3>1. call' = [call EXCEPT ![c] = [Ready EXCEPT !.at = "run"]]
        BY <1>1, <2>3 DEF RunAgentPrompt
    <3>2. call' \in [Callers -> Entry]
        BY <3>1, EmptySeq DEF Ready, Entry, Places
    <3>3. Owned' /\ Handed'
        BY <1>1, <2>3, <3>1 DEF RunAgentPrompt, StartRun, Ready, Entry, Owned, Handed, At
    <3>4. StartRun(c, call[c].msgs) /\ UNCHANGED returned
        BY <1>1, <2>3 DEF RunAgentPrompt
    <3>5. /\ run' = "running" /\ owner' = c /\ signal' = FALSE /\ calling' = "no"
          /\ pending' \in Seq(Msgs)
        BY <1>0, <3>4 DEF StartRun
    <3>6. runs' \in Nat /\ epoch' \in Nat /\ token' \in Nat /\ interrupted' \subseteq 0..epoch'
        BY <1>1, <3>4 DEF RunAgentPrompt, StartRun, Data
    <3>7. UNCHANGED <<queues, shown, nextTurn, log, pendingBash, connected, retry, used, returned>>
          /\ active' = TRUE
        BY <1>1, <3>4 DEF RunAgentPrompt, MarkActive
    <3>8. Data'
        BY <3>5, <3>6, <3>7 DEF Data, queues, shown, log, retry
    <3> QED
        BY <3>2, <3>3, <3>8
  <2> QED
      BY <2>2, <2>3
<1>2. CASE PostRun(c)
  <2>1. /\ UNCHANGED <<run, owner, pending, calling>>
        /\ ~At(c, "before") /\ ~At(c, "run")
      BY <1>2 DEF PostRun, agent, At
  <2>2. ASSUME NEW p \in {"finish", "sleep"}, call' = [call EXCEPT ![c].at = p]
        PROVE  call' \in [Callers -> Entry] /\ Owned' /\ Handed'
    <3>1. p \in Places \ {"preflight", "before", "run"}
        BY DEF Places
    <3> QED
        BY <2>1, <2>2, <3>1, Wanders
  <2>3. ASSUME CheckCompaction(c, lastAssistant), lastAssistant # "none"
        PROVE  call' \in [Callers -> Entry] /\ Owned' /\ Handed'
    <3>1. lastAssistant \in Outcomes
        BY <2>3 DEF Data
    <3> QED
        BY <2>1, <2>3, <3>1, CompactionChecked
  <2>4. call' \in [Callers -> Entry] /\ Owned' /\ Handed'
      BY <1>2, <2>2, <2>3 DEF PostRun, Goto
  <2>5. /\ shownSteering' \in Seq(Msgs) /\ UNCHANGED shownFollowUps
        /\ overflowTried' \in BOOLEAN
    <3>1. CASE UNCHANGED <<overflowTried, shown>>
        BY <3>1 DEF Data, shown
    <3>2. CASE CheckCompaction(c, lastAssistant) /\ lastAssistant # "none"
      <4>1. lastAssistant \in Outcomes
          BY <3>2 DEF Data
      <4> QED
          BY <2>1, <3>2, <4>1, CompactionChecked
    <3> QED
        BY <1>2, <3>1, <3>2 DEF PostRun
  <2>6. retryAttempt' \in 0..MaxRetries /\ lastAssistant' \in Outcomes \cup {"none"}
      BY <1>2 DEF PostRun, WillRetry, Data, SessionAssumption
  <2>7. lastRole' \in {"none", "user", "assistant", "error"}
      BY <1>2 DEF PostRun, Data, log
  <2> QED
      BY <1>2, <2>4, <2>5, <2>6, <2>7 DEF PostRun, Data, agent, queues, epochs
<1>3. CASE SleepEnds(c)
  <2>1. call' \in [Callers -> Entry] /\ Owned' /\ Handed'
    <3>1. "again" \in Places \ {"preflight", "before", "run"}
        BY DEF Places
    <3>2. /\ UNCHANGED <<run, owner, pending, calling>> /\ ~At(c, "before") /\ ~At(c, "run")
          /\ call' = [call EXCEPT ![c].at = "again"]
        BY <1>3 DEF SleepEnds, agent, At, Goto
    <3> QED
        BY <3>1, <3>2, Wanders
  <2> QED
      BY <1>3, <2>1 DEF SleepEnds, Data, agent, queues, shown, log, retry, epochs
<1>4. CASE SleepCancelled(c)
  <2>1. /\ UNCHANGED <<run, owner, pending, calling>> /\ ~At(c, "before") /\ ~At(c, "run")
        /\ "error" \in Outcomes
      BY <1>4 DEF SleepCancelled, agent, At, Outcomes
  <2>2. /\ call' \in [Callers -> Entry] /\ Owned' /\ Handed'
        /\ shownSteering' \in Seq(Msgs) /\ UNCHANGED shownFollowUps
        /\ overflowTried' \in BOOLEAN
      BY <1>4, <2>1, CompactionChecked DEF SleepCancelled
  <2> QED
      BY <1>4, <2>2 DEF SleepCancelled, Data, SessionAssumption, agent, queues, log, epochs
<1>5. CASE ContinueAgent(c)
  <2>1. At(c, "again") /\ run = "none" /\ call' = [call EXCEPT ![c].at = "run"]
      BY <1>5 DEF ContinueAgent, CannotContinue, Goto
  <2>2. call' \in [Callers -> Entry] /\ \A x \in Callers :
                                          /\ call'[x].at = IF x = c THEN "run" ELSE call[x].at
                                          /\ call'[x].pre = call[x].pre
                                          /\ call'[x].msgs = call[x].msgs
      BY <2>1, GoesOn DEF Places
  <2>3. PICK ms : StartRun(c, ms)
      BY <1>5 DEF ContinueAgent
  <2>4. Owned' /\ Handed'
      BY <2>1, <2>2, <2>3 DEF StartRun, Owned, Handed, At
  <2>5. pending' \in Seq(Msgs) /\ steering' \in Seq(Msgs) /\ followUps' \in Seq(Msgs)
    <3>1. CASE pending' = <<>> /\ UNCHANGED queues
        BY <3>1, EmptySeq DEF Data, queues
    <3>2. CASE /\ steering # <<>> /\ pending' = <<Head(steering)>>
               /\ steering' = Tail(steering) /\ UNCHANGED followUps
        BY <3>2, TakesHead DEF Data
    <3>3. CASE /\ followUps # <<>> /\ pending' = <<Head(followUps)>>
               /\ followUps' = Tail(followUps) /\ UNCHANGED steering
        BY <3>3, TakesHead DEF Data
    <3> QED
        BY <1>5, <3>1, <3>2, <3>3 DEF ContinueAgent, StartRun, CannotContinue, HasQueued
  <2>6. /\ run' = "running" /\ owner' = c /\ signal' = FALSE /\ calling' = "no"
        /\ runs' = runs + 1
      BY <2>3 DEF StartRun
  <2>7. UNCHANGED <<active, shown, nextTurn, log, pendingBash, connected, retry, epochs, used,
                    returned>>
      BY <1>5 DEF ContinueAgent
  <2>8. runs' \in Nat
      BY <2>6 DEF Data
  <2>9. Data'
      BY <2>5, <2>6, <2>7, <2>8 DEF Data, shown, log, retry, epochs
  <2> QED
      BY <2>2, <2>4, <2>9
<1>6. CASE PreflightEnds(c)
  <2>1. /\ call[c].pre /\ call[c].msgs # <<>> /\ UNCHANGED <<run, owner, pending, calling>>
        /\ ~At(c, "run")
      BY <1>6 DEF PreflightEnds, Handed, agent, At
  <2>2. Head(call[c].msgs) \in Msgs
      BY <1>0, <2>1, TakesHead
  <2>3. CASE EnterBefore(c, call[c].msgs) /\ UNCHANGED returned
    <3>1. call' \in [Callers -> Entry] /\ Owned' /\ Handed' /\ nextTurn' \in Seq(Msgs)
        BY <1>0, <2>1, <2>3, LetsThrough
    <3> QED
        BY <1>6, <2>3, <3>1 DEF PreflightEnds, Flush, Data, agent, queues, shown, retry, epochs
  <2>4. CASE /\ call' = [call EXCEPT ![c] = Ready] /\ UNCHANGED nextTurn
             /\ returned' = returned \cup {Head(call[c].msgs)}
    <3>1. call' \in [Callers -> Entry]
        BY <2>4, EmptySeq DEF Ready, Entry, Places
    <3>2. Owned' /\ Handed'
        BY <2>1, <2>4 DEF Ready, Entry, Owned, Handed, At
    <3> QED
        BY <1>6, <2>2, <2>4, <3>1, <3>2
           DEF PreflightEnds, Flush, Data, agent, queues, shown, retry, epochs
  <2> QED
      BY <1>6, <2>3, <2>4 DEF PreflightEnds
<1>7. CASE Settle(c)
  <2>1. call' \in [Callers -> Entry] /\ Owned' /\ Handed'
    <3>1. "settling" \in Places \ {"preflight", "before", "run"}
        BY DEF Places
    <3>2. /\ UNCHANGED <<run, owner, pending, calling>> /\ ~At(c, "before") /\ ~At(c, "run")
          /\ call' = [call EXCEPT ![c].at = "settling"]
        BY <1>7 DEF Settle, agent, At, Goto
    <3> QED
        BY <3>1, <3>2, Wanders
  <2> QED
      BY <1>7, <2>1 DEF Settle, Flush, Data, agent, queues, shown, retry, epochs
<1>8. CASE Settled(c)
  <2>1. Ready \in Entry /\ [Ready EXCEPT !.at = "compacting"] \in Entry
      BY EmptySeq DEF Ready, Entry, Places
  <2>2. call' \in [Callers -> Entry]
    <3>1. \A x \in Callers : Released(x) \in Entry
        BY <2>1 DEF Released
    <3> QED
        BY <1>8, <2>1, <3>1 DEF Settled
  <2>3. Owned' /\ Handed'
    <3>1. ASSUME NEW x \in Callers
          PROVE  \/ call'[x] = call[x]
                 \/ /\ call'[x].at \in {"ready", "compacting"} /\ ~call'[x].pre
                    /\ call'[x].msgs = <<>>
                    /\ At(x, "settling") \/ At(x, "waiting") \/ At(x, "stopping")
        BY <1>8 DEF Settled, Released, Ready
    <3>2. UNCHANGED <<run, owner, pending, calling>>
        BY <1>8 DEF Settled, agent
    <3>3. Owned'
        BY <3>1, <3>2 DEF Owned, At
    <3>4. Handed'
        BY <3>1, <3>2 DEF Handed, At
    <3> QED
        BY <3>3, <3>4
  <2> QED
      BY <1>8, <2>2, <2>3 DEF Settled, Data, agent, queues, shown, log, retry, epochs
<1>9. CASE CompactEnds(c)
  <2>1. call' \in [Callers -> Entry]
      BY <1>9, EmptySeq DEF CompactEnds, Ready, Entry, Places
  <2>2. Owned' /\ Handed'
      BY <1>9 DEF CompactEnds, Ready, Entry, Owned, Handed, At, agent
  <2> QED
      BY <1>9, <2>1, <2>2 DEF CompactEnds, Data, agent, queues, shown, retry, epochs
<1>10. ASSUME NEW how \in Compactions, PreflightCompactionEnds(c, how)
       PROVE  Typed'
  <2>1. /\ call[c].msgs # <<>> /\ UNCHANGED <<run, owner, pending, calling>>
        /\ ~At(c, "before") /\ ~At(c, "run")
      BY <1>10 DEF PreflightCompactionEnds, Handed, agent, At
  <2>2. context' \subseteq Msgs \cup Bashes /\ persisted' \subseteq Msgs \cup Bashes
      BY <1>10 DEF PreflightCompactionEnds, Compacted, Data
  <2>3. lastRole' \in {"none", "user", "assistant", "error"}
      BY <1>10 DEF PreflightCompactionEnds, Compacted, Data
  <2>4. CASE Goto(c, "again") /\ UNCHANGED nextTurn
    <3>1. call' \in [Callers -> Entry] /\ Owned' /\ Handed'
          /\ UNCHANGED <<run, owner, pending, calling>>
        BY <1>10, <2>1, <2>4 DEF Goto, PreflightCompactionEnds, Entry, Places, Owned, Handed, At
    <3> QED
        BY <1>10, <2>2, <2>3, <2>4, <3>1
           DEF PreflightCompactionEnds, Data, agent, queues, shown, retry, epochs
  <2>5. CASE EnterBefore(c, call[c].msgs)
    <3>1. call' \in [Callers -> Entry] /\ Owned' /\ Handed' /\ nextTurn' \in Seq(Msgs)
        BY <1>0, <2>1, <2>5, LetsThrough
    <3> QED
        BY <1>10, <2>2, <2>3, <3>1
           DEF PreflightCompactionEnds, Data, agent, queues, shown, retry, epochs
  <2> QED
      BY <1>10, <2>4, <2>5 DEF PreflightCompactionEnds
<1>11. ASSUME NEW how \in Compactions, AutoCompactionEnds(c, how)
       PROVE  Typed'
  <2>1. /\ UNCHANGED <<run, owner, pending, calling>> /\ ~At(c, "before") /\ ~At(c, "run")
      BY <1>11 DEF AutoCompactionEnds, agent, At
  <2>2. context' \subseteq Msgs \cup Bashes /\ persisted' \subseteq Msgs \cup Bashes
      BY <1>11 DEF AutoCompactionEnds, Compacted, Data
  <2>3. lastRole' \in {"none", "user", "assistant", "error"}
      BY <1>11 DEF AutoCompactionEnds, Compacted, Data
  <2>4. /\ shownSteering' \in {<<>>, shownSteering}
        /\ \E p \in {"again", "finish"} : call' = [call EXCEPT ![c].at = p]
      BY <1>11 DEF AutoCompactionEnds, AfterNoCompaction, Goto
  <2>5. shownSteering' \in Seq(Msgs)
    <3>1. shownSteering \in Seq(Msgs) /\ <<>> \in Seq(Msgs)
        BY EmptySeq DEF Data
    <3> QED
        BY <2>4, <3>1
  <2>6. call' \in [Callers -> Entry] /\ Owned' /\ Handed'
    <3>1. PICK p \in {"again", "finish"} : call' = [call EXCEPT ![c].at = p]
        BY <2>4
    <3>2. p \in Places \ {"preflight", "before", "run"}
        BY DEF Places
    <3> QED
        BY <2>1, <3>1, <3>2, Wanders
  <2> QED
      BY <1>11, <2>2, <2>3, <2>5, <2>6
         DEF AutoCompactionEnds, Data, agent, queues, retry, epochs
<1> QED
    BY <1>1, <1>2, <1>3, <1>4, <1>5, <1>6, <1>7, <1>8, <1>9, <1>10, <1>11 DEF Resume

LEMMA TypedInit == SessionAssumption /\ Init => Typed
<1> SUFFICES ASSUME SessionAssumption, Init
             PROVE  Typed
    OBVIOUS
<1>1. Ready \in Entry
    BY EmptySeq DEF Ready, Entry, Places
<1>2. call \in [Callers -> Entry] /\ Owned /\ Handed
    BY <1>1 DEF Init, Ready, Owned, Handed, At
<1>3. Data
  <2>1. /\ pending \in Seq(Msgs) /\ steering \in Seq(Msgs) /\ followUps \in Seq(Msgs)
        /\ shownSteering \in Seq(Msgs) /\ shownFollowUps \in Seq(Msgs)
        /\ nextTurn \in Seq(Msgs)
      BY EmptySeq DEF Init
  <2>2. retryAttempt \in 0..MaxRetries
      BY DEF Init, SessionAssumption
  <2> QED
      BY <2>1, <2>2 DEF Init, Data
<1> QED
    BY <1>2, <1>3 DEF Typed

LEMMA TypedStep == SessionAssumption /\ Typed /\ [Next]_vars => Typed'
<1> SUFFICES ASSUME SessionAssumption, Typed, [Next]_vars
             PROVE  Typed'
    OBVIOUS
<1>1. CASE UNCHANGED vars
    BY <1>1 DEF Typed, Data, Owned, Handed, At, vars, agent, queues, shown, log, retry, epochs
<1> QED
    BY <1>1, InputsTyped, AgentTyped, ClientTyped, ResumeTyped DEF Next

(* Every variable keeps its type, however the callers' prompts, aborts,     *)
(* compactions and retries interleave: the retries stay within the limit,   *)
(* and a run that ends always has a caller to send on.                      *)
THEOREM TypeCorrect == Spec => []TypeOK
<1>1. Typed => TypeOK
    BY TypesSplit DEF Typed
<1> QED
    BY <1>1, TypedInit, TypedStep, SessionAssumption, PTL DEF Spec

-----------------------------------------------------------------------------
(* What is displayed as queued.                                            *)

InQueues == ToSet(steering) \cup ToSet(followUps) \cup ToSet(pending)

(* A text is displayed once, and only a text that was sent: so the text     *)
(* taken off when its message is emitted was the only one of its kind.      *)
Displayed ==
    /\ connected
    /\ IsInjective(shownSteering) /\ IsInjective(shownFollowUps)
    /\ ToSet(shownSteering) \cap ToSet(shownFollowUps) = {}
    /\ ToSet(shownSteering) \cup ToSet(shownFollowUps) \subseteq used
    /\ ShownIsPending

LEMMA DisplayedNext ==
    ASSUME connected' = TRUE, IsInjective(shownSteering'), IsInjective(shownFollowUps'),
           ToSet(shownSteering') \cap ToSet(shownFollowUps') = {},
           ToSet(shownSteering') \cup ToSet(shownFollowUps') \subseteq used',
           ToSet(shownSteering') \cup ToSet(shownFollowUps')
             \subseteq ToSet(steering') \cup ToSet(followUps') \cup ToSet(pending')
    PROVE  Displayed'
BY DEF Displayed, ShownIsPending, ToSet, IsInjective

(* The queues only lose what a run takes in hand, and the display at most    *)
(* forgets its steering texts.                                               *)
KeepsShown ==
    /\ InQueues \subseteq InQueues'
    /\ shownSteering' \in {<<>>, shownSteering} /\ UNCHANGED shownFollowUps
    /\ used \subseteq used' /\ connected' = TRUE

LEMMA DisplayKept == Displayed /\ KeepsShown => Displayed'
<1> SUFFICES ASSUME Displayed, KeepsShown
             PROVE  Displayed'
    OBVIOUS
<1>1. /\ ToSet(shownSteering') \subseteq ToSet(shownSteering)
      /\ IsInjective(shownSteering') /\ IsInjective(shownFollowUps')
      /\ ToSet(shownFollowUps') = ToSet(shownFollowUps)
    BY DEF KeepsShown, Displayed, ToSet, IsInjective
<1>2. InQueues' = ToSet(steering') \cup ToSet(followUps') \cup ToSet(pending')
    BY DEF InQueues, ToSet
<1> QED
    BY <1>1, <1>2, DisplayedNext DEF KeepsShown, Displayed, ShownIsPending, InQueues

(* The queues and the hand of the run, wherever a run begins or goes on. *)
LEMMA TakesInHand ==
    ASSUME Typed,
           \/ UNCHANGED queues /\ (pending = <<>> \/ UNCHANGED pending)
           \/ /\ steering # <<>> /\ pending = <<>> /\ pending' = <<Head(steering)>>
              /\ steering' = Tail(steering) /\ UNCHANGED followUps
           \/ /\ followUps # <<>> /\ pending = <<>> /\ pending' = <<Head(followUps)>>
              /\ followUps' = Tail(followUps) /\ UNCHANGED steering
    PROVE  InQueues \subseteq InQueues'
<1> USE DEF Typed, Data
<1>1. InQueues' = ToSet(steering') \cup ToSet(followUps') \cup ToSet(pending')
    BY DEF InQueues, ToSet
<1>2. ToSet(<<>>) = {}
    BY DEF ToSet
<1>3. CASE UNCHANGED queues /\ (pending = <<>> \/ UNCHANGED pending)
    BY <1>1, <1>2, <1>3 DEF InQueues, queues
<1>4. CASE /\ steering # <<>> /\ pending = <<>> /\ pending' = <<Head(steering)>>
           /\ steering' = Tail(steering) /\ UNCHANGED followUps
    BY <1>1, <1>2, <1>4, TakesHead DEF InQueues
<1>5. CASE /\ followUps # <<>> /\ pending = <<>> /\ pending' = <<Head(followUps)>>
           /\ followUps' = Tail(followUps) /\ UNCHANGED steering
    BY <1>1, <1>2, <1>5, TakesHead DEF InQueues
<1> QED
    BY <1>3, <1>4, <1>5

(* The steps that queue nothing, clear nothing and emit nothing. *)
LEMMA OthersKeepShown ==
    ASSUME ManualCompaction = FALSE, Typed, connected, Next,
           ~(\E m \in Msgs : Steer(m) \/ FollowUp(m)), ~ClearQueue, ~EmitMessage
    PROVE  KeepsShown
<1>1. CASE Inputs
    BY <1>1 DEF Inputs, NextTurn, RecordBash, Accept, KeepsShown, InQueues, agent, queues,
                shown, ToSet
<1>2. CASE Agent
  <2>1. /\ UNCHANGED <<shown, used, connected>>
      BY <1>2 DEF Agent, Drain, CallTools, ToolsAnswered, RunEnds, RunFinishes
  <2>2. InQueues \subseteq InQueues'
    <3>1. CASE Drain
        BY <3>1, TakesInHand DEF Drain
    <3>2. CASE ~Drain
        BY <1>2, <3>2, TakesInHand DEF Agent, CallTools, ToolsAnswered, RunEnds, RunFinishes
    <3> QED
        BY <3>1, <3>2
  <2> QED
      BY <2>1, <2>2 DEF KeepsShown, shown
<1>3. ASSUME NEW c \in Callers, Client(c)
      PROVE  KeepsShown
  <2>1. /\ UNCHANGED <<queues, pending, shown, connected>>
        /\ used \subseteq used'
      BY <1>3 DEF Client, Prompt, Accept, Abort, Compact, AbortThen, agent
  <2> QED
      BY <2>1, TakesInHand DEF KeepsShown, shown
<1>4. ASSUME NEW c \in Callers, Resume(c)
      PROVE  KeepsShown
  <2>1. connected' = TRUE /\ UNCHANGED used
      BY <1>4 DEF Resume, RunAgentPrompt, PostRun, SleepEnds, SleepCancelled, ContinueAgent,
                  PreflightEnds, Settle, Settled, CompactEnds, PreflightCompactionEnds,
                  AutoCompactionEnds
  <2>2. shownSteering' \in {<<>>, shownSteering} /\ UNCHANGED shownFollowUps
    <3>1. CASE PostRun(c) \/ SleepCancelled(c)
        BY <3>1 DEF PostRun, SleepCancelled, CheckCompaction, AfterNoCompaction, shown
    <3>2. CASE \E how \in Compactions : AutoCompactionEnds(c, how)
        BY <3>2 DEF AutoCompactionEnds, AfterNoCompaction
    <3>3. CASE \/ RunAgentPrompt(c) \/ SleepEnds(c) \/ ContinueAgent(c)
               \/ PreflightEnds(c) \/ Settle(c) \/ Settled(c) \/ CompactEnds(c)
               \/ \E how \in Compactions : PreflightCompactionEnds(c, how)
        BY <3>3 DEF RunAgentPrompt, SleepEnds, ContinueAgent, PreflightEnds, Settle, Settled,
                    CompactEnds, PreflightCompactionEnds, shown
    <3> QED
        BY <1>4, <3>1, <3>2, <3>3 DEF Resume
  <2>3. InQueues \subseteq InQueues'
    <3>1. CASE ContinueAgent(c)
      <4>1. pending = <<>>
          BY <3>1 DEF ContinueAgent, CannotContinue, Typed, Owned
      <4> QED
          BY <3>1, <4>1, TakesInHand DEF ContinueAgent, StartRun, CannotContinue, HasQueued
    <3>2. CASE RunAgentPrompt(c)
      <4>1. pending = <<>> \/ UNCHANGED pending
          BY <3>2 DEF RunAgentPrompt, agent, Typed, Owned
      <4> QED
          BY <3>2, <4>1, TakesInHand DEF RunAgentPrompt
    <3>3. CASE ~ContinueAgent(c) /\ ~RunAgentPrompt(c)
      <4>1. UNCHANGED <<agent, queues>>
          BY <1>4, <3>3 DEF Resume, PostRun, SleepEnds, SleepCancelled, PreflightEnds, Settle,
                            Settled, CompactEnds, PreflightCompactionEnds, AutoCompactionEnds
      <4> QED
          BY <4>1, TakesInHand DEF agent
    <3> QED
        BY <3>1, <3>2, <3>3
  <2> QED
      BY <2>1, <2>2, <2>3 DEF KeepsShown
<1> QED
    BY <1>1, <1>2, <1>3, <1>4 DEF Next

LEMMA DisplayStep ==
    ASSUME ManualCompaction = FALSE, Typed, Displayed, Next
    PROVE  Displayed'
<1>1. connected
    BY DEF Displayed
<1>2. ASSUME NEW m \in Msgs, Steer(m)
      PROVE  Displayed'
  <2>1. /\ ToSet(steering') = ToSet(steering) \cup {m}
        /\ ToSet(shownSteering') = ToSet(shownSteering) \cup {m}
        /\ IsInjective(shownSteering) /\ m \notin ToSet(shownSteering)
             => IsInjective(shownSteering')
      BY <1>2, AppendsOne DEF Steer, Typed, Data
  <2>2. m \notin used /\ used' = used \cup {m}
        /\ UNCHANGED <<followUps, shownFollowUps, connected, pending>>
      BY <1>2 DEF Steer, Accept, agent
  <2> QED
      BY <2>1, <2>2, DisplayedNext DEF Displayed, ShownIsPending
<1>3. ASSUME NEW m \in Msgs, FollowUp(m)
      PROVE  Displayed'
  <2>1. /\ ToSet(followUps') = ToSet(followUps) \cup {m}
        /\ ToSet(shownFollowUps') = ToSet(shownFollowUps) \cup {m}
        /\ IsInjective(shownFollowUps) /\ m \notin ToSet(shownFollowUps)
             => IsInjective(shownFollowUps')
      BY <1>3, AppendsOne DEF FollowUp, Typed, Data
  <2>2. m \notin used /\ used' = used \cup {m}
        /\ UNCHANGED <<steering, shownSteering, connected, pending>>
      BY <1>3 DEF FollowUp, Accept, agent
  <2> QED
      BY <2>1, <2>2, DisplayedNext DEF Displayed, ShownIsPending
<1>4. CASE ClearQueue
  <2>1. shownSteering' = <<>> /\ shownFollowUps' = <<>> /\ connected' = connected
      BY <1>4 DEF ClearQueue
  <2>2. IsInjective(<<>>) /\ ToSet(<<>>) = {}
      BY DEF IsInjective, ToSet
  <2>3. ToSet(shownSteering') = {} /\ ToSet(shownFollowUps') = {}
        /\ IsInjective(shownSteering') /\ IsInjective(shownFollowUps')
      BY <2>1, <2>2
  <2> QED
      BY <1>1, <2>1, <2>3, DisplayedNext DEF Displayed
<1>5. CASE EmitMessage
  <2>1. PICK m : m = Head(pending)
      OBVIOUS
  <2>2. ToSet(pending) = {m} \cup ToSet(pending')
      BY <1>5, <2>1, TakesHead DEF EmitMessage, Typed, Data
  <2>3. UNCHANGED <<steering, followUps, used, connected>> /\ TakeOffDisplay(m)
      BY <1>1, <1>5, <2>1 DEF EmitMessage, queues
  <2>4. CASE m \in ToSet(shownSteering)
    <3>1. /\ IsInjective(shownSteering')
          /\ ToSet(shownSteering') = ToSet(shownSteering) \ {m}
          /\ UNCHANGED shownFollowUps
        BY <2>3, <2>4, RemovesFirst DEF TakeOffDisplay, Typed, Data, Displayed
    <3> QED
        BY <2>2, <2>3, <2>4, <3>1, DisplayedNext DEF Displayed, ShownIsPending
  <2>5. CASE m \notin ToSet(shownSteering)
    <3>1. /\ IsInjective(shownFollowUps')
          /\ ToSet(shownFollowUps') = ToSet(shownFollowUps) \ {m}
          /\ UNCHANGED shownSteering
        BY <2>3, <2>5, RemovesFirst DEF TakeOffDisplay, Typed, Data, Displayed
    <3> QED
        BY <2>2, <2>3, <2>5, <3>1, DisplayedNext DEF Displayed, ShownIsPending
  <2> QED
      BY <2>4, <2>5
<1> QED
    BY <1>1, <1>2, <1>3, <1>4, <1>5, OthersKeepShown, DisplayKept

(* What the session displays as queued is still to be delivered, with any   *)
(* number of callers prompting, aborting, retrying and clearing the queues, *)
(* as long as compact() does not cut the session off from the agent.        *)
THEOREM DisplayIsTrue ==
    ASSUME ManualCompaction = FALSE
    PROVE  Spec => []ShownIsPending
<1>1. Init => Displayed
  <2>1. IsInjective(<<>>) /\ ToSet(<<>>) = {}
      BY DEF IsInjective, ToSet
  <2> QED
      BY <2>1 DEF Init, Displayed, ShownIsPending
<1>2. Typed /\ Displayed /\ [Next]_vars => Displayed'
  <2>1. ASSUME Displayed, UNCHANGED vars
        PROVE  Displayed'
    <3>1. KeepsShown
        BY <2>1 DEF vars, agent, queues, shown, KeepsShown, InQueues, ToSet, Displayed
    <3> QED
        BY <2>1, <3>1, DisplayKept
  <2> QED
      BY <2>1, DisplayStep
<1>3. Displayed => ShownIsPending
    BY DEF Displayed
<1> QED
    BY <1>1, <1>2, <1>3, TypedInit, TypedStep, SessionAssumption, PTL DEF Spec

-----------------------------------------------------------------------------
(* Nothing that was accepted gets lost.                                    *)

Free == {"ready", "settling", "waiting", "stopping", "compacting"}

(* A caller outside its preflight has left it behind for good, and one in    *)
(* it carries exactly the message it was called with.                        *)
Hands ==
    \A c \in Callers :
        /\ call[c].at \in Free => ~call[c].pre
        /\ call[c].pre => call[c].msgs = <<Head(call[c].msgs)>>

MsgsStay == \A x \in Callers : call'[x].msgs = call[x].msgs /\ call'[x].pre = call[x].pre

LEMMA HandsNext ==
    ASSUME Hands, MsgsStay, \A x \in Callers : call'[x].at \in Free => ~call[x].pre
    PROVE  Hands'
BY DEF Hands, MsgsStay

(* The steps at which no caller takes or gives up a message. *)
LEMMA HandsStay ==
    ASSUME Typed, Hands, Next,
           \A c \in Callers : /\ \A m \in Msgs : ~Prompt(c, m)
                              /\ ~RunAgentPrompt(c) /\ ~PreflightEnds(c)
                              /\ \A how \in Compactions : ~PreflightCompactionEnds(c, how)
    PROVE  MsgsStay /\ Hands'
<1>1. SUFFICES MsgsStay /\ \A x \in Callers : call'[x].at \in Free => ~call[x].pre
    BY HandsNext
<1>2. CASE Inputs
    BY <1>2 DEF Inputs, Steer, FollowUp, NextTurn, RecordBash, ClearQueue, MsgsStay, Hands
<1>3. CASE Agent
  <2>1. CASE RunFinishes
    <3>1. owner \in Callers /\ call' = [call EXCEPT ![owner].at = "post"]
        BY <2>1 DEF RunFinishes, Goto, Typed, Owned
    <3>2. \A x \in Callers : /\ call'[x].at = IF x = owner THEN "post" ELSE call[x].at
                             /\ call'[x].pre = call[x].pre
                             /\ call'[x].msgs = call[x].msgs
        BY <3>1, GoesOn DEF Typed, Places
    <3> QED
        BY <3>2 DEF MsgsStay, Hands, Free
  <2>2. CASE ~RunFinishes
      BY <1>3, <2>2 DEF Agent, Drain, EmitMessage, CallTools, ToolsAnswered, RunEnds, MsgsStay,
                        Hands
  <2> QED
      BY <2>1, <2>2
<1>4. ASSUME NEW c \in Callers, Abort(c) \/ Compact(c)
      PROVE  MsgsStay /\ \A x \in Callers : call'[x].at \in Free => ~call[x].pre
  <2>1. At(c, "ready") /\ call[c].msgs = <<>> /\ ~call[c].pre
      BY <1>4 DEF Abort, Compact, At, Hands, Handed, Typed, Free
  <2>2. ASSUME NEW x \in Callers
        PROVE  /\ call'[x].msgs = call[x].msgs /\ call'[x].pre = call[x].pre
               /\ x = c \/ call'[x].at = call[x].at \/ call'[x].at = "cancelled"
    <3>1. call[x] \in Entry /\ call[c] \in Entry
        BY DEF Typed
    <3>2. PICK w \in {"waiting", "stopping"}, p \in {"ready", "compacting"} : AbortThen(c, w, p)
        BY <1>4 DEF Abort, Compact
    <3>3. call'[x] = IF x = c THEN [Ready EXCEPT !.at = IF active THEN w ELSE p]
                     ELSE IF At(x, "sleep") THEN [call[x] EXCEPT !.at = "cancelled"]
                     ELSE call[x]
        BY <3>2 DEF AbortThen
    <3>4. CASE x = c
      <4>1. call'[x].msgs = <<>> /\ call'[x].pre = FALSE
          BY <3>3, <3>4 DEF Ready
      <4>2. call[x].pre = FALSE
          BY <2>1, <3>1, <3>4 DEF Entry
      <4> QED
          BY <2>1, <3>4, <4>1, <4>2
    <3>5. CASE x # c
        BY <3>1, <3>3, <3>5 DEF Entry
    <3> QED
        BY <3>4, <3>5
  <2> QED
      BY <2>1, <2>2 DEF MsgsStay, Hands, Free
<1>5. ASSUME NEW c \in Callers, NEW p \in Places, NEW w \in BOOLEAN,
             call' = [call EXCEPT ![c].at = p]
               \/ call' = [call EXCEPT ![c].at = p, ![c].willRetry = w],
             p \in Free => ~call[c].pre
      PROVE  MsgsStay /\ \A x \in Callers : call'[x].at \in Free => ~call[x].pre
  <2>1. \A x \in Callers : /\ call'[x].at = IF x = c THEN p ELSE call[x].at
                           /\ call'[x].pre = call[x].pre
                           /\ call'[x].msgs = call[x].msgs
      BY <1>5, GoesOn DEF Typed
  <2> QED
      BY <1>5, <2>1 DEF MsgsStay, Hands
<1>6. ASSUME NEW c \in Callers,
             \/ PostRun(c) \/ SleepEnds(c) \/ SleepCancelled(c) \/ ContinueAgent(c)
             \/ Settle(c)
             \/ \E how \in Compactions : AutoCompactionEnds(c, how)
      PROVE  MsgsStay /\ \A x \in Callers : call'[x].at \in Free => ~call[x].pre
  <2>1. \E p \in Places, w \in BOOLEAN :
            /\ \/ call' = [call EXCEPT ![c].at = p]
               \/ call' = [call EXCEPT ![c].at = p, ![c].willRetry = w]
            /\ p \in Free => ~call[c].pre
    <3>1. CASE Settle(c)
        BY <3>1 DEF Settle, Goto, Places
    <3>2. CASE SleepEnds(c) \/ ContinueAgent(c)
        BY <3>2 DEF SleepEnds, ContinueAgent, Goto, Places, Free
    <3>3. CASE PostRun(c) \/ SleepCancelled(c)
        BY <3>3 DEF PostRun, SleepCancelled, CheckCompaction, AfterNoCompaction, Goto, Places,
                    Free
    <3>4. CASE \E how \in Compactions : AutoCompactionEnds(c, how)
        BY <3>4 DEF AutoCompactionEnds, AfterNoCompaction, Goto, Places, Free
    <3> QED
        BY <1>6, <3>1, <3>2, <3>3, <3>4
  <2> QED
      BY <1>5, <2>1
<1>7. ASSUME NEW c \in Callers, Settled(c)
      PROVE  MsgsStay /\ \A x \in Callers : call'[x].at \in Free => ~call[x].pre
  <2>1. ASSUME NEW x \in Callers
        PROVE  \/ call'[x] = call[x]
               \/ /\ call'[x].msgs = <<>> /\ call'[x].pre = FALSE
                  /\ call[x].at \in Free
    <3>1. call'[x] = IF x = c THEN Ready ELSE Released(x)
        BY <1>7 DEF Settled
    <3>2. CASE x = c
        BY <1>7, <3>1, <3>2 DEF Settled, Ready, At, Free
    <3>3. CASE Released(x) = call[x]
        BY <1>7, <3>1, <3>2, <3>3
    <3>4. CASE At(x, "waiting") /\ Released(x) = Ready
        BY <3>1, <3>2, <3>4 DEF Ready, At, Free
    <3>5. CASE At(x, "stopping") /\ Released(x) = [Ready EXCEPT !.at = "compacting"]
        BY <3>1, <3>2, <3>5 DEF Ready, At, Free
    <3>6. \/ Released(x) = call[x]
          \/ At(x, "waiting") /\ Released(x) = Ready
          \/ At(x, "stopping") /\ Released(x) = [Ready EXCEPT !.at = "compacting"]
      <4>1. CASE active
          BY <4>1 DEF Released
      <4>2. CASE ~active /\ At(x, "waiting")
          BY <4>2 DEF Released, At
      <4>3. CASE ~active /\ ~At(x, "waiting") /\ At(x, "stopping")
          BY <4>3 DEF Released, At
      <4>4. CASE ~active /\ ~At(x, "waiting") /\ ~At(x, "stopping")
          BY <4>4 DEF Released, At
      <4> QED
          BY <4>1, <4>2, <4>3, <4>4
    <3> QED
        BY <3>2, <3>3, <3>4, <3>5, <3>6
  <2>2. ASSUME NEW x \in Callers, call[x].at \in Free
        PROVE  call[x].msgs = <<>> /\ call[x].pre = FALSE
      BY <2>2 DEF Hands, Handed, At, Free, Typed, Entry
  <2> QED
      BY <2>1, <2>2 DEF MsgsStay, Hands
<1>8. ASSUME NEW c \in Callers, CompactEnds(c)
      PROVE  MsgsStay /\ \A x \in Callers : call'[x].at \in Free => ~call[x].pre
  <2>1. At(c, "compacting") /\ call' = [call EXCEPT ![c] = Ready]
      BY <1>8 DEF CompactEnds
  <2>2. call[c].msgs = <<>> /\ ~call[c].pre /\ call[c].pre \in BOOLEAN
      BY <2>1 DEF Hands, Handed, At, Free, Typed, Entry
  <2> QED
      BY <2>1, <2>2 DEF MsgsStay, Hands, Typed, Ready
<1> QED
    BY <1>2, <1>3, <1>4, <1>6, <1>7, <1>8 DEF Next, Client, Resume

LEMMA HandsStep ==
    ASSUME SessionAssumption, Typed, Hands, Next
    PROVE  Hands'
<1>1. ASSUME NEW c \in Callers, NEW m \in Msgs, Prompt(c, m)
      PROVE  Hands'
  <2>1. CASE EnterBefore(c, <<m>>)
      BY <2>1 DEF EnterBefore, Ready, Typed, Hands, Free
  <2>2. ASSUME NEW w \in BOOLEAN,
               call' = [call EXCEPT ![c] = [at |-> "preflight", pre |-> TRUE,
                                            msgs |-> <<m>>, willRetry |-> w]]
        PROVE  Hands'
      BY <2>2 DEF Typed, Hands, Free
  <2> QED
      BY <1>1, <2>1, <2>2 DEF Prompt
<1>2. ASSUME NEW c \in Callers, RunAgentPrompt(c)
      PROVE  Hands'
    BY <1>2 DEF RunAgentPrompt, Ready, Typed, Hands, Free
<1>3. ASSUME NEW c \in Callers, PreflightEnds(c)
      PROVE  Hands'
  <2>1. CASE EnterBefore(c, call[c].msgs)
      BY <2>1 DEF EnterBefore, Ready, Typed, Hands, Free
  <2>2. CASE call' = [call EXCEPT ![c] = Ready]
      BY <2>2 DEF Ready, Typed, Hands, Free
  <2> QED
      BY <1>3, <2>1, <2>2 DEF PreflightEnds
<1>4. ASSUME NEW c \in Callers, NEW how \in Compactions, PreflightCompactionEnds(c, how)
      PROVE  Hands'
  <2>1. CASE EnterBefore(c, call[c].msgs)
      BY <2>1 DEF EnterBefore, Ready, Typed, Hands, Free
  <2>2. CASE Goto(c, "again")
    <3>1. \A x \in Callers : /\ call'[x].at = IF x = c THEN "again" ELSE call[x].at
                             /\ call'[x].pre = call[x].pre
                             /\ call'[x].msgs = call[x].msgs
        BY <2>2, GoesOn DEF Goto, Typed, Places
    <3> QED
        BY <3>1, HandsNext DEF MsgsStay, Hands, Free
  <2> QED
      BY <1>4, <2>1, <2>2 DEF PreflightCompactionEnds
<1> QED
    BY <1>1, <1>2, <1>3, <1>4, HandsStay

(* One caller prompts; the others wait, if they do anything that takes time, *)
(* for the session to be idle.                                               *)
OnePrompter == \A c, d \in Prompters : c = d

Bystanders ==
    \A c \in Callers \ Prompters :
        call[c].at \in {"ready", "waiting", "stopping", "compacting"}

LEMMA BystandersStep ==
    ASSUME SessionAssumption, Typed, Bystanders, Next
    PROVE  Bystanders'
<1>1. SUFFICES ASSUME NEW x \in Callers \ Prompters
               PROVE  call'[x].at \in {"ready", "waiting", "stopping", "compacting"}
    BY DEF Bystanders
<1>2. call[x] \in Entry /\ call[x].at \in {"ready", "waiting", "stopping", "compacting"}
    BY DEF Typed, Bystanders
<1>3. CASE Inputs
    BY <1>2, <1>3 DEF Inputs, Steer, FollowUp, NextTurn, RecordBash, ClearQueue
<1>4. CASE Agent
  <2>1. CASE RunFinishes
    <3>1. owner \in Callers /\ x # owner /\ call' = [call EXCEPT ![owner].at = "post"]
        BY <1>2, <2>1 DEF RunFinishes, Goto, Typed, Owned, At
    <3> QED
        BY <1>2, <3>1 DEF Typed
  <2>2. CASE ~RunFinishes
      BY <1>2, <1>4, <2>2 DEF Agent, Drain, EmitMessage, CallTools, ToolsAnswered, RunEnds
  <2> QED
      BY <2>1, <2>2
<1>5. ASSUME NEW c \in Callers, NEW m \in Msgs, Prompt(c, m)
      PROVE  call'[x].at \in {"ready", "waiting", "stopping", "compacting"}
  <2>1. c # x
      BY <1>5 DEF Prompt
  <2> QED
      BY <1>2, <1>5, <2>1 DEF Prompt, EnterBefore, Typed
<1>6. ASSUME NEW c \in Callers, Abort(c) \/ Compact(c)
      PROVE  call'[x].at \in {"ready", "waiting", "stopping", "compacting"}
  <2>1. PICK w \in {"waiting", "stopping"}, p \in {"ready", "compacting"} : AbortThen(c, w, p)
      BY <1>6 DEF Abort, Compact
  <2>2. call'[x] = IF x = c THEN [Ready EXCEPT !.at = IF active THEN w ELSE p]
                   ELSE IF At(x, "sleep") THEN [call[x] EXCEPT !.at = "cancelled"]
                   ELSE call[x]
      BY <2>1 DEF AbortThen
  <2>3. ~At(x, "sleep")
      BY <1>2 DEF At
  <2> QED
      BY <1>2, <2>2, <2>3 DEF Ready
<1>7. ASSUME NEW c \in Callers, Resume(c), ~Settled(c), ~CompactEnds(c)
      PROVE  call'[x].at \in {"ready", "waiting", "stopping", "compacting"}
  <2>1. c # x
      BY <1>2, <1>7 DEF Resume, RunAgentPrompt, PostRun, SleepEnds, SleepCancelled,
                        ContinueAgent, PreflightEnds, Settle, PreflightCompactionEnds,
                        AutoCompactionEnds, At
  <2>2. call'[x] = call[x]
    <3>1. CASE RunAgentPrompt(c) \/ ContinueAgent(c) \/ SleepEnds(c) \/ Settle(c)
        BY <2>1, <3>1 DEF RunAgentPrompt, ContinueAgent, SleepEnds, Settle, Goto, Typed
    <3>2. CASE PostRun(c) \/ SleepCancelled(c)
        BY <2>1, <3>2 DEF PostRun, SleepCancelled, CheckCompaction, AfterNoCompaction, Goto,
                          Typed
    <3>3. CASE PreflightEnds(c)
        BY <2>1, <3>3 DEF PreflightEnds, EnterBefore, Typed
    <3>4. CASE \E how \in Compactions :
                   PreflightCompactionEnds(c, how) \/ AutoCompactionEnds(c, how)
        BY <2>1, <3>4 DEF PreflightCompactionEnds, AutoCompactionEnds, EnterBefore,
                          AfterNoCompaction, Goto, Typed
    <3> QED
        BY <1>7, <3>1, <3>2, <3>3, <3>4 DEF Resume
  <2> QED
      BY <1>2, <2>2
<1>8. ASSUME NEW c \in Callers, Settled(c)
      PROVE  call'[x].at \in {"ready", "waiting", "stopping", "compacting"}
    BY <1>2, <1>8 DEF Settled, Released, Ready, At
<1>9. ASSUME NEW c \in Callers, CompactEnds(c)
      PROVE  call'[x].at \in {"ready", "waiting", "stopping", "compacting"}
    BY <1>2, <1>9 DEF CompactEnds, Ready, Typed
<1> QED
    BY <1>3, <1>4, <1>5, <1>6, <1>7, <1>8, <1>9 DEF Next, Client

(* With one prompter no prompt finds the agent running when it gets to it. *)
LEMMA AloneAtStart ==
    ASSUME SessionAssumption, OnePrompter, Typed, Bystanders, NEW c \in Callers, At(c, "before")
    PROVE  run = "none"
BY DEF OnePrompter, Bystanders, Typed, Owned, At

Carried == UNION {ToSet(call[c].msgs) : c \in Callers}

Held == persisted \cup pendingBash \cup returned \cup InQueues \cup ToSet(nextTurn)
          \cup Carried

Kept == connected /\ used \subseteq Held

LEMMA HeldNext ==
    /\ Held' = persisted' \cup pendingBash' \cup returned' \cup InQueues'
                 \cup ToSet(nextTurn') \cup Carried'
    /\ InQueues' = ToSet(steering') \cup ToSet(followUps') \cup ToSet(pending')
    /\ \A c \in Callers : ToSet(call'[c].msgs) \subseteq Carried'
    /\ ToSet(<<>>) = {}
BY DEF Held, InQueues, Carried, ToSet

LEMMA CarriedStays == MsgsStay => Carried \subseteq Carried'
BY DEF MsgsStay, Carried, ToSet

(* When one caller's hands change, the others' do not. *)
LEMMA CarriedBut ==
    ASSUME NEW c \in Callers, \A x \in Callers \ {c} : call'[x].msgs = call[x].msgs
    PROVE  Carried \subseteq ToSet(call[c].msgs) \cup Carried'
BY DEF Carried, ToSet

LEMMA KeptStep ==
    ASSUME SessionAssumption, ManualCompaction = FALSE, QueueClearing = FALSE, OnePrompter,
           Typed, Hands, Bystanders, Kept, Next
    PROVE  Kept'
<1>1. connected' = TRUE
  <2>1. CASE Inputs \/ Agent
      BY <2>1 DEF Inputs, Steer, FollowUp, NextTurn, RecordBash, ClearQueue, Agent, Drain,
                  EmitMessage, CallTools, ToolsAnswered, RunEnds, RunFinishes, Kept
  <2>2. ASSUME NEW c \in Callers, Client(c) \/ Resume(c)
        PROVE  connected' = TRUE
      BY <2>2 DEF Client, Prompt, Abort, Compact, Resume, RunAgentPrompt, PostRun, SleepEnds,
                  SleepCancelled, ContinueAgent, PreflightEnds, Settle, Settled, CompactEnds,
                  PreflightCompactionEnds, AutoCompactionEnds, Kept
  <2> QED
      BY <2>1, <2>2 DEF Next
<1>2. SUFFICES used' \subseteq Held'
    BY <1>1 DEF Kept
<1>3. used \subseteq persisted \cup pendingBash \cup returned \cup InQueues \cup ToSet(nextTurn)
                       \cup Carried
    BY DEF Kept, Held
<1>4. CASE Inputs
  <2>1. Carried' = Carried
      BY <1>4 DEF Inputs, Steer, FollowUp, NextTurn, RecordBash, ClearQueue, Carried, ToSet
  <2>2. ASSUME NEW m \in Msgs, Steer(m) \/ FollowUp(m) \/ NextTurn(m)
        PROVE  used' \subseteq Held'
    <3>1. used' = used \cup {m} /\ UNCHANGED <<persisted, pendingBash, returned, pending>>
        BY <2>2 DEF Steer, FollowUp, NextTurn, Accept, agent, log
    <3>2. CASE Steer(m)
      <4>1. ToSet(steering') = ToSet(steering) \cup {m}
            /\ UNCHANGED <<followUps, nextTurn>>
          BY <3>2, AppendsOne DEF Steer, Typed, Data
      <4> QED
          BY <1>3, <2>1, <3>1, <4>1, HeldNext DEF InQueues
    <3>3. CASE FollowUp(m)
      <4>1. ToSet(followUps') = ToSet(followUps) \cup {m}
            /\ UNCHANGED <<steering, nextTurn>>
          BY <3>3, AppendsOne DEF FollowUp, Typed, Data
      <4> QED
          BY <1>3, <2>1, <3>1, <4>1, HeldNext DEF InQueues
    <3>4. CASE NextTurn(m)
      <4>1. ToSet(nextTurn') = ToSet(nextTurn) \cup {m}
            /\ UNCHANGED <<steering, followUps>>
          BY <3>4, AppendsOne DEF NextTurn, queues, Typed, Data
      <4> QED
          BY <1>3, <2>1, <3>1, <4>1, HeldNext DEF InQueues
    <3> QED
        BY <2>2, <3>2, <3>3, <3>4
  <2>3. ASSUME NEW b \in Bashes, RecordBash(b)
        PROVE  used' \subseteq Held'
    <3>1. /\ used' = used \cup {b} /\ UNCHANGED <<returned, steering, followUps, nextTurn, pending>>
          /\ persisted' \cup pendingBash' = persisted \cup pendingBash \cup {b}
        BY <2>3 DEF RecordBash, Accept, agent, queues, log
    <3> QED
        BY <1>3, <2>1, <3>1, HeldNext DEF InQueues
  <2> QED
      BY <1>4, <2>2, <2>3 DEF Inputs, ClearQueue
<1>5. ASSUME NEW c \in Callers, NEW ms \in Seq(Msgs), EnterBefore(c, ms),
             UNCHANGED <<queues, pending, returned>>,
             persisted \cup pendingBash \subseteq persisted' \cup pendingBash',
             used' \subseteq used \cup ToSet(ms), ToSet(call[c].msgs) \subseteq ToSet(ms)
      PROVE  used' \subseteq Held'
  <2>1. call'[c].msgs = ms \o nextTurn /\ \A x \in Callers \ {c} : call'[x].msgs = call[x].msgs
      BY <1>5 DEF EnterBefore, Ready, Typed
  <2>2. ToSet(ms) \cup ToSet(nextTurn) \subseteq Carried'
      BY <2>1, JoinsTwo, HeldNext DEF Typed, Data
  <2>3. Carried \subseteq Carried'
      BY <1>5, <2>1, <2>2, CarriedBut
  <2>4. InQueues' = InQueues
      BY <1>5, HeldNext DEF InQueues, queues
  <2> QED
      BY <1>3, <1>5, <2>2, <2>3, <2>4, HeldNext
<1>6. ASSUME NEW c \in Callers, NEW m \in Msgs, Prompt(c, m)
      PROVE  used' \subseteq Held'
  <2>1. /\ used' = used \cup {m} /\ UNCHANGED <<queues, pending, returned>>
        /\ persisted \cup pendingBash \subseteq persisted' \cup pendingBash'
      BY <1>6 DEF Prompt, Accept, Flush, agent
  <2>2. call[c].msgs = <<>> /\ ToSet(call[c].msgs) = {}
      BY <1>6, HeldNext DEF Prompt, Typed, Handed, Hands, At, Free
  <2>3. <<m>> \in Seq(Msgs) /\ ToSet(<<m>>) = {m}
      BY DEF ToSet
  <2>4. CASE EnterBefore(c, <<m>>)
      BY <1>5, <2>1, <2>2, <2>3, <2>4
  <2>5. ASSUME NEW w \in BOOLEAN, UNCHANGED nextTurn,
               call' = [call EXCEPT ![c] = [at |-> "preflight", pre |-> TRUE,
                                            msgs |-> <<m>>, willRetry |-> w]]
        PROVE  used' \subseteq Held'
    <3>1. call'[c].msgs = <<m>> /\ \A x \in Callers \ {c} : call'[x].msgs = call[x].msgs
        BY <2>5 DEF Typed
    <3>2. m \in Carried' /\ Carried \subseteq Carried'
        BY <2>2, <2>3, <3>1, CarriedBut, HeldNext
    <3>3. InQueues' = InQueues
        BY <2>1, HeldNext DEF InQueues, queues
    <3> QED
        BY <1>3, <2>1, <2>5, <3>2, <3>3, HeldNext
  <2> QED
      BY <1>6, <2>4, <2>5 DEF Prompt
<1>7. ASSUME NEW c \in Callers, RunAgentPrompt(c)
      PROVE  used' \subseteq Held'
  <2>1. run = "none" /\ pending = <<>>
      BY <1>7, AloneAtStart DEF RunAgentPrompt, Typed, Owned
  <2>2. /\ pending' = call[c].msgs /\ call' = [call EXCEPT ![c] = [Ready EXCEPT !.at = "run"]]
        /\ UNCHANGED <<queues, nextTurn, persisted, pendingBash, returned, used>>
      BY <1>7, <2>1 DEF RunAgentPrompt, StartRun, log
  <2>3. \A x \in Callers \ {c} : call'[x].msgs = call[x].msgs
      BY <2>2 DEF Typed
  <2>4. InQueues' = InQueues \cup ToSet(call[c].msgs)
      BY <2>1, <2>2, HeldNext DEF InQueues, queues
  <2>5. Carried \subseteq ToSet(call[c].msgs) \cup Carried'
      BY <2>3, CarriedBut
  <2> QED
      BY <1>3, <2>2, <2>4, <2>5, HeldNext
<1>8. ASSUME NEW c \in Callers, PreflightEnds(c)
      PROVE  used' \subseteq Held'
  <2>1. /\ call[c].pre /\ UNCHANGED <<queues, pending, used>>
        /\ persisted \cup pendingBash \subseteq persisted' \cup pendingBash'
      BY <1>8 DEF PreflightEnds, Flush, agent
  <2>2. call[c].msgs \in Seq(Msgs)
      BY DEF Typed, Entry
  <2>3. CASE EnterBefore(c, call[c].msgs) /\ UNCHANGED returned
      BY <1>5, <2>1, <2>2, <2>3
  <2>4. CASE /\ call' = [call EXCEPT ![c] = Ready] /\ UNCHANGED nextTurn
             /\ returned' = returned \cup {Head(call[c].msgs)}
    <3>1. ToSet(call[c].msgs) = {Head(call[c].msgs)}
      <4>1. PICK m : m = Head(call[c].msgs)
          OBVIOUS
      <4>2. call[c].msgs = <<m>>
          BY <2>1, <4>1 DEF Hands
      <4>3. ToSet(<<m>>) = {m}
          BY DEF ToSet
      <4> QED
          BY <4>1, <4>2, <4>3
    <3>2. \A x \in Callers \ {c} : call'[x].msgs = call[x].msgs
        BY <2>4 DEF Typed
    <3>3. Carried \subseteq ToSet(call[c].msgs) \cup Carried'
        BY <3>2, CarriedBut
    <3>4. InQueues' = InQueues
        BY <2>1, HeldNext DEF InQueues, queues
    <3> QED
        BY <1>3, <2>1, <2>4, <3>1, <3>3, <3>4, HeldNext
  <2> QED
      BY <1>8, <2>3, <2>4 DEF PreflightEnds
<1>9. ASSUME NEW c \in Callers, NEW how \in Compactions, PreflightCompactionEnds(c, how)
      PROVE  used' \subseteq Held'
  <2>1. UNCHANGED <<queues, pending, used, returned, persisted, pendingBash>>
      BY <1>9 DEF PreflightCompactionEnds, Compacted, agent
  <2>2. call[c].msgs \in Seq(Msgs)
      BY DEF Typed, Entry
  <2>3. CASE EnterBefore(c, call[c].msgs)
      BY <1>5, <2>1, <2>2, <2>3
  <2>4. CASE Goto(c, "again") /\ UNCHANGED nextTurn
    <3>1. MsgsStay
        BY <2>4, GoesOn DEF Goto, MsgsStay, Typed, Places
    <3>2. InQueues' = InQueues
        BY <2>1, HeldNext DEF InQueues, queues
    <3> QED
        BY <1>3, <2>1, <2>4, <3>1, <3>2, CarriedStays, HeldNext
  <2> QED
      BY <1>9, <2>3, <2>4 DEF PreflightCompactionEnds
<1>10. ASSUME ~Inputs,
              \A c \in Callers : /\ \A m \in Msgs : ~Prompt(c, m)
                                 /\ ~RunAgentPrompt(c) /\ ~PreflightEnds(c)
                                 /\ \A how \in Compactions : ~PreflightCompactionEnds(c, how)
       PROVE  used' \subseteq Held'
  <2>1. Carried \subseteq Carried'
      BY <1>10, HandsStay, CarriedStays
  <2>2. /\ UNCHANGED <<used, nextTurn, returned>>
        /\ persisted \cup pendingBash \subseteq persisted' \cup pendingBash'
    <3>1. CASE Agent
        BY <3>1 DEF Agent, Drain, EmitMessage, CallTools, ToolsAnswered, RunEnds, RunFinishes,
                    log
    <3>2. ASSUME NEW c \in Callers, Abort(c) \/ Compact(c) \/ Resume(c)
          PROVE  /\ UNCHANGED <<used, nextTurn, returned>>
                 /\ persisted \cup pendingBash \subseteq persisted' \cup pendingBash'
        BY <1>10, <3>2 DEF Abort, Compact, Resume, PostRun, SleepEnds, SleepCancelled,
                           ContinueAgent, Settle, Flush, Settled, CompactEnds,
                           AutoCompactionEnds, Compacted, log
    <3> QED
        BY <1>10, <3>1, <3>2 DEF Next, Client
  <2>3. CASE EmitMessage
    <3>1. PICK m : m = Head(pending)
        OBVIOUS
    <3>2. ToSet(pending) = {m} \cup ToSet(pending')
        BY <2>3, <3>1, TakesHead DEF EmitMessage, Typed, Data
    <3>3. persisted' = persisted \cup {m} /\ UNCHANGED <<steering, followUps, pendingBash>>
        BY <2>3, <3>1 DEF EmitMessage, Kept, queues
    <3> QED
        BY <1>3, <2>1, <2>2, <3>2, <3>3, HeldNext DEF InQueues
  <2>4. CASE ~EmitMessage
    <3>1. InQueues \subseteq InQueues'
        BY <1>10, <2>4, OthersKeepShown DEF Inputs, KeepsShown, Kept
    <3> QED
        BY <1>3, <2>1, <2>2, <3>1, HeldNext
  <2> QED
      BY <2>3, <2>4
<1> QED
    BY <1>4, <1>6, <1>7, <1>8, <1>9, <1>10

(* A message the session accepted is saved, queued, in someone's hands or   *)
(* given back, and so is a shell result, through retries, continuations,    *)
(* aborts and automatic compactions, for one prompting caller among any     *)
(* number that steer and abort.  With several prompters, a prompt() that    *)
(* finds the agent running gives back its own message only; clearQueue()    *)
(* and compact() lose messages by themselves.                               *)
THEOREM MessagesAreKept ==
    ASSUME OnePrompter, ManualCompaction = FALSE, QueueClearing = FALSE
    PROVE  Spec => []NoMessageLost
<1> DEFINE IInv == Typed /\ Hands /\ Bystanders /\ Kept
<1>1. Init => IInv
  <2> SUFFICES ASSUME Init PROVE IInv
      OBVIOUS
  <2>1. Hands /\ Bystanders /\ Kept
      BY DEF Init, Ready, Hands, Bystanders, Kept
  <2> QED
      BY <2>1, TypedInit, SessionAssumption
<1>2. IInv /\ [Next]_vars => IInv'
  <2> SUFFICES ASSUME IInv, [Next]_vars PROVE IInv'
      OBVIOUS
  <2>1. Typed'
      BY TypedStep, SessionAssumption
  <2>2. CASE UNCHANGED vars
      BY <2>1, <2>2 DEF vars, agent, queues, log, Hands, Bystanders, Kept, Held, InQueues,
                        Carried, ToSet
  <2>3. CASE Next
      BY <2>1, <2>3, HandsStep, BystandersStep, KeptStep, SessionAssumption
  <2> QED
      BY <2>2, <2>3
<1>3. IInv => NoMessageLost
    BY DEF Kept, Held, InQueues, Carried, NoMessageLost
<1> QED
    BY <1>1, <1>2, <1>3, PTL DEF Spec

-----------------------------------------------------------------------------
(* What the session's own flag means.                                      *)

Driving == {"run", "post", "sleep", "cancelled", "compact", "again", "finish"}

(* Without compactions before a prompt there is no preflight to wait in, and *)
(* the session is marked as streaming exactly while a caller drives a run or *)
(* what follows it.                                                          *)
Driven ==
    /\ \A c \in Callers : ~call[c].pre
    /\ active <=> \E c \in Callers : call[c].at \in Driving

LEMMA DrivenKept ==
    ASSUME Driven, UNCHANGED active,
           \A x \in Callers : /\ ~call'[x].pre
                              /\ call'[x].at \in Driving <=> call[x].at \in Driving
    PROVE  Driven'
BY DEF Driven

LEMMA DrivenStep ==
    ASSUME SessionAssumption, PreflightCompaction = FALSE, OnePrompter,
           Typed, Bystanders, Driven, Next
    PROVE  Driven'
<1>1. ASSUME NEW c \in Callers, NEW p \in Places, NEW w \in BOOLEAN,
             call' = [call EXCEPT ![c].at = p]
               \/ call' = [call EXCEPT ![c].at = p, ![c].willRetry = w],
             p \in Driving <=> call[c].at \in Driving, UNCHANGED active
      PROVE  Driven'
  <2>1. \A x \in Callers : /\ call'[x].at = IF x = c THEN p ELSE call[x].at
                           /\ call'[x].pre = call[x].pre
      BY <1>1, GoesOn DEF Typed
  <2> QED
      BY <1>1, <2>1, DrivenKept DEF Driven
<1>2. CASE Inputs
    BY <1>2, DrivenKept DEF Inputs, Steer, FollowUp, NextTurn, RecordBash, ClearQueue, Driven
<1>3. CASE Agent
  <2>1. CASE RunFinishes
    <3>1. /\ owner \in Callers /\ call' = [call EXCEPT ![owner].at = "post"]
          /\ call[owner].at \in Driving /\ UNCHANGED active
        BY <2>1 DEF RunFinishes, Goto, Typed, Owned, At, Driving
    <3> QED
        BY <1>1, <3>1 DEF Driving, Places
  <2>2. CASE ~RunFinishes
      BY <1>3, <2>2, DrivenKept DEF Agent, Drain, EmitMessage, CallTools, ToolsAnswered,
                                    RunEnds, Driven
  <2> QED
      BY <2>1, <2>2
<1>4. ASSUME NEW c \in Callers, NEW m \in Msgs, Prompt(c, m)
      PROVE  Driven'
  <2>1. EnterBefore(c, <<m>>) /\ At(c, "ready") /\ UNCHANGED active
      BY <1>4 DEF Prompt
  <2> QED
      BY <2>1, DrivenKept DEF EnterBefore, Ready, Typed, Driven, Driving, At
<1>5. ASSUME NEW c \in Callers, Abort(c) \/ Compact(c)
      PROVE  Driven'
  <2>1. PICK w \in {"waiting", "stopping"}, p \in {"ready", "compacting"} : AbortThen(c, w, p)
      BY <1>5 DEF Abort, Compact
  <2>2. At(c, "ready") /\ UNCHANGED active
      BY <1>5 DEF Abort, Compact
  <2>3. ASSUME NEW x \in Callers
        PROVE  ~call'[x].pre /\ (call'[x].at \in Driving <=> call[x].at \in Driving)
    <3>1. call'[x] = IF x = c THEN [Ready EXCEPT !.at = IF active THEN w ELSE p]
                     ELSE IF At(x, "sleep") THEN [call[x] EXCEPT !.at = "cancelled"]
                     ELSE call[x]
        BY <2>1 DEF AbortThen
    <3>2. call[x] \in Entry /\ ~call[x].pre
        BY DEF Typed, Driven
    <3> QED
        BY <2>2, <3>1, <3>2 DEF Ready, At, Driving, Entry
  <2> QED
      BY <2>2, <2>3, DrivenKept
<1>6. ASSUME NEW c \in Callers, RunAgentPrompt(c)
      PROVE  Driven'
  <2>1. \E p \in {"run", "finish"} : call' = [call EXCEPT ![c] = [Ready EXCEPT !.at = p]]
      BY <1>6 DEF RunAgentPrompt
  <2>2. active' = TRUE
      BY <1>6 DEF RunAgentPrompt, MarkActive
  <2> QED
      BY <2>1, <2>2 DEF Ready, Typed, Driven, Driving
<1>7. ASSUME NEW c \in Callers,
             \/ PostRun(c) \/ SleepEnds(c) \/ SleepCancelled(c) \/ ContinueAgent(c)
             \/ \E how \in Compactions : AutoCompactionEnds(c, how)
      PROVE  Driven'
  <2>1. /\ call[c].at \in Driving /\ UNCHANGED active
        /\ \E p \in {"finish", "sleep", "again", "compact", "run"}, w \in BOOLEAN :
              \/ call' = [call EXCEPT ![c].at = p]
              \/ call' = [call EXCEPT ![c].at = p, ![c].willRetry = w]
    <3>1. CASE SleepEnds(c) \/ ContinueAgent(c)
        BY <3>1 DEF SleepEnds, ContinueAgent, Goto, At, Driving
    <3>2. CASE PostRun(c) \/ SleepCancelled(c)
        BY <3>2 DEF PostRun, SleepCancelled, CheckCompaction, AfterNoCompaction, Goto, At,
                    Driving
    <3>3. CASE \E how \in Compactions : AutoCompactionEnds(c, how)
        BY <3>3 DEF AutoCompactionEnds, AfterNoCompaction, Goto, At, Driving
    <3> QED
        BY <1>7, <3>1, <3>2, <3>3
  <2> QED
      BY <1>1, <2>1 DEF Driving, Places
<1>8. ASSUME NEW c \in Callers, Settle(c)
      PROVE  Driven'
  <2>1. /\ call[c].at \in Driving /\ active' = FALSE
        /\ call' = [call EXCEPT ![c].at = "settling"]
      BY <1>8 DEF Settle, Goto, At, Driving
  <2>2. \A x \in Callers : /\ call'[x].at = IF x = c THEN "settling" ELSE call[x].at
                           /\ call'[x].pre = call[x].pre
    <3>1. /\ "settling" \in Places /\ call \in [Callers -> Entry]
          /\ call' = [call EXCEPT ![c].at = "settling"]
        BY <2>1 DEF Typed, Places
    <3> QED
        BY <3>1 DEF Entry
  <2>3. \A x \in Callers : x # c => call[x].at \notin Driving
      BY <2>1 DEF OnePrompter, Bystanders, Driving
  <2> QED
      BY <2>1, <2>2, <2>3 DEF Driven, Driving
<1>9. ASSUME NEW c \in Callers, Settled(c)
      PROVE  Driven'
  <2>1. ASSUME NEW x \in Callers
        PROVE  ~call'[x].pre /\ (call'[x].at \in Driving <=> call[x].at \in Driving)
    <3>1. ~call[x].pre
        BY DEF Driven
    <3> QED
        BY <1>9, <3>1 DEF Settled, Released, Ready, At, Driving
  <2> QED
      BY <1>9, <2>1, DrivenKept DEF Settled
<1>10. ASSUME NEW c \in Callers, CompactEnds(c)
       PROVE  Driven'
    BY <1>10, DrivenKept DEF CompactEnds, Ready, At, Typed, Driven, Driving
<1>11. ASSUME NEW c \in Callers
       PROVE  ~PreflightEnds(c) /\ \A how \in Compactions : ~PreflightCompactionEnds(c, how)
    BY DEF PreflightEnds, PreflightCompactionEnds, Driven, Typed, Handed
<1> QED
    BY <1>2, <1>3, <1>4, <1>5, <1>6, <1>7, <1>8, <1>9, <1>10, <1>11 DEF Next, Client, Resume

(* Whoever holds a run marks the session, and nobody else drives it. *)
LEMMA DrivenAlone ==
    ASSUME OnePrompter, Typed, Bystanders, Driven, run # "none"
    PROVE  /\ active
           /\ \A c \in Callers : c # owner => call[c].at \notin Driving
BY DEF OnePrompter, Bystanders, Typed, Owned, Driven, Driving, At

LEMMA DrivenInit == Init => Driven /\ Bystanders
BY DEF Init, Ready, Driven, Driving, Bystanders

LEMMA DrivenStutter == Driven /\ Bystanders /\ UNCHANGED vars => Driven' /\ Bystanders'
BY DEF vars, Driven, Bystanders

(* While the session says it is idle nothing it started is going on: no run, *)
(* no retry, no compaction, no continuation.  One caller prompts; any number *)
(* steer, abort and compact, and no prompt begins with a compaction of its   *)
(* own, which the flag would not cover.                                      *)
THEOREM IdleIsQuiet ==
    ASSUME OnePrompter, PreflightCompaction = FALSE
    PROVE  Spec => []IdleMeansQuiet
<1> DEFINE IInv == Typed /\ Bystanders /\ Driven
<1>1. Init => IInv
    BY DrivenInit, TypedInit, SessionAssumption
<1>2. IInv /\ [Next]_vars => IInv'
    BY TypedStep, BystandersStep, DrivenStep, DrivenStutter, SessionAssumption
<1>3. IInv => IdleMeansQuiet
    BY DEF IdleMeansQuiet, Typed, Owned, Handed, Driven, Driving, At
<1> QED
    BY <1>1, <1>2, <1>3, PTL DEF Spec

-----------------------------------------------------------------------------
(* Shell results and tool calls.                                           *)

(* The shell results of the context are those of the file: a compaction that *)
(* rebuilds the context from the file neither adds nor drops one.            *)
SameResults == context \cap Bashes = persisted \cap Bashes

LEMMA ResultsStep ==
    ASSUME SessionAssumption, Typed, SameResults, Next
    PROVE  SameResults'
<1> USE DEF SameResults
<1>1. CASE Inputs
    BY <1>1 DEF Inputs, Steer, FollowUp, NextTurn, RecordBash, ClearQueue, log
<1>2. CASE EmitMessage
  <2>1. Head(pending) \in Msgs
      BY <1>2, TakesHead DEF EmitMessage, Typed, Data
  <2> QED
      BY <1>2, <2>1 DEF EmitMessage, SessionAssumption
<1>3. CASE Agent /\ ~EmitMessage
    BY <1>3 DEF Agent, Drain, CallTools, ToolsAnswered, RunEnds, RunFinishes, log
<1>4. ASSUME NEW c \in Callers, Client(c)
      PROVE  SameResults'
    BY <1>4 DEF Client, Prompt, Flush, Abort, Compact, log
<1>5. ASSUME NEW c \in Callers, Resume(c)
      PROVE  SameResults'
  <2>1. CASE Settle(c) \/ PreflightEnds(c)
      BY <2>1 DEF Settle, PreflightEnds, Flush
  <2>2. CASE CompactEnds(c) \/ \E how \in Compactions :
                                   PreflightCompactionEnds(c, how) \/ AutoCompactionEnds(c, how)
      BY <2>2 DEF CompactEnds, PreflightCompactionEnds, AutoCompactionEnds, Compacted
  <2>3. CASE \/ RunAgentPrompt(c) \/ PostRun(c) \/ SleepEnds(c) \/ SleepCancelled(c)
             \/ ContinueAgent(c) \/ Settled(c)
      BY <2>3 DEF RunAgentPrompt, PostRun, SleepEnds, SleepCancelled, ContinueAgent, Settled, log
  <2> QED
      BY <1>5, <2>1, <2>2, <2>3 DEF Resume
<1> QED
    BY <1>1, <1>2, <1>3, <1>4, <1>5 DEF Next

LEMMA CallsTogether ==
    ASSUME SessionAssumption, PreflightCompaction = FALSE, OnePrompter,
           Typed, Bystanders, Driven, SameResults, calling = "open", Next
    PROVE  context' \cap Bashes = context \cap Bashes
<1>1. /\ run = "running" /\ active
      /\ \A c \in Callers : c # owner => call[c].at \notin Driving
      /\ At(owner, "run")
    BY DrivenAlone DEF Typed, Owned
<1>2. CASE Inputs
    BY <1>1, <1>2 DEF Inputs, Steer, FollowUp, NextTurn, RecordBash, Deferred, ClearQueue, log
<1>3. CASE EmitMessage
  <2>1. Head(pending) \in Msgs
      BY <1>3, TakesHead DEF EmitMessage, Typed, Data
  <2> QED
      BY <1>3, <2>1 DEF EmitMessage, SessionAssumption
<1>4. CASE Agent /\ ~EmitMessage
    BY <1>4 DEF Agent, Drain, CallTools, ToolsAnswered, RunEnds, RunFinishes, log
<1>5. ASSUME NEW c \in Callers, Client(c)
      PROVE  context' \cap Bashes = context \cap Bashes
    BY <1>1, <1>5 DEF Client, Prompt, Abort, Compact, log
<1>6. ASSUME NEW c \in Callers, Resume(c)
      PROVE  context' \cap Bashes = context \cap Bashes
  <2>1. ~Settle(c) /\ ~PreflightEnds(c)
      BY <1>1 DEF Settle, PreflightEnds, Driven, Driving, At
  <2>2. CASE CompactEnds(c) \/ \E how \in Compactions :
                                   PreflightCompactionEnds(c, how) \/ AutoCompactionEnds(c, how)
      BY <2>2 DEF CompactEnds, PreflightCompactionEnds, AutoCompactionEnds, Compacted,
                  SameResults
  <2>3. CASE \/ RunAgentPrompt(c) \/ PostRun(c) \/ SleepEnds(c) \/ SleepCancelled(c)
             \/ ContinueAgent(c) \/ Settled(c)
      BY <2>3 DEF RunAgentPrompt, PostRun, SleepEnds, SleepCancelled, ContinueAgent, Settled, log
  <2> QED
      BY <1>6, <2>1, <2>2, <2>3 DEF Resume
<1> QED
    BY <1>2, <1>3, <1>4, <1>5, <1>6 DEF Next

(* No shell result enters the context between the tool calls of a message   *)
(* and their results, whatever other callers abort, record or compact.      *)
THEOREM CallsStayTogether ==
    ASSUME OnePrompter, PreflightCompaction = FALSE
    PROVE  Spec => BashKeepsCallsTogether
<1> DEFINE IInv == Typed /\ Bystanders /\ Driven /\ SameResults
<1>1. Init => IInv
    BY DrivenInit, TypedInit, SessionAssumption DEF Init, SameResults
<1>2. IInv /\ [Next]_vars => IInv'
  <2>1. SameResults /\ UNCHANGED vars => SameResults'
      BY DEF vars, log, SameResults
  <2> QED
      BY <2>1, TypedStep, BystandersStep, DrivenStep, DrivenStutter, ResultsStep,
         SessionAssumption
<1>3. IInv /\ [Next]_vars
        => [calling = "open" => context' \cap Bashes = context \cap Bashes]_vars
  <2>1. CASE UNCHANGED vars
      BY <2>1
  <2>2. IInv /\ calling = "open" /\ Next => context' \cap Bashes = context \cap Bashes
      BY CallsTogether, SessionAssumption
  <2> QED
      BY <2>1, <2>2
<1> QED
    BY <1>1, <1>2, <1>3, PTL DEF Spec, BashKeepsCallsTogether

=============================================================================
