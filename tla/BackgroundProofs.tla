--------------------------- MODULE BackgroundProofs --------------------------
(***************************************************************************)
(* Theorems about what follows a conversation in the background.           *)
(*                                                                         *)
(* ReturnMessage, for any number of callers and any cap: its types, the    *)
(* cap on unread messages, that the agent knows what was delivered, and    *)
(* that it implements Inbox.  ChatEffects, for any number of turns: its    *)
(* types, that achievements catch up with the replies that earned them,    *)
(* and that the memories say each thing once and show the last one said.   *)
(***************************************************************************)
EXTENDS ReturnMessage, ChatEffects, FiniteSetTheorems, SequenceTheorems, WellFoundedInduction, TLAPS

-----------------------------------------------------------------------------
(* Return messages.                                                        *)

\* Under the advisory lock, at most one delivery is past its count; what it
\* counted still admits it, and past the append the agent has its message.
Fenced ==
  \A c \in Callers, w \in Windows : Delivering(c, w) =>
    /\ Cardinality(Unread) < UnreadCap
    /\ row[w] = "none"
    /\ Roleplay /\ job[c][w] = "commit" => context[w] >= 1
    /\ \A d \in Callers, v \in Windows : Delivering(d, v) => d = c /\ v = w

Inv == TypeOK /\ Fenced /\ NeverOverCap /\ AgentKnowsDelivered

LEMMA UnreadFinite == IsFiniteSet(Unread) /\ Cardinality(Unread) \in Nat
<1>1. IsFiniteSet(Windows)
  BY FS_Interval, DayAssumption DEF Windows
<1>2. IsFiniteSet(Unread)
  BY <1>1, FS_Subset DEF Unread
<1> QED BY <1>2, FS_CardinalityType

LEMMA InitInv == Init => Inv
<1> SUFFICES ASSUME Init PROVE Inv
  OBVIOUS
<1>1. TypeOK
  <2>1. today \in WindowCount - 1 .. LastDay
    BY WindowAssumption, DayAssumption DEF Init
  <2>2. context \in [Windows -> 0 .. MaxCopies] /\ budget \in [Callers -> 0 .. UnreadCap]
    BY CapAssumption, CopiesAssumption DEF Init
  <2>3. todo \in [Callers -> Seq(Windows)]
    BY EmptySeq DEF Init
  <2>4. job \in [Callers -> [Windows -> {"none", "planned", "append", "commit"}]]
    BY DEF Init, NoJobs
  <2> QED BY <2>1, <2>2, <2>3, <2>4 DEF Init, TypeOK
<1>2. Unread = {}
  BY DEF Init, Unread
<1>3. Cardinality(Unread) = 0
  BY <1>2, FS_EmptySet
<1>4. Fenced /\ AgentKnowsDelivered
  BY DEF Init, Fenced, Delivering, NoJobs, AgentKnowsDelivered
<1> QED BY <1>1, <1>3, <1>4, CapAssumption DEF Inv, NeverOverCap

-----------------------------------------------------------------------------
\* Type correctness, action by action.

LEMMA SweepIsSeq == ASSUME TypeOK PROVE SweepWindows \in Seq(Windows)
<1>1. \A i \in 1 .. WindowCount : today - (i - 1) \in Windows
  BY WindowAssumption, DayAssumption DEF TypeOK, Windows
<1>2. WindowCount \in Nat
  BY WindowAssumption
<1> QED BY <1>1, <1>2, IsASeq DEF SweepWindows

LEMMA CopiedTyped ==
  ASSUME TypeOK, NEW w \in Windows
  PROVE  Copied(w) \in [Windows -> 0 .. MaxCopies] /\ Copied(w)[w] >= 1
  BY CopiesAssumption DEF TypeOK, Copied

LEMMA RemainingTyped ==
  ASSUME TypeOK, NEW w \in Windows
  PROVE  Remaining(w) \in [Windows -> 0 .. MaxCopies]
  BY CopiesAssumption DEF TypeOK, Remaining

LEMMA PlanTyped ==
  ASSUME TypeOK, NEW c \in Callers, Check(c) \/ Sweep(c)
  PROVE  TypeOK'
<1>1. <<today>> \in Seq(Windows)
  BY WindowAssumption, DayAssumption DEF TypeOK, Windows
<1>2. PICK s \in Seq(Windows) : Plan(c, s)
  BY <1>1, SweepIsSeq DEF Check, Sweep
<1> QED BY <1>2 DEF Plan, TypeOK

LEMMA PrepareTyped ==
  ASSUME TypeOK, NEW c \in Callers, Prepare(c)
  PROVE  TypeOK'
<1>1. CASE CountUnread(c)
  <2>1. UnreadCap - Cardinality(Unread) \in 0 .. UnreadCap
    BY <1>1, UnreadFinite, CapAssumption DEF CountUnread
  <2> QED BY <1>1, <2>1 DEF CountUnread, TypeOK
<1>2. CASE Full(c)
  BY <1>2 DEF Full, TypeOK
<1>3. CASE LookAt(c)
  <2> DEFINE w == Head(todo[c])
  <2>1. todo[c] \in Seq(Windows) /\ todo[c] # <<>> /\ budget[c] \in 0 .. UnreadCap /\ budget[c] > 0
    BY <1>3 DEF LookAt, TypeOK, WithinBudget
  <2>2. w \in Windows /\ Tail(todo[c]) \in Seq(Windows)
    BY <2>1
  <2>3. Left(c, row[w] = "none") \in 0 .. UnreadCap
    BY <2>1, CapAssumption DEF Left
  <2>4. todo' \in [Callers -> Seq(Windows)] /\ budget' \in [Callers -> 0 .. UnreadCap]
    BY <1>3, <2>2, <2>3 DEF LookAt, TypeOK
  <2>5. job' \in [Callers -> [Windows -> {"none", "planned", "append", "commit"}]]
    BY <1>3, <2>2 DEF LookAt, TypeOK
  <2> QED BY <1>3, <2>4, <2>5 DEF LookAt, TypeOK
<1>4. CASE Run(c)
  BY <1>4, CapAssumption DEF Run, TypeOK
<1>5. CASE Finish(c)
  BY <1>5 DEF Finish, TypeOK
<1> QED BY <1>1, <1>2, <1>3, <1>4, <1>5 DEF Prepare

LEMMA JobTyped ==
  ASSUME TypeOK, NEW c \in Callers, NEW w \in Windows,
         NEW s \in {"none", "planned", "append", "commit"}, Set(c, w, s)
  PROVE  job' \in [Callers -> [Windows -> {"none", "planned", "append", "commit"}]]
<1>1. job[c] \in [Windows -> {"none", "planned", "append", "commit"}]
  BY DEF TypeOK
<1>2. [job[c] EXCEPT ![w] = s] \in [Windows -> {"none", "planned", "append", "commit"}]
  BY <1>1
<1> QED BY <1>2 DEF Set, TypeOK

LEMMA DeliveryTyped ==
  ASSUME TypeOK, NEW c \in Callers, NEW w \in Windows,
         Enter(c, w) \/ Refuse(c, w) \/ AppendToSession(c, w) \/ AppendFails(c, w)
           \/ Commit(c, w) \/ CommitFails(c, w)
  PROVE  TypeOK'
<1>1. PICK s \in {"none", "planned", "append", "commit"} : Set(c, w, s)
  BY DEF Enter, Refuse, AppendToSession, AppendFails, Commit, CommitFails, AfterFailedAppend
<1>2. job' \in [Callers -> [Windows -> {"none", "planned", "append", "commit"}]]
  BY <1>1, JobTyped
<1>3. CASE Enter(c, w) \/ Refuse(c, w)
  BY <1>2, <1>3 DEF Enter, Refuse, TypeOK, caller
<1>4. CASE AppendToSession(c, w) \/ AppendFails(c, w)
  BY <1>2, <1>4, CopiedTyped DEF AppendToSession, AppendFails, TypeOK, caller
<1>5. CASE Commit(c, w) \/ CommitFails(c, w)
  BY <1>2, <1>5, RemainingTyped DEF Commit, CommitFails, TypeOK, caller
<1> QED BY <1>3, <1>4, <1>5

LEMMA DieTyped == ASSUME TypeOK, NEW c \in Callers, Die(c) PROVE TypeOK'
<1>1. job' \in [Callers -> [Windows -> {"none", "planned", "append", "commit"}]]
  BY DEF Die, NoJobs, TypeOK
<1>2. context' \in [Windows -> 0 .. MaxCopies] /\ created' \in BOOLEAN
  BY RemainingTyped DEF Die, TypeOK
<1> QED BY <1>1, <1>2 DEF Die, TypeOK

LEMMA OthersTyped ==
  ASSUME TypeOK, NextDay \/ MarkRead \/ StartChat \/ UNCHANGED vars
  PROVE  TypeOK'
<1>1. CASE NextDay
  BY <1>1, WindowAssumption, DayAssumption DEF NextDay, TypeOK, caller
<1>2. CASE MarkRead
  BY <1>2 DEF MarkRead, TypeOK, caller
<1>3. CASE StartChat \/ UNCHANGED vars
  BY <1>3 DEF StartChat, TypeOK, caller, vars
<1> QED BY <1>1, <1>2, <1>3

\* All variables keep their types; budgets are never overdrawn.
THEOREM ReturnTypeOK == Spec => []TypeOK
<1>1. Init => TypeOK
  BY InitInv DEF Inv
<1>2. TypeOK /\ [Next]_vars => TypeOK'
  BY PlanTyped, PrepareTyped, DeliveryTyped, DieTyped, OthersTyped DEF Next
<1> QED BY <1>1, <1>2, PTL DEF Spec

-----------------------------------------------------------------------------
\* The fence, action by action.

\* What Inv says depends on these variables only.
LEMMA SameFence ==
  ASSUME Inv, TypeOK', UNCHANGED <<row, context, job>>
  PROVE  Inv'
<1>1. Unread' = Unread
  BY DEF Unread
<1> QED BY <1>1 DEF Inv, Fenced, Delivering, NeverOverCap, AgentKnowsDelivered

\* A delivery that ends, or is merely planned, opens the fence to no other.
LEMMA FewerDeliveries ==
  ASSUME Inv, TypeOK', UNCHANGED <<row, context>>,
         \A c \in Callers, w \in Windows : Delivering(c, w)' => Delivering(c, w) /\ job'[c][w] = job[c][w]
  PROVE  Inv'
<1>1. Unread' = Unread
  BY DEF Unread
<1>2. Fenced'
  BY <1>1 DEF Inv, Fenced
<1> QED BY <1>1, <1>2 DEF Inv, NeverOverCap, AgentKnowsDelivered

LEMMA EnterKeeps ==
  ASSUME Inv, TypeOK', NEW c \in Callers, NEW w \in Windows, Enter(c, w)
  PROVE  Inv'
<1>1. Unread' = Unread /\ UNCHANGED <<row, context>>
  BY DEF Enter, Unread
<1>2. \A d \in Callers, v \in Windows : Delivering(d, v)' => d = c /\ v = w
  BY DEF Enter, LockFree, Delivering, Set, Inv, TypeOK
<1>3. Roleplay => job'[c][w] = "append"
  BY DEF Enter, Set, Inv, TypeOK
<1>4. Cardinality(Unread) < UnreadCap /\ row[w] = "none"
  BY DEF Enter, Allowed, RowIsNew
<1>5. Fenced'
  BY <1>1, <1>2, <1>3, <1>4 DEF Fenced
<1> QED BY <1>1, <1>5 DEF Inv, NeverOverCap, AgentKnowsDelivered

LEMMA RefuseKeeps ==
  ASSUME Inv, TypeOK', NEW c \in Callers, NEW w \in Windows, Refuse(c, w)
  PROVE  Inv'
<1>1. \A d \in Callers, v \in Windows : Delivering(d, v)' => Delivering(d, v) /\ job'[d][v] = job[d][v]
  BY DEF Refuse, Delivering, Set, Inv, TypeOK
<1> QED BY <1>1, FewerDeliveries DEF Refuse

\* A copy more, or an unfinished message's copies gone, where none is needed.
LEMMA ContextKeeps ==
  ASSUME Inv, TypeOK', NEW w \in Windows, row[w] = "none", UNCHANGED row,
         \A v \in Windows \ {w} : context'[v] = context[v],
         \A d \in Callers, v \in Windows : ~Delivering(d, v)'
  PROVE  Inv'
<1>1. Unread' = Unread
  BY DEF Unread
<1>2. Fenced'
  BY DEF Fenced
<1>3. AgentKnowsDelivered'
  BY DEF Inv, AgentKnowsDelivered
<1> QED BY <1>1, <1>2, <1>3 DEF Inv, NeverOverCap

\* A delivery under way that ends leaves none.
LEMMA EndsAlone ==
  ASSUME Inv, NEW c \in Callers, NEW w \in Windows, Delivering(c, w), Set(c, w, "none")
  PROVE  \A d \in Callers, v \in Windows : ~Delivering(d, v)'
  BY DEF Inv, Fenced, Delivering, Set, TypeOK

LEMMA AppendKeeps ==
  ASSUME Inv, TypeOK', NEW c \in Callers, NEW w \in Windows, AppendToSession(c, w)
  PROVE  Inv'
<1>1. Unread' = Unread /\ UNCHANGED row
  BY DEF AppendToSession, Unread, caller
<1>2. Delivering(c, w) /\ row[w] = "none" /\ Cardinality(Unread) < UnreadCap
  BY DEF AppendToSession, Delivering, Inv, Fenced
<1>3. \A d \in Callers, v \in Windows : Delivering(d, v)' => d = c /\ v = w
  BY <1>2 DEF AppendToSession, Delivering, Inv, Fenced, Set, TypeOK
<1>4. context'[w] >= 1 /\ \A v \in Windows \ {w} : context'[v] = context[v]
  BY CopiedTyped DEF AppendToSession, Inv, Copied, TypeOK
<1>5. Fenced'
  BY <1>1, <1>2, <1>3, <1>4 DEF Fenced
<1>6. AgentKnowsDelivered'
  BY <1>1, <1>2, <1>4 DEF Inv, AgentKnowsDelivered
<1> QED BY <1>1, <1>5, <1>6 DEF Inv, NeverOverCap

LEMMA RollbackKeeps ==
  ASSUME Inv, TypeOK', NEW c \in Callers, NEW w \in Windows, AppendFails(c, w) \/ CommitFails(c, w)
  PROVE  Inv'
<1>1. Delivering(c, w) /\ Set(c, w, "none") /\ UNCHANGED row
  BY DEF AppendFails, CommitFails, AfterFailedAppend, Delivering, caller
<1>2. row[w] = "none"
  BY <1>1 DEF Inv, Fenced
<1>3. \A v \in Windows \ {w} : context'[v] = context[v]
  BY DEF AppendFails, CommitFails, Copied, Remaining, Inv, TypeOK
<1> QED BY <1>1, <1>2, <1>3, EndsAlone, ContextKeeps

LEMMA CommitKeeps ==
  ASSUME Inv, TypeOK', NEW c \in Callers, NEW w \in Windows, Commit(c, w)
  PROVE  Inv'
<1>1. Delivering(c, w) /\ row' = [row EXCEPT ![w] = "unread"] /\ UNCHANGED context
  BY DEF Commit, Delivering
<1>2. Cardinality(Unread) < UnreadCap /\ row[w] = "none" /\ (Roleplay => context[w] >= 1)
  BY <1>1 DEF Commit, Inv, Fenced
<1>3. Unread' = Unread \cup {w} /\ w \notin Unread
  BY <1>1, <1>2 DEF Unread, Inv, TypeOK
<1>4. Cardinality(Unread') = Cardinality(Unread) + 1
  BY <1>3, UnreadFinite, FS_AddElement
<1>5. NeverOverCap'
  BY <1>2, <1>4, UnreadFinite, CapAssumption DEF NeverOverCap
<1>6. Fenced'
  BY <1>1, EndsAlone DEF Commit, Fenced
<1>7. AgentKnowsDelivered'
  BY <1>1, <1>2 DEF Inv, AgentKnowsDelivered, TypeOK
<1> QED BY <1>5, <1>6, <1>7 DEF Inv

LEMMA DieKeeps ==
  ASSUME Inv, TypeOK', NEW c \in Callers, Die(c)
  PROVE  Inv'
<1>1. \A d \in Callers, v \in Windows : Delivering(d, v)' => Delivering(d, v) /\ d # c /\ job'[d][v] = job[d][v]
  BY DEF Die, NoJobs, Delivering, Inv, TypeOK
<1>2. CASE \E w \in Windows : Delivering(c, w)
  <2>1. PICK w \in Windows : Delivering(c, w) /\ context' = Remaining(w)
    BY <1>2 DEF Die
  <2>2. row[w] = "none" /\ \A d \in Callers, v \in Windows : ~Delivering(d, v)'
    BY <1>1, <2>1 DEF Inv, Fenced
  <2>3. \A v \in Windows \ {w} : context'[v] = context[v]
    BY <2>1 DEF Remaining, Inv, TypeOK
  <2> QED BY <2>2, <2>3, ContextKeeps DEF Die
<1>3. CASE ~\E w \in Windows : Delivering(c, w)
  BY <1>1, <1>3, FewerDeliveries DEF Die
<1> QED BY <1>2, <1>3

LEMMA ReadKeeps == ASSUME Inv, TypeOK', MarkRead PROVE Inv'
<1>1. Unread' = {}
  BY DEF MarkRead, Unread
<1>2. Cardinality(Unread') = 0
  BY <1>1, FS_EmptySet
<1>3. \A w \in Windows : row'[w] = "none" <=> row[w] = "none"
  BY DEF MarkRead
<1>4. UNCHANGED <<context, job>>
  BY DEF MarkRead
<1> QED BY <1>2, <1>3, <1>4, CapAssumption DEF Inv, Fenced, Delivering, NeverOverCap, AgentKnowsDelivered

LEMMA PrepareKeeps ==
  ASSUME Inv, TypeOK', NEW c \in Callers, Check(c) \/ Sweep(c) \/ Prepare(c)
  PROVE  Inv'
<1>1. CASE LookAt(c)
  <2>1. \A d \in Callers, v \in Windows : Delivering(d, v)' => Delivering(d, v) /\ job'[d][v] = job[d][v]
    BY <1>1 DEF LookAt, Delivering, Inv, TypeOK
  <2> QED BY <1>1, <2>1, FewerDeliveries DEF LookAt
<1>2. CASE ~LookAt(c)
  BY <1>2, SameFence DEF Check, Sweep, Plan, Prepare, CountUnread, Full, Run, Finish
<1> QED BY <1>1, <1>2

LEMMA NextInv == ASSUME Inv, [Next]_vars PROVE Inv'
<1>1. TypeOK /\ TypeOK'
  BY PlanTyped, PrepareTyped, DeliveryTyped, DieTyped, OthersTyped DEF Inv, Next
<1>2. CASE NextDay \/ StartChat \/ UNCHANGED vars
  BY <1>1, <1>2, SameFence DEF NextDay, StartChat, vars
<1>3. CASE MarkRead
  BY <1>1, <1>3, ReadKeeps
<1>4. ASSUME NEW c \in Callers, Check(c) \/ Sweep(c) \/ Prepare(c) \/ Die(c)
      PROVE  Inv'
  BY <1>1, <1>4, PrepareKeeps, DieKeeps
<1>5. ASSUME NEW c \in Callers, NEW w \in Windows,
             Enter(c, w) \/ Refuse(c, w) \/ AppendToSession(c, w) \/ AppendFails(c, w)
               \/ Commit(c, w) \/ CommitFails(c, w)
      PROVE  Inv'
  BY <1>1, <1>5, EnterKeeps, RefuseKeeps, AppendKeeps, RollbackKeeps, CommitKeeps
<1> QED BY <1>2, <1>3, <1>4, <1>5 DEF Next

THEOREM ReturnInv == Spec => []Inv
<1> QED BY InitInv, NextInv, PTL DEF Spec

\* No interleaving of checks, sweeps and crashes pushes the unread messages
\* over the cap.
THEOREM ReturnNeverOverCap == Spec => []NeverOverCap
<1>1. Inv => NeverOverCap
  BY DEF Inv
<1> QED BY <1>1, ReturnInv, PTL

\* Every message in the user's history is in the agent's context.
THEOREM ReturnAgentKnowsDelivered == Spec => []AgentKnowsDelivered
<1>1. Inv => AgentKnowsDelivered
  BY DEF Inv
<1> QED BY <1>1, ReturnInv, PTL

-----------------------------------------------------------------------------
\* Refinement: a commit is a delivery of Inbox, everything else a reading or
\* a stutter.

LEMMA CommitDelivers ==
  ASSUME Inv, NEW c \in Callers, NEW w \in Windows, Commit(c, w)
  PROVE  Promise!Deliver(w)
<1>1. Delivering(c, w) /\ row' = [row EXCEPT ![w] = "unread"]
  BY DEF Commit, Delivering
<1>2. Cardinality(Unread) < UnreadCap /\ row[w] = "none"
  BY <1>1 DEF Inv, Fenced
<1>3. Unread' = Unread \cup {w} /\ ReadRows' = ReadRows /\ w \notin Unread \cup ReadRows
  BY <1>1, <1>2 DEF Unread, ReadRows, Inv, TypeOK
<1>4. Promise!Cardinality(Unread) = Cardinality(Unread)
  BY DEF Promise!Cardinality, Cardinality
<1> QED BY <1>2, <1>3, <1>4 DEF Promise!Deliver

LEMMA MarkReadReads == ASSUME MarkRead PROVE Promise!ReadAll
  BY DEF MarkRead, Promise!ReadAll, Unread, ReadRows

LEMMA StepDelivers == ASSUME Inv, [Next]_vars PROVE [Promise!Next]_Promise!vars
<1>1. CASE UNCHANGED row
  BY <1>1 DEF Unread, ReadRows, Promise!vars
<1>2. CASE MarkRead
  BY <1>2, MarkReadReads DEF Promise!Next
<1>3. ASSUME NEW c \in Callers, NEW w \in Windows, Commit(c, w) PROVE Promise!Next
  BY <1>3, CommitDelivers DEF Promise!Next
<1> QED BY <1>1, <1>2, <1>3
  DEF Next, vars, NextDay, StartChat, Check, Sweep, Plan, Prepare, CountUnread, Full, LookAt, Run, Finish,
      Die, Enter, Refuse, AppendToSession, AppendFails, CommitFails

\* Return messages implement Inbox.
THEOREM ReturnImplementsInbox == Spec => InboxSpec
<1>1. Init => Promise!Init
  BY DEF Init, Promise!Init, Unread, ReadRows
<1>2. Inv /\ [Next]_vars => [Promise!Next]_Promise!vars
  BY StepDelivers
<1> QED BY <1>1, <1>2, ReturnInv, PTL DEF Spec, InboxSpec, Promise!Spec

-----------------------------------------------------------------------------
(* The deferred effects of turns (ChatEffects).                            *)

Unlocking(t) == step[t]["achievement"]

UnlockTypes ==
  /\ said \in Nat /\ answered \in 0..MaxTurns /\ bond \in Nat
  /\ run \in [Turns -> [AllEffects -> {"none", "running", "failed", "completed"}]]
  /\ step \in [Turns -> [AllEffects -> {"idle", "claim", "read", "seed", "compare", "insert", "titles",
                                        "delete", "complete", "fail"}]]
  /\ rules \in [Turns -> SUBSET Codes] /\ fresh \in [Turns -> SUBSET Codes] /\ won \in [Turns -> SUBSET Codes]
  /\ seeded \subseteq Codes /\ unlocked \subseteq Codes
  /\ announced \in [Codes -> Nat] /\ owed \subseteq Codes /\ faults \in Nat

\* A turn that has not replied has done nothing, and one that claims has not run.
Untried ==
  \A t \in Turns :
    /\ t > answered => run[t]["achievement"] = "none" /\ Unlocking(t) = "idle" /\ won[t] = {}
    /\ Unlocking(t) = "claim" => run[t]["achievement"] = "none"

\* A code is won by one turn, with the row.
WonOnce ==
  \A t \in Turns :
    /\ won[t] \subseteq unlocked
    /\ Unlocking(t) \in {"claim", "read", "seed", "compare", "insert"} => won[t] = {}
    /\ \A u \in Turns \ {t} : won[t] \cap won[u] = {}

\* And announced by it when it ends.
AnnouncedByWinner ==
  \A c \in Codes : announced[c] # 0 =>
    announced[c] = 1 /\ \E t \in Turns : Unlocking(t) = "idle" /\ c \in won[t]

\* The codes due are unlocked, or a turn has them on their way.
Brings(t) ==
  \/ Unlocking(t) \in {"claim", "read"} /\ owed \subseteq Earned(said, answered, bond)
  \/ Unlocking(t) = "seed" /\ owed \subseteq rules[t]
  \/ Unlocking(t) = "compare" /\ owed \subseteq rules[t] \cap seeded
  \/ Unlocking(t) = "insert" /\ owed \subseteq unlocked \cup fresh[t]

OwedIsComing == faults = 0 => owed \subseteq unlocked \/ \E t \in Turns : Brings(t)

TitlesAreComing ==
  faults = 0 => \A c \in unlocked \cap WithTitle :
                  c \in titles \/ \E t \in Turns : Unlocking(t) = "titles" /\ c \in fresh[t]

\* The inductive invariant of the achievements.
UnlockInv == UnlockTypes /\ Untried /\ WonOnce /\ AnnouncedByWinner /\ OwedIsComing /\ TitlesAreComing

\* The due codes are what a turn that evaluates now earns.
LEMMA DueIsEarned ==
  ASSUME NEW m \in Nat, NEW r \in Nat, NEW x \in Nat
  PROVE  Due(m, r, x) \subseteq Earned(m, r, x)
<1>1. x >= LevelStep => x \div LevelStep + 1 >= 2
  <2> SUFFICES ASSUME x >= LevelStep PROVE x \div LevelStep >= 1
    BY EffectsAssumption
  <2>1. PICK q : q = x \div LevelStep
    OBVIOUS
  <2>2. PICK d : d = LevelStep
    OBVIOUS
  <2>3. PICK y : y = x % LevelStep
    OBVIOUS
  <2>4. d \in Nat /\ d > 0 /\ q \in Int /\ y \in Int /\ y < d /\ x = d * q + y /\ x >= d
    BY <2>1, <2>2, <2>3, EffectsAssumption
  <2>5. q <= 0 => d * q <= 0
    BY <2>4
  <2> QED
    BY <2>1, <2>4, <2>5
<1> QED
  BY <1>1, EffectsAssumption DEF Due, Earned, Reached

\* What was earned stays earned.
LEMMA EarnedGrows ==
  ASSUME NEW m \in Nat, NEW r \in Nat, NEW x \in Nat, NEW n \in Nat, NEW q \in Nat, NEW y \in Nat,
         m <= n, r <= q, x <= y
  PROVE  Earned(m, r, x) \subseteq Earned(n, q, y)
<1>1. x \div LevelStep + 1 >= 2 => y \div LevelStep + 1 >= 2
  BY EffectsAssumption
<1> QED
  BY <1>1, EffectsAssumption DEF Earned, Reached
-----------------------------------------------------------------------------
\* Types.

UnlockSteps == {"idle", "claim", "read", "seed", "compare", "insert", "titles", "delete", "complete", "fail"}

\* One effect of one turn moves.
LEMMA EffectMoves ==
  ASSUME UnlockTypes, NEW t \in Turns, NEW e \in AllEffects, NEW x, Advance(t, e, x)
  PROVE  /\ \A u \in Turns : Unlocking(u)' = IF u = t /\ e = "achievement" THEN x ELSE Unlocking(u)
         /\ x \in UnlockSteps => step' \in [Turns -> [AllEffects -> UnlockSteps]]
<1>1. step \in [Turns -> [AllEffects -> UnlockSteps]] /\ "achievement" \in AllEffects
  BY DEF UnlockTypes, UnlockSteps, AllEffects
<1>2. step' = [step EXCEPT ![t] = [step[t] EXCEPT ![e] = x]]
  BY DEF Advance
<1>3. \A u \in Turns : step'[u] = IF u = t THEN [step[t] EXCEPT ![e] = x] ELSE step[u]
  BY <1>1, <1>2
<1>4. [step[t] EXCEPT ![e] = x]["achievement"] = IF e = "achievement" THEN x ELSE step[t]["achievement"]
  BY <1>1
<1>5. \A u \in Turns : step'[u]["achievement"] =
                         IF u = t /\ e = "achievement" THEN x ELSE step[u]["achievement"]
  BY <1>3, <1>4
<1>6. x \in UnlockSteps => step' \in [Turns -> [AllEffects -> UnlockSteps]]
  BY <1>1, <1>2
<1> QED
  BY <1>5, <1>6 DEF Unlocking

LEMMA RunMoves ==
  ASSUME UnlockTypes, NEW t \in Turns, NEW e \in AllEffects, NEW x,
         run' = [run EXCEPT ![t][e] = x]
  PROVE  /\ \A u \in Turns : run'[u]["achievement"] =
                               IF u = t /\ e = "achievement" THEN x ELSE run[u]["achievement"]
         /\ x \in {"none", "running", "failed", "completed"} =>
              run' \in [Turns -> [AllEffects -> {"none", "running", "failed", "completed"}]]
<1>1. /\ run \in [Turns -> [AllEffects -> {"none", "running", "failed", "completed"}]]
      /\ "achievement" \in AllEffects
  BY DEF UnlockTypes, AllEffects
<1>2. run' = [run EXCEPT ![t] = [run[t] EXCEPT ![e] = x]]
  OBVIOUS
<1>3. \A u \in Turns : run'[u] = IF u = t THEN [run[t] EXCEPT ![e] = x] ELSE run[u]
  BY <1>1, <1>2
<1>4. [run[t] EXCEPT ![e] = x]["achievement"] = IF e = "achievement" THEN x ELSE run[t]["achievement"]
  BY <1>1
<1> QED
  BY <1>1, <1>2, <1>3, <1>4

\* A reply wakes the effects of its turn, or none.
LEMMA ReplyMoves ==
  ASSUME UnlockTypes, Reply, NEW k, k = answered + 1
  PROVE  /\ k \in Turns /\ answered' = k
         /\ said' \in Nat /\ said <= said' /\ bond' \in Nat /\ bond <= bond'
         /\ step' \in [Turns -> [AllEffects -> UnlockSteps]]
         /\ UNCHANGED <<run, rules, fresh, won, seeded, unlocked, titles, announced, faults>>
         /\ \A u \in Turns \ {k} : Unlocking(u)' = Unlocking(u)
         /\ \/ UNCHANGED owed /\ Unlocking(k)' \in {"idle", Unlocking(k)}
            \/ Unlocking(k)' = "claim" /\ owed' = Due(said', answered', bond')
<1>1. k \in Turns /\ answered' = k
  BY EffectsAssumption DEF Reply, UnlockTypes, Turns
<1>2. said' \in Nat /\ said <= said' /\ bond' \in Nat /\ bond <= bond'
  <2>1. \A n \in 0..MaxUnanswered : n \in Nat
    BY EffectsAssumption
  <2> QED
    BY <2>1 DEF Reply, UnlockTypes
<1>3. UNCHANGED <<run, rules, fresh, won, seeded, unlocked, titles, announced, faults>>
  BY DEF Reply, unlocking
<1> DEFINE woken == [e \in AllEffects |-> IF e \in Effects THEN "claim" ELSE "idle"]
<1>4. CASE step' = [step EXCEPT ![k] = woken]
           /\ owed' = IF "achievement" \in Effects THEN Due(said', answered', bond') ELSE owed
  <2>1. woken \in [AllEffects -> UnlockSteps]
    BY DEF UnlockSteps
  <2>2. woken["achievement"] = IF "achievement" \in Effects THEN "claim" ELSE "idle"
    BY DEF AllEffects
  <2> HIDE DEF woken
  <2>3. step' \in [Turns -> [AllEffects -> UnlockSteps]]
    BY <1>1, <1>4, <2>1 DEF UnlockTypes, UnlockSteps
  <2>4. step'[k] = woken /\ \A u \in Turns \ {k} : step'[u] = step[u]
    BY <1>1, <1>4 DEF UnlockTypes
  <2>5. \A u \in Turns \ {k} : Unlocking(u)' = Unlocking(u)
    BY <2>4 DEF Unlocking
  <2>7. step'[k]["achievement"] = IF "achievement" \in Effects THEN "claim" ELSE "idle"
    BY <2>2, <2>4
  <2>8. \/ UNCHANGED owed /\ step'[k]["achievement"] = "idle"
        \/ step'[k]["achievement"] = "claim" /\ owed' = Due(said', answered', bond')
    BY <1>4, <2>7
  <2> QED
    BY <1>1, <1>2, <1>3, <2>3, <2>5, <2>8 DEF Unlocking
<1>5. CASE UNCHANGED <<step, owed>>
  BY <1>1, <1>2, <1>3, <1>5 DEF Unlocking, UnlockTypes, UnlockSteps
<1> QED
  BY <1>4, <1>5 DEF Reply

LEMMA UnlockTypesStep == UnlockTypes /\ [EffectNext]_effectVars => UnlockTypes'
<1> SUFFICES ASSUME UnlockTypes, [EffectNext]_effectVars PROVE UnlockTypes'
  OBVIOUS
<1> USE DEF counts, unlocking, remembering
<1>1. CASE Reply
  <2>1. PICK k : k = answered + 1
    OBVIOUS
  <2>2. /\ k \in Turns /\ answered' = k /\ said' \in Nat /\ bond' \in Nat
        /\ step' \in [Turns -> [AllEffects -> UnlockSteps]]
        /\ UNCHANGED <<run, rules, fresh, won, seeded, unlocked, titles, announced, faults>>
        /\ UNCHANGED owed \/ owed' = Due(said', answered', bond')
    BY <1>1, <2>1, ReplyMoves
  <2>3. owed' \subseteq Codes
    BY <2>2 DEF Due, Codes, UnlockTypes
  <2> QED
    BY <2>2, <2>3 DEF UnlockTypes, UnlockSteps, Turns
<1>2. ASSUME NEW t \in Turns, NEW e \in AllEffects, NEW x \in UnlockSteps, Advance(t, e, x)
      PROVE  step' \in [Turns -> [AllEffects -> {"idle", "claim", "read", "seed", "compare", "insert",
                                                 "titles", "delete", "complete", "fail"}]]
  BY <1>2, EffectMoves DEF UnlockSteps
<1>3. ASSUME NEW t \in Turns, NEW e \in AllEffects, NEW x \in {"none", "running", "failed", "completed"},
             run' = [run EXCEPT ![t][e] = x]
      PROVE  run' \in [Turns -> [AllEffects -> {"none", "running", "failed", "completed"}]]
  BY <1>3, RunMoves
<1>4. ASSUME NEW t \in Turns, NEW e \in Effects, Claim(t, e) PROVE UnlockTypes'
  <2>1. e \in AllEffects
    BY EffectsAssumption
  <2>2. Advance(t, e, "read") \/ Advance(t, e, "idle")
    BY <1>4 DEF Claim
  <2>3. UNCHANGED run \/ run' = [run EXCEPT ![t][e] = "running"]
    BY <1>4 DEF Claim
  <2> QED
    BY <1>2, <1>3, <1>4, <2>1, <2>2, <2>3 DEF Claim, UnlockTypes, UnlockSteps
<1>5. ASSUME NEW t \in Turns, NEW e \in Effects, Complete(t, e) PROVE UnlockTypes'
  <2>1. e \in AllEffects
    BY EffectsAssumption
  <2>2. Advance(t, e, "idle") /\ run' = [run EXCEPT ![t][e] = "completed"]
    BY <1>5 DEF Complete
  <2>3. announced' \in [Codes -> Nat]
    BY <1>5 DEF Complete, UnlockTypes
  <2> QED
    BY <1>2, <1>3, <1>5, <2>1, <2>2, <2>3 DEF Complete, UnlockTypes, UnlockSteps
<1>6. ASSUME NEW t \in Turns, NEW e \in Effects, StatementFails(t, e) PROVE UnlockTypes'
  <2>1. e \in AllEffects
    BY EffectsAssumption
  <2>2. Advance(t, e, "idle") \/ Advance(t, e, "fail")
    BY <1>6 DEF StatementFails
  <2> QED
    BY <1>2, <1>6, <2>1, <2>2 DEF StatementFails, UnlockTypes, UnlockSteps
<1>7. ASSUME NEW t \in Turns, NEW e \in Effects, MarkFailed(t, e) PROVE UnlockTypes'
  <2>1. e \in AllEffects
    BY EffectsAssumption
  <2>2. Advance(t, e, "idle") /\ run' = [run EXCEPT ![t][e] = "failed"]
    BY <1>7 DEF MarkFailed
  <2> QED
    BY <1>2, <1>3, <1>7, <2>1, <2>2 DEF MarkFailed, UnlockTypes, UnlockSteps
<1>8. ASSUME NEW t \in Turns, Evaluate(t) \/ Seed(t) \/ Compare(t) \/ Unlock(t) \/ Entitle(t)
      PROVE  UnlockTypes'
  <2>1. \E x \in UnlockSteps : Advance(t, "achievement", x)
    BY <1>8 DEF Evaluate, Seed, Compare, Unlock, Entitle, UnlockSteps
  <2>2. "achievement" \in AllEffects
    BY DEF AllEffects
  <2>3. step' \in [Turns -> [AllEffects -> {"idle", "claim", "read", "seed", "compare", "insert",
                                            "titles", "delete", "complete", "fail"}]]
    BY <1>2, <2>1, <2>2
  <2>4. Earned(said, answered, bond) \subseteq Codes
    BY DEF Earned, Codes
  <2>5. rules' \in [Turns -> SUBSET Codes] /\ fresh' \in [Turns -> SUBSET Codes]
        /\ won' \in [Turns -> SUBSET Codes] /\ seeded' \subseteq Codes /\ unlocked' \subseteq Codes
    BY <1>8, <2>4 DEF Evaluate, Seed, Compare, Unlock, Inserted, Entitle, UnlockTypes
  <2> QED
    BY <1>8, <2>3, <2>5 DEF Evaluate, Seed, Compare, Unlock, Entitle, UnlockTypes
<1>9. ASSUME NEW t \in Turns, Remember(t) \/ Forget(t) \/ Insert(t) PROVE UnlockTypes'
  <2>1. \E x \in UnlockSteps : Advance(t, "memory", x)
    BY <1>9 DEF Remember, Forget, Insert, UnlockSteps
  <2>2. "memory" \in AllEffects
    BY DEF AllEffects
  <2>3. step' \in [Turns -> [AllEffects -> {"idle", "claim", "read", "seed", "compare", "insert",
                                            "titles", "delete", "complete", "fail"}]]
    BY <1>2, <2>1, <2>2
  <2> QED
    BY <1>9, <2>3 DEF Remember, Forget, Insert, UnlockTypes
<1>10. CASE Crash
  BY <1>10 DEF Crash, UnlockTypes
<1>11. CASE UNCHANGED effectVars
  BY <1>11 DEF effectVars, UnlockTypes
<1> QED
  BY <1>1, <1>4, <1>5, <1>6, <1>7, <1>8, <1>9, <1>10, <1>11 DEF EffectNext, Effect

-----------------------------------------------------------------------------
\* The invariant.

\* A step that unlocks nothing and moves no achievements.
LEMMA UnlockUntouched ==
  ASSUME UnlockInv,
         UNCHANGED <<counts, rules, fresh, won, seeded, unlocked, titles, announced, owed, faults>>,
         \A u \in Turns : /\ Unlocking(u)' = Unlocking(u)
                          /\ run'[u]["achievement"] = run[u]["achievement"]
  PROVE  Untried' /\ WonOnce' /\ AnnouncedByWinner' /\ OwedIsComing' /\ TitlesAreComing'
<1> USE DEF UnlockInv, Unlocking, counts
<1>1. Untried' /\ WonOnce'
  BY DEF Untried, WonOnce
<1>2. AnnouncedByWinner'
  BY DEF AnnouncedByWinner
<1>3. OwedIsComing'
  BY DEF OwedIsComing, Brings
<1>4. TitlesAreComing'
  BY DEF TitlesAreComing
<1> QED
  BY <1>1, <1>2, <1>3, <1>4

\* A turn that stops half-way keeps what it won; its codes are due no more.
LEMMA UnlockStops ==
  ASSUME UnlockInv, UNCHANGED <<counts, run, rules, fresh, won, seeded, unlocked, titles, announced, owed>>,
         faults' # 0,
         \A u \in Turns : Unlocking(u)' \in {"idle", "fail", Unlocking(u)}
                          /\ (Unlocking(u) = "idle" => Unlocking(u)' = "idle")
  PROVE  Untried' /\ WonOnce' /\ AnnouncedByWinner' /\ OwedIsComing' /\ TitlesAreComing'
<1> USE DEF UnlockInv, Unlocking, counts
<1>1. Untried'
  BY DEF Untried
<1>2. WonOnce'
  BY DEF WonOnce
<1>3. AnnouncedByWinner'
  BY DEF AnnouncedByWinner
<1>4. OwedIsComing' /\ TitlesAreComing'
  BY DEF OwedIsComing, TitlesAreComing
<1> QED
  BY <1>1, <1>2, <1>3, <1>4

LEMMA ReplyKeepsUnlockInv ==
  ASSUME UnlockInv, Reply
  PROVE  Untried' /\ WonOnce' /\ AnnouncedByWinner' /\ OwedIsComing' /\ TitlesAreComing'
<1>1. PICK k : k = answered + 1
  OBVIOUS
<1>2. /\ k \in Turns /\ answered' = k
      /\ said' \in Nat /\ said <= said' /\ bond' \in Nat /\ bond <= bond'
      /\ UNCHANGED <<run, rules, fresh, won, seeded, unlocked, titles, announced, faults>>
      /\ \A u \in Turns \ {k} : Unlocking(u)' = Unlocking(u)
      /\ \/ UNCHANGED owed /\ Unlocking(k)' \in {"idle", Unlocking(k)}
         \/ Unlocking(k)' = "claim" /\ owed' = Due(said', answered', bond')
  BY <1>1, ReplyMoves DEF UnlockInv
<1>3. answered \in Nat /\ said \in Nat /\ bond \in Nat /\ k \in Nat /\ k > answered /\ Turns \subseteq Nat
  BY <1>1, EffectsAssumption DEF UnlockInv, UnlockTypes, Turns
<1>4. run[k]["achievement"] = "none" /\ Unlocking(k) = "idle" /\ won[k] = {}
  BY <1>2, <1>3 DEF UnlockInv, Untried
<1>5. Unlocking(k)' \in {"idle", "claim"}
  BY <1>2, <1>4
<1>6. Untried'
  BY <1>2, <1>3, <1>4, <1>5 DEF UnlockInv, Untried, Unlocking
<1>7. WonOnce'
  BY <1>2, <1>4 DEF UnlockInv, WonOnce, Unlocking
<1>8. AnnouncedByWinner'
  <2> SUFFICES ASSUME NEW c \in Codes, announced'[c] # 0
               PROVE  announced'[c] = 1 /\ \E t \in Turns : Unlocking(t)' = "idle" /\ c \in won'[t]
    BY DEF AnnouncedByWinner, Unlocking
  <2>1. PICK t \in Turns : announced[c] = 1 /\ Unlocking(t) = "idle" /\ c \in won[t]
    BY <1>2 DEF UnlockInv, AnnouncedByWinner
  <2>2. t # k
    BY <1>4, <2>1
  <2> QED
    BY <1>2, <2>1, <2>2
<1>9. OwedIsComing'
  <2> SUFFICES ASSUME faults' = 0
               PROVE  owed' \subseteq unlocked' \/ \E t \in Turns : Brings(t)'
    BY DEF OwedIsComing
  <2>1. CASE UNCHANGED owed
    <3>1. CASE owed \subseteq unlocked
      BY <1>2, <2>1, <3>1
    <3>2. CASE ~(owed \subseteq unlocked)
      <4>1. PICK t \in Turns : Brings(t)
        BY <1>2, <3>2 DEF UnlockInv, OwedIsComing
      <4>2. t # k
        BY <1>4, <4>1 DEF Brings
      <4>3. Earned(said, answered, bond) \subseteq Earned(said', answered', bond')
        <5>1. answered' \in Nat /\ answered <= answered'
          BY <1>2, <1>3
        <5> QED
          BY <1>2, <1>3, <5>1, EarnedGrows
      <4>4. step'[t]["achievement"] = step[t]["achievement"]
        BY <1>2, <4>2 DEF Unlocking
      <4>5. CASE Unlocking(t) \in {"claim", "read"} /\ owed \subseteq Earned(said, answered, bond)
        <5>1. owed' \subseteq Earned(said', answered', bond')
          BY <2>1, <4>3, <4>5
        <5> QED
          BY <4>4, <4>5, <5>1 DEF Brings, Unlocking
      <4>6. CASE ~(Unlocking(t) \in {"claim", "read"} /\ owed \subseteq Earned(said, answered, bond))
        BY <1>2, <2>1, <4>1, <4>4, <4>6 DEF Brings, Unlocking
      <4> QED
        BY <4>5, <4>6
    <3> QED
      BY <3>1, <3>2
  <2>2. CASE Unlocking(k)' = "claim" /\ owed' = Due(said', answered', bond')
    <3>1. owed' \subseteq Earned(said', answered', bond')
      BY <1>2, <1>3, <2>2, DueIsEarned
    <3>2. Brings(k)'
      BY <2>2, <3>1 DEF Brings, Unlocking
    <3> QED
      BY <1>2, <3>2
  <2> QED
    BY <1>2, <2>1, <2>2
<1>10. TitlesAreComing'
  <2> SUFFICES ASSUME faults' = 0, NEW c \in unlocked' \cap WithTitle
               PROVE  c \in titles' \/ \E t \in Turns : Unlocking(t)' = "titles" /\ c \in fresh'[t]
    BY DEF TitlesAreComing, Unlocking
  <2>1. c \in titles \/ \E t \in Turns : Unlocking(t) = "titles" /\ c \in fresh[t]
    BY <1>2 DEF UnlockInv, TitlesAreComing
  <2> QED
    BY <1>2, <1>4, <2>1
<1> QED
  BY <1>6, <1>7, <1>8, <1>9, <1>10

\* One statement of the achievements of turn t.
LEMMA StatementKeepsUnlockInv ==
  ASSUME UnlockInv, UnlockTypes', NEW t \in Turns,
         Evaluate(t) \/ Seed(t) \/ Compare(t) \/ Unlock(t) \/ Entitle(t)
  PROVE  Untried' /\ WonOnce' /\ AnnouncedByWinner' /\ OwedIsComing' /\ TitlesAreComing'
<1> USE DEF counts
<1>1. PICK x : Advance(t, "achievement", x)
  BY DEF Evaluate, Seed, Compare, Unlock, Entitle
<1>2. \A u \in Turns : Unlocking(u)' = IF u = t THEN x ELSE Unlocking(u)
  BY <1>1, EffectMoves DEF UnlockInv, AllEffects
<1>3. /\ UNCHANGED <<said, answered, bond, run, announced, owed, faults>>
      /\ Unlocking(t) \in {"read", "seed", "compare", "insert", "titles"}
      /\ x \in {"seed", "complete", "compare", "insert", "titles"}
  <2>1. UNCHANGED <<said, answered, bond, run, announced, owed, faults>>
    BY DEF Evaluate, Seed, Compare, Unlock, Entitle
  <2>2. Unlocking(t) \in {"read", "seed", "compare", "insert", "titles"}
    BY DEF Evaluate, Seed, Compare, Unlock, Entitle, At, Unlocking
  <2>3. Unlocking(t)' \in {"seed", "complete", "compare", "insert", "titles"}
    <3>1. \E y \in {"seed", "complete", "compare", "insert", "titles"} : Advance(t, "achievement", y)
      BY DEF Evaluate, Seed, Compare, Unlock, Entitle
    <3> QED
      BY <3>1, EffectMoves DEF UnlockInv, AllEffects
  <2> QED
    BY <1>2, <2>1, <2>2, <2>3
<1>4. \A u \in Turns \ {t} : rules'[u] = rules[u] /\ fresh'[u] = fresh[u] /\ won'[u] = won[u]
  BY DEF Evaluate, Seed, Compare, Unlock, Entitle, UnlockInv, UnlockTypes
<1>5. Untried'
  BY <1>2, <1>3, <1>4 DEF UnlockInv, Untried, Unlocking
\* What another turn brings it goes on bringing.
<1>6. ASSUME NEW u \in Turns \ {t}, Brings(u), seeded \subseteq seeded', unlocked \subseteq unlocked'
      PROVE  Brings(u)'
  BY <1>2, <1>3, <1>4, <1>6 DEF Brings, Unlocking
\* No turn that has ended is this one.
<1>7. ASSUME \A u \in Turns \ {t} : won'[u] = won[u]
      PROVE  AnnouncedByWinner'
  <2> SUFFICES ASSUME NEW c \in Codes, announced'[c] # 0
               PROVE  announced'[c] = 1 /\ \E u \in Turns : Unlocking(u)' = "idle" /\ c \in won'[u]
    BY DEF AnnouncedByWinner, Unlocking
  <2>1. PICK u \in Turns : announced[c] = 1 /\ Unlocking(u) = "idle" /\ c \in won[u]
    BY <1>3 DEF UnlockInv, AnnouncedByWinner
  <2> QED
    BY <1>2, <1>3, <1>7, <2>1
<1>8. AnnouncedByWinner'
  BY <1>4, <1>7
<1>9. ASSUME UNCHANGED <<won, unlocked>>, Unlocking(t) \in {"read", "seed", "compare"},
             x \in {"seed", "complete", "compare", "insert"}
      PROVE  WonOnce' /\ (UNCHANGED titles => TitlesAreComing')
  <2>1. WonOnce'
    BY <1>2, <1>9 DEF UnlockInv, WonOnce, Unlocking
  <2>2. ASSUME UNCHANGED titles PROVE TitlesAreComing'
    <3> SUFFICES ASSUME faults' = 0, NEW c \in unlocked' \cap WithTitle
                 PROVE  c \in titles' \/ \E u \in Turns : Unlocking(u)' = "titles" /\ c \in fresh'[u]
      BY DEF TitlesAreComing, Unlocking
    <3>1. c \in titles \/ \E u \in Turns : Unlocking(u) = "titles" /\ c \in fresh[u]
      BY <1>3, <1>9 DEF UnlockInv, TitlesAreComing
    <3> QED
      BY <1>2, <1>4, <1>9, <2>2, <3>1
  <2> QED
    BY <2>1, <2>2
\* What is due stays unlocked or on its way, if this turn still brings it.
<1>10. ASSUME seeded \subseteq seeded', unlocked \subseteq unlocked',
              Brings(t) => Brings(t)' \/ owed \subseteq unlocked'
       PROVE  OwedIsComing'
  <2> SUFFICES ASSUME faults' = 0 PROVE owed' \subseteq unlocked' \/ \E u \in Turns : Brings(u)'
    BY DEF OwedIsComing
  <2>1. owed \subseteq unlocked \/ \E u \in Turns : Brings(u)
    BY <1>3 DEF UnlockInv, OwedIsComing
  <2>2. CASE owed \subseteq unlocked
    BY <1>3, <1>10, <2>2
  <2>3. CASE \E u \in Turns : Brings(u)
    BY <1>3, <1>6, <1>10, <2>3
  <2> QED
    BY <2>1, <2>2, <2>3
<1>11. CASE Evaluate(t)
  <2>1. /\ Unlocking(t) = "read" /\ UNCHANGED <<fresh, won, seeded, unlocked, titles>>
        /\ rules'[t] = Earned(said, answered, bond)
        /\ x = IF Earned(said, answered, bond) = {} THEN "complete" ELSE "seed"
    <3>1. rules'[t] = Earned(said, answered, bond)
      BY <1>11 DEF Evaluate, UnlockInv, UnlockTypes
    <3>2. Advance(t, "achievement", IF rules'[t] = {} THEN "complete" ELSE "seed")
      BY <1>11 DEF Evaluate
    <3>3. PICK y : y = IF rules'[t] = {} THEN "complete" ELSE "seed"
      OBVIOUS
    <3>4. Unlocking(t)' = y
      BY <3>2, <3>3, EffectMoves DEF UnlockInv, AllEffects
    <3> QED
      BY <1>2, <1>11, <3>1, <3>3, <3>4 DEF Evaluate, At, Unlocking
  <2>2. Brings(t) => Brings(t)' \/ owed \subseteq unlocked'
    BY <1>2, <1>3, <2>1 DEF Brings, Unlocking
  <2> QED
    BY <1>5, <1>8, <1>9, <1>10, <2>1, <2>2
<1>12. CASE Seed(t)
  <2>1. /\ Unlocking(t) = "seed" /\ UNCHANGED <<rules, fresh, won, unlocked, titles>>
        /\ seeded' = seeded \cup rules[t] /\ x = "compare"
    <3>1. Unlocking(t)' = "compare"
      BY <1>12, EffectMoves DEF Seed, UnlockInv, AllEffects
    <3> QED
      BY <1>2, <1>12, <3>1 DEF Seed, At, Unlocking
  <2>2. Brings(t) => Brings(t)' \/ owed \subseteq unlocked'
    BY <1>2, <1>3, <2>1 DEF Brings, Unlocking
  <2> QED
    BY <1>5, <1>8, <1>9, <1>10, <2>1, <2>2
<1>13. CASE Compare(t)
  <2>1. /\ Unlocking(t) = "compare" /\ UNCHANGED <<rules, seeded, won, unlocked, titles>>
        /\ fresh'[t] = (rules[t] \cap seeded) \ unlocked /\ x = "insert"
    <3>1. Unlocking(t)' = "insert"
      BY <1>13, EffectMoves DEF Compare, UnlockInv, AllEffects
    <3> QED
      BY <1>2, <1>13, <3>1 DEF Compare, At, Unlocking, UnlockInv, UnlockTypes
  <2>2. Brings(t) => Brings(t)' \/ owed \subseteq unlocked'
    BY <1>2, <1>3, <2>1 DEF Brings, Unlocking
  <2> QED
    BY <1>5, <1>8, <1>9, <1>10, <2>1, <2>2
<1>14. CASE Unlock(t)
  <2>1. /\ Unlocking(t) = "insert" /\ UNCHANGED <<rules, fresh, seeded, titles>>
        /\ won'[t] = fresh[t] \ unlocked /\ unlocked' = unlocked \cup fresh[t] /\ x = "titles"
    <3>1. Unlocking(t)' = "titles"
      BY <1>14, EffectMoves DEF Unlock, UnlockInv, AllEffects
    <3> QED
      BY <1>2, <1>14, <3>1 DEF Unlock, Inserted, At, Unlocking, UnlockInv, UnlockTypes
  <2>2. Brings(t) => owed \subseteq unlocked'
    BY <2>1 DEF Brings
  <2>3. WonOnce'
    BY <1>2, <1>4, <2>1 DEF UnlockInv, WonOnce, Unlocking
  <2>4. TitlesAreComing'
    <3> SUFFICES ASSUME faults' = 0, NEW c \in unlocked' \cap WithTitle
                 PROVE  c \in titles' \/ \E u \in Turns : Unlocking(u)' = "titles" /\ c \in fresh'[u]
      BY DEF TitlesAreComing, Unlocking
    <3>1. c \in fresh[t] \/ c \in titles \/ \E u \in Turns : Unlocking(u) = "titles" /\ c \in fresh[u]
      BY <1>3, <2>1 DEF UnlockInv, TitlesAreComing
    <3> QED
      BY <1>2, <2>1, <3>1
  <2> QED
    BY <1>5, <1>8, <1>10, <2>1, <2>2, <2>3, <2>4
<1>15. CASE Entitle(t)
  <2>1. /\ Unlocking(t) = "titles" /\ UNCHANGED <<rules, fresh, won, seeded, unlocked>>
        /\ titles' = titles \cup (fresh[t] \cap WithTitle) /\ x = "complete"
    <3>1. Unlocking(t)' = "complete"
      BY <1>15, EffectMoves DEF Entitle, UnlockInv, AllEffects
    <3> QED
      BY <1>2, <1>15, <3>1 DEF Entitle, TitlesOf, At, Unlocking
  <2>2. ~Brings(t)
    BY <2>1 DEF Brings
  <2>3. WonOnce'
    BY <1>2, <2>1 DEF UnlockInv, WonOnce, Unlocking
  <2>4. TitlesAreComing'
    <3> SUFFICES ASSUME faults' = 0, NEW c \in unlocked' \cap WithTitle
                 PROVE  c \in titles' \/ \E u \in Turns : Unlocking(u)' = "titles" /\ c \in fresh'[u]
      BY DEF TitlesAreComing, Unlocking
    <3>1. c \in titles \/ \E u \in Turns : Unlocking(u) = "titles" /\ c \in fresh[u]
      BY <1>3, <2>1 DEF UnlockInv, TitlesAreComing
    <3> QED
      BY <1>2, <2>1, <3>1
  <2> QED
    BY <1>5, <1>8, <1>10, <2>1, <2>2, <2>3, <2>4
<1> QED
  BY <1>11, <1>12, <1>13, <1>14, <1>15

LEMMA UnlockInvStep == UnlockInv /\ [EffectNext]_effectVars => UnlockInv'
<1> SUFFICES ASSUME UnlockInv, [EffectNext]_effectVars PROVE UnlockInv'
  OBVIOUS
<1> USE DEF counts, unlocking, remembering
<1> DEFINE Rest == Untried' /\ WonOnce' /\ AnnouncedByWinner' /\ OwedIsComing' /\ TitlesAreComing'
<1>0. UnlockTypes /\ UnlockTypes'
  BY UnlockTypesStep DEF UnlockInv
<1>1. ASSUME Reply PROVE Rest
  BY <1>1, ReplyKeepsUnlockInv
<1>2. ASSUME NEW t \in Turns, NEW e \in Effects, Claim(t, e) PROVE Rest
  <2>0. e \in AllEffects
    BY EffectsAssumption
  <2>1. PICK x \in {"read", "idle"} : Advance(t, e, x)
    BY <1>2 DEF Claim
  <2>2. \A u \in Turns : Unlocking(u)' = IF u = t /\ e = "achievement" THEN x ELSE Unlocking(u)
    BY <1>0, <2>0, <2>1, EffectMoves
  <2>3. UNCHANGED <<said, answered, bond, rules, fresh, won, seeded, unlocked, titles, announced, owed, faults>>
    BY <1>2 DEF Claim
  <2>4. \A u \in Turns : run'[u]["achievement"] =
          IF u = t /\ e = "achievement" /\ run' # run THEN "running" ELSE run[u]["achievement"]
    <3>1. UNCHANGED run \/ run' = [run EXCEPT ![t][e] = "running"]
      BY <1>2 DEF Claim
    <3> QED
      BY <1>0, <2>0, <3>1, RunMoves
  <2>5. CASE e # "achievement"
    BY <2>2, <2>3, <2>4, <2>5, UnlockUntouched
  <2>6. CASE e = "achievement"
    <3>1. Unlocking(t) = "claim" /\ run[t]["achievement"] = "none"
      BY <1>2, <2>6 DEF Claim, At, Unlocking, UnlockInv, Untried
    <3>2. Advance(t, e, "read")
      BY <1>2, <2>6, <3>1 DEF Claim
    <3>3. \A u \in Turns : Unlocking(u)' = IF u = t THEN "read" ELSE Unlocking(u)
      BY <1>0, <2>0, <2>6, <3>2, EffectMoves
    <3>4. Untried'
      BY <2>3, <2>4, <3>1, <3>3 DEF UnlockInv, Untried, Unlocking
    <3>5. WonOnce'
      BY <2>3, <3>1, <3>3 DEF UnlockInv, WonOnce, Unlocking
    <3>6. AnnouncedByWinner'
      <4> SUFFICES ASSUME NEW c \in Codes, announced'[c] # 0
                   PROVE  announced'[c] = 1 /\ \E u \in Turns : Unlocking(u)' = "idle" /\ c \in won'[u]
        BY DEF AnnouncedByWinner, Unlocking
      <4>1. PICK u \in Turns : announced[c] = 1 /\ Unlocking(u) = "idle" /\ c \in won[u]
        BY <2>3 DEF UnlockInv, AnnouncedByWinner
      <4> QED
        BY <2>3, <3>1, <3>3, <4>1
    <3>7. ASSUME NEW u \in Turns, Brings(u) PROVE Brings(u)'
      BY <2>3, <3>1, <3>3, <3>7 DEF Brings, Unlocking
    <3>8. OwedIsComing'
      BY <2>3, <3>7 DEF UnlockInv, OwedIsComing
    <3>9. TitlesAreComing'
      <4> SUFFICES ASSUME faults' = 0, NEW c \in unlocked' \cap WithTitle
                   PROVE  c \in titles' \/ \E u \in Turns : Unlocking(u)' = "titles" /\ c \in fresh'[u]
        BY DEF TitlesAreComing, Unlocking
      <4>1. c \in titles \/ \E u \in Turns : Unlocking(u) = "titles" /\ c \in fresh[u]
        BY <2>3 DEF UnlockInv, TitlesAreComing
      <4> QED
        BY <2>3, <3>1, <3>3, <4>1
    <3> QED
      BY <3>4, <3>5, <3>6, <3>8, <3>9
  <2> QED
    BY <2>5, <2>6
<1>3. ASSUME NEW t \in Turns, NEW e \in Effects, Complete(t, e) PROVE Rest
  <2>0. e \in AllEffects
    BY EffectsAssumption
  <2>1. Advance(t, e, "idle") /\ run' = [run EXCEPT ![t][e] = "completed"]
    BY <1>3 DEF Complete
  <2>2. \A u \in Turns : Unlocking(u)' = IF u = t /\ e = "achievement" THEN "idle" ELSE Unlocking(u)
    BY <1>0, <2>0, <2>1, EffectMoves
  <2>3. UNCHANGED <<said, answered, bond, rules, fresh, won, seeded, unlocked, titles, owed, faults>>
    BY <1>3 DEF Complete
  <2>4. \A u \in Turns : run'[u]["achievement"] =
          IF u = t /\ e = "achievement" THEN "completed" ELSE run[u]["achievement"]
    <3>1. /\ run \in [Turns -> [AllEffects -> {"none", "running", "failed", "completed"}]]
          /\ "achievement" \in AllEffects
      BY <1>0 DEF UnlockTypes, AllEffects
    <3>2. run' = [run EXCEPT ![t] = [run[t] EXCEPT ![e] = "completed"]]
      BY <2>1
    <3> QED
      BY <2>0, <3>1, <3>2
  <2>5. /\ announced' \in [Codes -> Nat]
        /\ \A c \in Codes : announced'[c] = announced[c] + IF e = "achievement" /\ c \in won[t] THEN 1 ELSE 0
    BY <1>0, <1>3 DEF Complete, UnlockTypes
  <2>6. CASE e # "achievement"
    <3>1. announced' = announced
      BY <1>0, <2>5, <2>6 DEF UnlockTypes
    <3> QED
      BY <2>2, <2>3, <2>4, <2>6, <3>1, UnlockUntouched
  <2>7. CASE e = "achievement"
    <3>1. Unlocking(t) = "complete"
      BY <1>3, <2>7 DEF Complete, At, Unlocking
    <3>2. Untried'
      <4>1. ~(t > answered)
        BY <3>1 DEF UnlockInv, Untried
      <4> QED
        BY <2>2, <2>3, <2>4, <2>7, <4>1 DEF UnlockInv, Untried, Unlocking
    <3>3. WonOnce'
      BY <2>2, <2>3, <2>7 DEF UnlockInv, WonOnce, Unlocking
    <3>4. AnnouncedByWinner'
      <4> SUFFICES ASSUME NEW c \in Codes, announced'[c] # 0
                   PROVE  announced'[c] = 1 /\ \E u \in Turns : Unlocking(u)' = "idle" /\ c \in won'[u]
        BY DEF AnnouncedByWinner, Unlocking
      <4>1. CASE c \in won[t]
        <5>1. announced[c] = 0
          <6> SUFFICES ASSUME announced[c] # 0 PROVE FALSE
            OBVIOUS
          <6>1. PICK u \in Turns : Unlocking(u) = "idle" /\ c \in won[u]
            BY DEF UnlockInv, AnnouncedByWinner
          <6>2. u # t
            BY <3>1, <6>1
          <6> QED
            BY <4>1, <6>1, <6>2 DEF UnlockInv, WonOnce
        <5> QED
          BY <2>2, <2>3, <2>5, <2>7, <4>1, <5>1
      <4>2. CASE c \notin won[t]
        <5>1. announced'[c] = announced[c]
          BY <1>0, <2>5, <4>2 DEF UnlockTypes
        <5>2. PICK u \in Turns : announced[c] = 1 /\ Unlocking(u) = "idle" /\ c \in won[u]
          BY <5>1 DEF UnlockInv, AnnouncedByWinner
        <5> QED
          BY <2>2, <2>3, <5>1, <5>2
      <4> QED
        BY <4>1, <4>2
    <3>5. ASSUME NEW u \in Turns, Brings(u) PROVE Brings(u)'
      BY <2>2, <2>3, <3>1, <3>5 DEF Brings, Unlocking
    <3>6. OwedIsComing'
      BY <2>3, <3>5 DEF UnlockInv, OwedIsComing
    <3>7. TitlesAreComing'
      <4> SUFFICES ASSUME faults' = 0, NEW c \in unlocked' \cap WithTitle
                   PROVE  c \in titles' \/ \E u \in Turns : Unlocking(u)' = "titles" /\ c \in fresh'[u]
        BY DEF TitlesAreComing, Unlocking
      <4>1. c \in titles \/ \E u \in Turns : Unlocking(u) = "titles" /\ c \in fresh[u]
        BY <2>3 DEF UnlockInv, TitlesAreComing
      <4> QED
        BY <2>2, <2>3, <3>1, <4>1
    <3> QED
      BY <3>2, <3>3, <3>4, <3>6, <3>7
  <2> QED
    BY <2>6, <2>7
<1>4. ASSUME NEW t \in Turns, NEW e \in Effects, StatementFails(t, e) PROVE Rest
  <2>0. e \in AllEffects
    BY EffectsAssumption
  <2>1. PICK x \in {"idle", "fail"} : Advance(t, e, x)
    BY <1>4 DEF StatementFails
  <2>2. \A u \in Turns : Unlocking(u)' = IF u = t /\ e = "achievement" THEN x ELSE Unlocking(u)
    BY <1>0, <2>0, <2>1, EffectMoves
  <2>3. /\ UNCHANGED <<counts, run, rules, fresh, won, seeded, unlocked, titles, announced, owed>>
        /\ faults' # 0
    BY <1>0, <1>4 DEF StatementFails, UnlockTypes
  <2>4. e = "achievement" => Unlocking(t) # "idle"
    BY <1>4 DEF StatementFails, Unlocking
  <2>5. \A u \in Turns : Unlocking(u)' \in {"idle", "fail", Unlocking(u)}
                          /\ (Unlocking(u) = "idle" => Unlocking(u)' = "idle")
    BY <2>2, <2>4
  <2> QED
    BY <2>3, <2>5, UnlockStops
<1>5. ASSUME NEW t \in Turns, NEW e \in Effects, MarkFailed(t, e) PROVE Rest
  <2>0. e \in AllEffects
    BY EffectsAssumption
  <2>1. Advance(t, e, "idle") /\ run' = [run EXCEPT ![t][e] = "failed"]
    BY <1>5 DEF MarkFailed
  <2>2. \A u \in Turns : Unlocking(u)' = IF u = t /\ e = "achievement" THEN "idle" ELSE Unlocking(u)
    BY <1>0, <2>0, <2>1, EffectMoves
  <2>3. UNCHANGED <<said, answered, bond, rules, fresh, won, seeded, unlocked, titles, announced, owed, faults>>
    BY <1>5 DEF MarkFailed
  <2>4. \A u \in Turns : run'[u]["achievement"] =
          IF u = t /\ e = "achievement" THEN "failed" ELSE run[u]["achievement"]
    <3>1. /\ run \in [Turns -> [AllEffects -> {"none", "running", "failed", "completed"}]]
          /\ "achievement" \in AllEffects
      BY <1>0 DEF UnlockTypes, AllEffects
    <3>2. run' = [run EXCEPT ![t] = [run[t] EXCEPT ![e] = "failed"]]
      BY <2>1
    <3> QED
      BY <2>0, <3>1, <3>2
  <2>5. CASE e # "achievement"
    BY <2>2, <2>3, <2>4, <2>5, UnlockUntouched
  <2>6. CASE e = "achievement"
    <3>1. Unlocking(t) = "fail"
      BY <1>5, <2>6 DEF MarkFailed, At, Unlocking
    <3>2. Untried'
      <4>1. ~(t > answered)
        BY <3>1 DEF UnlockInv, Untried
      <4> QED
        BY <2>2, <2>3, <2>4, <2>6, <4>1 DEF UnlockInv, Untried, Unlocking
    <3>3. WonOnce'
      BY <2>2, <2>3, <2>6 DEF UnlockInv, WonOnce, Unlocking
    <3>4. AnnouncedByWinner'
      BY <2>2, <2>3 DEF UnlockInv, AnnouncedByWinner, Unlocking
    <3>5. ASSUME NEW u \in Turns, Brings(u) PROVE Brings(u)'
      BY <2>2, <2>3, <3>1, <3>5 DEF Brings, Unlocking
    <3>6. OwedIsComing'
      BY <2>3, <3>5 DEF UnlockInv, OwedIsComing
    <3>7. TitlesAreComing'
      BY <2>2, <2>3, <3>1 DEF UnlockInv, TitlesAreComing, Unlocking
    <3> QED
      BY <3>2, <3>3, <3>4, <3>6, <3>7
  <2> QED
    BY <2>5, <2>6
<1>6. ASSUME NEW t \in Turns, Evaluate(t) \/ Seed(t) \/ Compare(t) \/ Unlock(t) \/ Entitle(t)
      PROVE  Rest
  BY <1>0, <1>6, StatementKeepsUnlockInv
<1>7. ASSUME NEW t \in Turns, Remember(t) \/ Forget(t) \/ Insert(t) PROVE Rest
  <2>1. PICK x : Advance(t, "memory", x)
    BY <1>7 DEF Remember, Forget, Insert
  <2>2. \A u \in Turns : Unlocking(u)' = Unlocking(u)
    BY <1>0, <2>1, EffectMoves DEF AllEffects
  <2>3. UNCHANGED <<counts, run, rules, fresh, won, seeded, unlocked, titles, announced, owed, faults>>
    BY <1>7 DEF Remember, Forget, Insert
  <2> QED
    BY <2>2, <2>3, UnlockUntouched
<1>8. ASSUME Crash PROVE Rest
  <2>1. /\ UNCHANGED <<counts, run, rules, fresh, won, seeded, unlocked, titles, announced, owed>>
        /\ faults' # 0
    BY <1>0, <1>8 DEF Crash, UnlockTypes
  <2>2. \A u \in Turns : Unlocking(u)' = "idle"
    BY <1>8 DEF Crash, Unlocking, AllEffects
  <2> QED
    BY <2>1, <2>2, UnlockStops
<1>9. ASSUME UNCHANGED effectVars PROVE Rest
  BY <1>9, UnlockUntouched DEF effectVars, Unlocking
<1> QED
  BY <1>0, <1>1, <1>2, <1>3, <1>4, <1>5, <1>6, <1>7, <1>8, <1>9 DEF EffectNext, Effect, UnlockInv

\* However the effects of any number of turns overlap, what a reply earned is
\* unlocked with its titles once they rest, and announced by one turn alone.
THEOREM EffectsCatchUp == EffectSpec => []UnlocksCatchUp
<1>1. EffectInit => UnlockInv
  <2> SUFFICES ASSUME EffectInit PROVE UnlockInv
    OBVIOUS
  <2>1. UnlockTypes
    BY EffectsAssumption DEF EffectInit, UnlockTypes
  <2>2. Untried /\ WonOnce /\ AnnouncedByWinner /\ OwedIsComing /\ TitlesAreComing
    BY DEF EffectInit, Untried, WonOnce, AnnouncedByWinner, OwedIsComing, TitlesAreComing, Unlocking,
       AllEffects
  <2> QED
    BY <2>1, <2>2 DEF UnlockInv
<1>2. UnlockInv => UnlocksCatchUp
  <2> SUFFICES ASSUME UnlockInv PROVE UnlocksCatchUp
    OBVIOUS
  <2>1. ASSUME faults = 0, Resting("achievement")
        PROVE  owed \subseteq unlocked /\ unlocked \cap WithTitle \subseteq titles
    BY <2>1 DEF UnlockInv, OwedIsComing, TitlesAreComing, Brings, Unlocking, Resting
  <2>2. ASSUME NEW c \in Codes
        PROVE  announced[c] <= 1 /\ (announced[c] = 1 => c \in unlocked)
    BY DEF UnlockInv, AnnouncedByWinner, WonOnce, UnlockTypes
  <2> QED
    BY <2>1, <2>2 DEF UnlocksCatchUp
<1> QED
  BY <1>1, <1>2, UnlockInvStep, PTL DEF EffectSpec

-----------------------------------------------------------------------------
(* Memories.                                                               *)

Said(rows) == {r.content : r \in rows}

\* No row is a wording of another, and none is obsolete beside another.
Apart(rows) == \A r, s \in rows : r # s => ~Superseded(r.content, s.content)

\* A plan leaves rows that stand apart from what it inserts, and what it
\* inserts stands apart.
SoundPlan(rows, p) ==
  /\ \A c \in p.ins : c # Obsolete /\ \A r \in rows \ p.del : ~Superseded(r.content, c)
  /\ \A c, d \in p.ins : c # d => ~Variant(c, d)

\* The content is remembered once the plan is carried out.
Brought(rows, p, c) == c \in Said(rows \ p.del) \cup p.ins

LEMMA VariantSymmetric == ASSUME NEW a, NEW b PROVE Variant(a, b) <=> Variant(b, a)
  BY DEF Variant

\* A suggestion that counts keeps the plan sound, and is remembered by it.
LEMMA ConsiderSound ==
  ASSUME NEW rows, NEW p, NEW c, Apart(rows), SoundPlan(rows, p), c # Obsolete,
         NEW q, q = Consider(rows, p, c)
  PROVE  SoundPlan(rows, q) /\ Brought(rows, q, c)
<1>1. CASE c \in p.ins
  BY <1>1 DEF Consider, Brought
<1>2. CASE c \notin p.ins
  <2> DEFINE peers == rows \ p.del
             same == {r \in peers : r.content = c}
             kept == IF same = {} THEN {} ELSE {CHOOSE r \in same : TRUE}
  <2>1. /\ q.del = p.del \cup {r \in peers \ kept : Superseded(r.content, c)}
        /\ q.ins = StillPlanned(p.ins, c) \cup (IF same = {} THEN {c} ELSE {})
    BY <1>2 DEF Consider
  <2>2. rows \ q.del = {r \in peers : r \in kept \/ ~Superseded(r.content, c)}
    BY <2>1
  <2>3. kept \subseteq same /\ (same # {} => kept # {})
    OBVIOUS
  <2> HIDE DEF kept
  <2>4. ASSUME NEW d \in q.ins
        PROVE  d # Obsolete /\ \A r \in rows \ q.del : ~Superseded(r.content, d)
    <3>1. CASE d \in p.ins
      <4>1. rows \ q.del \subseteq peers
        BY <2>2
      <4> QED
        BY <3>1, <4>1 DEF SoundPlan
    <3>2. CASE d = c /\ same = {}
      BY <2>2, <2>3, <3>2
    <3> QED
      BY <2>1, <2>4, <3>1, <3>2 DEF StillPlanned
  <2>5. ASSUME NEW d \in q.ins, NEW e \in q.ins, d # e PROVE ~Variant(d, e)
    <3>1. CASE d \in p.ins /\ e \in p.ins
      BY <2>5, <3>1 DEF SoundPlan
    <3>2. CASE d \notin p.ins
      BY <2>1, <2>5, <3>2, VariantSymmetric DEF StillPlanned
    <3>3. CASE e \notin p.ins
      BY <2>1, <2>5, <3>3 DEF StillPlanned
    <3> QED
      BY <3>1, <3>2, <3>3
  <2>6. Brought(rows, q, c)
    <3>1. CASE same = {}
      BY <2>1, <3>1 DEF Brought
    <3>2. CASE same # {}
      <4>1. PICK r \in kept : r \in rows \ q.del /\ r.content = c
        BY <2>2, <2>3, <3>2
      <4> QED
        BY <4>1 DEF Brought, Said
    <3> QED
      BY <3>1, <3>2
  <2> QED
    BY <2>4, <2>5, <2>6 DEF SoundPlan
<1> QED
  BY <1>1, <1>2

\* Of some numbers one is the least.
LEMMA LeastNumber ==
  ASSUME NEW S \in SUBSET Nat, S # {}
  PROVE  \E n \in S : \A k \in S : n <= k
<1>1. PICK n \in S : \A k \in S : <<k, n>> \notin OpToRel(<, Nat)
  BY NatLessThanWellFounded, WFMin
<1>2. \A k \in S : ~(k < n)
  BY <1>1 DEF OpToRel
<1> QED
  BY <1>2

\* What holds at 0 and goes on holds up to n.
LEMMA UpTo ==
  ASSUME NEW n \in Nat, NEW Good \in SUBSET Nat, 0 \in Good,
         \A i \in 1..n : i - 1 \in Good => i \in Good
  PROVE  0..n \subseteq Good
<1> DEFINE Bad == (0..n) \ Good
<1> SUFFICES ASSUME Bad # {} PROVE FALSE
  OBVIOUS
<1>1. PICK m \in Bad : \A k \in Bad : m <= k
  <2>1. Bad \in SUBSET Nat
    OBVIOUS
  <2> HIDE DEF Bad
  <2> QED
    BY <2>1, LeastNumber
<1>2. m \in 1..n /\ m \notin Good
  BY <1>1
<1>3. m - 1 \in 0..n /\ ~(m <= m - 1)
  BY <1>2
<1>4. m - 1 \in Good
  BY <1>1, <1>3
<1> QED
  BY <1>2, <1>4

\* The plans of the loop, one after each suggestion.
IsLoop(f, rows, cs, n) ==
  f = [i \in 0..n |-> IF i = 0 THEN NoPlan ELSE Consider(rows, f[i - 1], cs[i])]

LEMMA LoopGoesOn ==
  ASSUME NEW rows, NEW cs, NEW i \in Nat \ {0}, NEW f, IsLoop(f, rows, cs, i - 1)
  PROVE  \E g : IsLoop(g, rows, cs, i)
<1> DEFINE g == [k \in 0..i |-> IF k = i THEN Consider(rows, f[i - 1], cs[i]) ELSE f[k]]
<1>1. ASSUME NEW k \in 0..i
      PROVE  g[k] = IF k = 0 THEN NoPlan ELSE Consider(rows, g[k - 1], cs[k])
  <2>1. CASE k = 0
    <3>1. 0 \in 0..(i - 1) /\ 0 \in 0..i /\ 0 # i
      OBVIOUS
    <3>2. f[0] = NoPlan
      BY <3>1 DEF IsLoop
    <3> QED
      BY <2>1, <3>1, <3>2
  <2>2. CASE k = i
    <3>1. k - 1 \in 0..i /\ k - 1 # i
      BY <2>2
    <3>2. g[k - 1] = f[k - 1]
      BY <3>1
    <3>3. g[k] = Consider(rows, f[i - 1], cs[i])
      BY <2>2
    <3>4. k # 0
      BY <2>2
    <3> HIDE DEF g
    <3> QED
      BY <2>2, <3>2, <3>3, <3>4
  <2>3. CASE k # 0 /\ k # i
    <3>1. k \in 0..(i - 1) /\ k - 1 \in 0..i /\ k - 1 # i
      BY <2>3
    <3>2. f[k] = Consider(rows, f[k - 1], cs[k])
      BY <2>3, <3>1 DEF IsLoop
    <3>3. g[k] = f[k] /\ g[k - 1] = f[k - 1]
      BY <2>3, <3>1
    <3> HIDE DEF g
    <3> QED
      BY <2>3, <3>2, <3>3
  <2> QED
    BY <2>1, <2>2, <2>3
<1>2. DOMAIN g = 0..i /\ g = [k \in DOMAIN g |-> g[k]]
  OBVIOUS
<1> HIDE DEF g
<1>3. g = [k \in 0..i |-> IF k = 0 THEN NoPlan ELSE Consider(rows, g[k - 1], cs[k])]
  BY <1>1, <1>2
<1> QED
  BY <1>3 DEF IsLoop

LEMMA LoopExists ==
  ASSUME NEW rows, NEW cs, NEW n \in Nat
  PROVE  \E f : IsLoop(f, rows, cs, n)
<1> DEFINE Good == {m \in 0..n : \E f : IsLoop(f, rows, cs, m)}
<1>1. 0 \in Good
  <2> DEFINE f == [i \in 0..0 |-> NoPlan]
  <2>1. IsLoop(f, rows, cs, 0)
    BY DEF IsLoop
  <2> QED
    BY <2>1
<1>2. ASSUME NEW i \in 1..n, i - 1 \in Good PROVE i \in Good
  <2>1. PICK f : IsLoop(f, rows, cs, i - 1)
    BY <1>2
  <2>2. i \in Nat \ {0}
    OBVIOUS
  <2> QED
    BY <2>1, <2>2, LoopGoesOn
<1>3. 0..n \subseteq Good
  <2>1. Good \in SUBSET Nat
    OBVIOUS
  <2> HIDE DEF Good
  <2> QED
    BY <1>1, <1>2, <2>1, UpTo
<1> QED
  BY <1>3

\* What the loop plans is the last of its plans.
LEMMA PlannedIs ==
  ASSUME NEW rows, NEW cs, Len(cs) \in Nat
  PROVE  \E f : IsLoop(f, rows, cs, Len(cs)) /\ Planned(rows, cs) = f[Len(cs)]
<1> DEFINE f == CHOOSE g : g = [i \in 0..Len(cs) |->
                                  IF i = 0 THEN NoPlan ELSE Consider(rows, g[i - 1], cs[i])]
<1>1. Planned(rows, cs) = f[Len(cs)]
  BY DEF Planned
<1>2. IsLoop(f, rows, cs, Len(cs))
  <2>1. \E g : IsLoop(g, rows, cs, Len(cs))
    BY LoopExists
  <2> QED
    BY <2>1 DEF IsLoop
<1> HIDE DEF f
<1> QED
  BY <1>1, <1>2

\* Up to i the plans are sound, and bring the last suggestion that counts.
LEMMA LoopSound ==
  ASSUME NEW rows, NEW cs, NEW n \in Nat, NEW f, Apart(rows), IsLoop(f, rows, cs, n)
  PROVE  /\ SoundPlan(rows, f[n])
         /\ (\A k \in 1..n : cs[k] = Obsolete) => f[n] = NoPlan
         /\ \A j \in 1..n : cs[j] # Obsolete /\ (\A k \in 1..n : j < k => cs[k] = Obsolete)
                              => Brought(rows, f[n], cs[j])
<1> DEFINE Quiet(i) == (\A k \in 1..i : cs[k] = Obsolete) => f[i] = NoPlan
           Newest(i) == \A j \in 1..i : cs[j] # Obsolete /\ (\A k \in 1..i : j < k => cs[k] = Obsolete)
                                          => Brought(rows, f[i], cs[j])
           Good == {i \in 0..n : SoundPlan(rows, f[i]) /\ Quiet(i) /\ Newest(i)}
<1>1. 0 \in Good
  <2>1. SoundPlan(rows, f[0])
    BY DEF SoundPlan, NoPlan, IsLoop
  <2>2. f[0] = NoPlan
    BY DEF IsLoop
  <2> QED
    BY <2>1, <2>2
<1>2. ASSUME NEW i \in 1..n, i - 1 \in Good PROVE i \in Good
  <2>1. SoundPlan(rows, f[i - 1]) /\ Quiet(i - 1) /\ Newest(i - 1)
    BY <1>2
  <2>2. f[i] = Consider(rows, f[i - 1], cs[i])
    BY DEF IsLoop
  <2>3. CASE cs[i] = Obsolete
    <3>1. f[i] = f[i - 1]
      BY <2>2, <2>3 DEF Consider
    <3>2. Quiet(i)
      BY <2>1, <3>1
    <3>3. Newest(i)
      <4> SUFFICES ASSUME NEW j \in 1..i, cs[j] # Obsolete, \A k \in 1..i : j < k => cs[k] = Obsolete
                   PROVE  Brought(rows, f[i], cs[j])
        OBVIOUS
      <4>1. j \in 1..(i - 1)
        BY <2>3
      <4> QED
        BY <2>1, <3>1, <4>1
    <3> QED
      BY <2>1, <3>1, <3>2, <3>3
  <2>4. CASE cs[i] # Obsolete
    <3>1. SoundPlan(rows, f[i]) /\ Brought(rows, f[i], cs[i])
      <4> HIDE DEF Good, Quiet, Newest
      <4> QED
        BY <2>1, <2>2, <2>4, ConsiderSound
    <3>2. Quiet(i)
      BY <2>4
    <3>3. Newest(i)
      <4> SUFFICES ASSUME NEW j \in 1..i, cs[j] # Obsolete, \A k \in 1..i : j < k => cs[k] = Obsolete
                   PROVE  Brought(rows, f[i], cs[j])
        OBVIOUS
      <4>1. j = i
        BY <2>4
      <4> QED
        BY <3>1, <4>1
    <3> QED
      BY <3>1, <3>2, <3>3
  <2> QED
    BY <2>3, <2>4
<1>3. 0..n \subseteq Good
  <2>1. Good \in SUBSET Nat
    OBVIOUS
  <2> HIDE DEF Good
  <2> QED
    BY <1>1, <1>2, <2>1, UpTo
<1>4. n \in Good
  <2> HIDE DEF Good
  <2> QED
    BY <1>3
<1> QED
  BY <1>4

\* The last suggestion that counts is one, and none after it counts.
LEMMA LastIsTold ==
  ASSUME NEW cs, Len(cs) \in Nat, Told(cs) # {}
  PROVE  \E j \in Told(cs) : LastTold(cs) = cs[j] /\ \A k \in 1..Len(cs) : j < k => cs[k] = Obsolete
<1> DEFINE Behind == {m \in Nat : \E i \in Told(cs) : m = Len(cs) - i}
<1>1. Behind # {}
  <2>1. PICK i \in Told(cs) : TRUE
    OBVIOUS
  <2>2. i \in 1..Len(cs)
    BY DEF Told
  <2>3. Len(cs) - i \in Nat
    BY <2>2
  <2> QED
    BY <2>3
<1>2. PICK m \in Behind : \A k \in Behind : m <= k
  <2>1. Behind \in SUBSET Nat
    OBVIOUS
  <2> HIDE DEF Behind
  <2> QED
    BY <1>1, <2>1, LeastNumber
<1>3. PICK i \in Told(cs) : m = Len(cs) - i
  BY <1>2
<1>4. ASSUME NEW k \in Told(cs) PROVE k <= i
  <2>1. k \in 1..Len(cs) /\ i \in 1..Len(cs)
    BY DEF Told
  <2>2. Len(cs) - k \in Behind
    BY <2>1
  <2>3. m <= Len(cs) - k
    BY <1>2, <2>2
  <2> HIDE DEF Behind
  <2> QED
    BY <1>3, <2>1, <2>3
<1> DEFINE j == CHOOSE i_1 \in Told(cs) : \A k \in Told(cs) : k <= i_1
<1>5. j \in Told(cs) /\ \A k \in Told(cs) : k <= j
  BY <1>4
<1>6. LastTold(cs) = cs[j]
  BY DEF LastTold
<1> HIDE DEF j
<1> QED
  BY <1>5, <1>6 DEF Told

\* What a turn plans is sound; it brings its last suggestion, or does nothing.
LEMMA PlannedSound ==
  ASSUME NEW rows, NEW cs, Len(cs) \in Nat, Apart(rows)
  PROVE  \E p : /\ p = Planned(rows, cs) /\ SoundPlan(rows, p)
                /\ Told(cs) = {} => p = NoPlan
                /\ Told(cs) # {} => Brought(rows, p, LastTold(cs))
<1>1. PICK f : IsLoop(f, rows, cs, Len(cs)) /\ Planned(rows, cs) = f[Len(cs)]
  BY PlannedIs
<1>2. PICK n, p : n \in Nat /\ n = Len(cs) /\ p = f[n]
  OBVIOUS
<1>3. /\ SoundPlan(rows, p)
      /\ (\A k \in 1..n : cs[k] = Obsolete) => p = NoPlan
      /\ \A j \in 1..n : cs[j] # Obsolete /\ (\A k \in 1..n : j < k => cs[k] = Obsolete)
                           => Brought(rows, p, cs[j])
  BY <1>1, <1>2, LoopSound
<1>4. Told(cs) # {} => Brought(rows, p, LastTold(cs))
  <2> SUFFICES ASSUME Told(cs) # {} PROVE Brought(rows, p, LastTold(cs))
    OBVIOUS
  <2>1. PICK j \in Told(cs) : LastTold(cs) = cs[j] /\ \A k \in 1..Len(cs) : j < k => cs[k] = Obsolete
    BY LastIsTold
  <2> QED
    BY <1>2, <1>3, <2>1 DEF Told
<1> QED
  BY <1>1, <1>2, <1>3, <1>4 DEF Told

-----------------------------------------------------------------------------
(* The rewrites of the memories.                                           *)

\* What the turn does with the memories.
Remembering(t) == step[t]["memory"]
Idle(x) == x \notin {"delete", "insert"}

MemoryTypes ==
  /\ plan = [t \in Turns |-> plan[t]]
  /\ candidates \in [Turns -> Lists]

\* Rewrites neither overlap nor fail.
Undisturbed == ~met /\ faults = 0

\* The rows once the turn has carried out the plan.
After(rows, p, t) == (rows \ p.del) \cup {[by |-> t, content |-> c] : c \in p.ins}
Becomes(t) == After(memories, plan[t], t)
Shows(rows) == newest # {} => newest \in Said(rows)

\* A turn that has no reply does nothing.
Asleep == \A t \in Turns : t > answered => Remembering(t) = "idle"

\* One turn at a time rewrites.
OneRewrites == Undisturbed => \A t, u \in Turns : Rewriting(t) /\ Rewriting(u) => t = u

\* The memories stand apart, and show the last suggestion unless one rewrites them.
Settled ==
  Undisturbed => Apart(memories) /\ (Shows(memories) \/ \E t \in Turns : Rewriting(t))

\* What a turn has planned is still right when it gets to it.
Underway ==
  Undisturbed => \A t \in Turns : Rewriting(t) =>
    /\ Apart(Becomes(t)) /\ Shows(Becomes(t))
    /\ Remembering(t) = "insert" => memories \cap plan[t].del = {}

\* The inductive invariant of the memories.
MemoryInv == UnlockTypes /\ MemoryTypes /\ Asleep /\ OneRewrites /\ Settled /\ Underway

\* An effect that moves on moves alone.
LEMMA MemoryMoves ==
  ASSUME UnlockTypes, NEW t \in Turns, NEW e \in AllEffects, NEW x, Advance(t, e, x)
  PROVE  \A u \in Turns : Remembering(u)' = IF u = t /\ e = "memory" THEN x ELSE Remembering(u)
<1>1. step \in [Turns -> [AllEffects -> UnlockSteps]] /\ "memory" \in AllEffects
  BY DEF UnlockTypes, UnlockSteps, AllEffects
<1>2. step' = [step EXCEPT ![t] = [step[t] EXCEPT ![e] = x]]
  BY DEF Advance
<1>3. \A u \in Turns : step'[u] = IF u = t THEN [step[t] EXCEPT ![e] = x] ELSE step[u]
  BY <1>1, <1>2
<1>4. [step[t] EXCEPT ![e] = x]["memory"] = IF e = "memory" THEN x ELSE step[t]["memory"]
  BY <1>1
<1> QED
  BY <1>3, <1>4 DEF Remembering

LEMMA MemoryTypesStep ==
  ASSUME UnlockTypes, MemoryTypes, [EffectNext]_effectVars PROVE MemoryTypes'
<1> USE DEF counts, unlocking, remembering
<1>1. CASE UNCHANGED <<plan, candidates>>
  BY <1>1 DEF MemoryTypes
<1>2. CASE Reply
  <2>1. UNCHANGED plan
    BY <1>2 DEF Reply
  <2>2. \/ UNCHANGED candidates
        \/ \E cs \in Lists : candidates' = [candidates EXCEPT ![answered + 1] = cs]
    BY <1>2 DEF Reply
  <2> QED
    BY <2>1, <2>2 DEF MemoryTypes
<1>3. ASSUME NEW t \in Turns, Remember(t) PROVE MemoryTypes'
  <2>1. UNCHANGED candidates
    BY <1>3 DEF Remember
  <2>2. PICK p : p = Planned(memories, candidates[t])
    OBVIOUS
  <2>3. plan' = [plan EXCEPT ![t] = p]
    BY <1>3, <2>2 DEF Remember
  <2> QED
    BY <2>1, <2>3 DEF MemoryTypes
<1>4. [EffectNext]_effectVars =>
        Reply \/ UNCHANGED <<plan, candidates>> \/ \E t \in Turns : Remember(t)
  BY DEF EffectNext, Effect, Claim, Complete, StatementFails, MarkFailed, Evaluate, Seed, Compare, Unlock,
     Entitle, Forget, Insert, Crash, effectVars
<1> QED
  BY <1>1, <1>2, <1>3, <1>4

\* Steps that are not about the memories keep them as they are.
LEMMA MemoriesUntouched ==
  ASSUME OneRewrites, Settled, Underway,
         \/ faults' # 0
         \/ /\ UNCHANGED <<plan, memories, met, newest, faults>>
            /\ \A u \in Turns : \/ Remembering(u)' = Remembering(u)
                                \/ Idle(Remembering(u)) /\ Idle(Remembering(u)')
  PROVE  OneRewrites' /\ Settled' /\ Underway'
<1>1. CASE faults' # 0
  BY <1>1 DEF OneRewrites, Settled, Underway, Undisturbed
<1>2. CASE /\ UNCHANGED <<plan, memories, met, newest, faults>>
           /\ \A u \in Turns : \/ Remembering(u)' = Remembering(u)
                               \/ Idle(Remembering(u)) /\ Idle(Remembering(u)')
  <2>1. Undisturbed' <=> Undisturbed
    BY <1>2 DEF Undisturbed
  <2>2. \A u \in Turns : /\ Rewriting(u)' <=> Rewriting(u)
                         /\ Rewriting(u) => Remembering(u)' = Remembering(u)
    BY <1>2 DEF Rewriting, Remembering, Idle
  <2>3. OneRewrites'
    BY <2>1, <2>2 DEF OneRewrites
  <2>4. /\ Apart(memories)' <=> Apart(memories)
        /\ Shows(memories)' <=> Shows(memories)
    BY <1>2 DEF Apart, Shows, Said
  <2>5. Settled'
    BY <2>1, <2>2, <2>4 DEF Settled
  <2>6. ASSUME NEW u \in Turns
        PROVE  /\ Apart(Becomes(u))' <=> Apart(Becomes(u))
               /\ Shows(Becomes(u))' <=> Shows(Becomes(u))
    BY <1>2 DEF Apart, Shows, Said, Becomes
  <2>7. Underway'
    BY <1>2, <2>1, <2>2, <2>6 DEF Underway
  <2> QED
    BY <2>3, <2>5, <2>7
<1> QED
  BY <1>1, <1>2

\* A sound plan carried out leaves rows that stand apart and show what it brought.
LEMMA SoundPlanWorks ==
  ASSUME NEW rows, NEW p, NEW t, Apart(rows), SoundPlan(rows, p)
  PROVE  /\ Apart(After(rows, p, t))
         /\ \A c : Brought(rows, p, c) => c \in Said(After(rows, p, t))
<1>0. PICK new : new = After(rows, p, t)
  OBVIOUS
<1>1. ASSUME NEW r \in new
      PROVE  r \in rows \ p.del \/ (r.content \in p.ins /\ r = [by |-> t, content |-> r.content])
  <2>1. r \in rows \ p.del \/ \E c \in p.ins : r = [by |-> t, content |-> c]
    BY <1>0 DEF After
  <2>2. CASE r \in rows \ p.del
    BY <2>2
  <2>3. CASE \E c \in p.ins : r = [by |-> t, content |-> c]
    <3>1. PICK c \in p.ins : r = [by |-> t, content |-> c]
      BY <2>3
    <3>2. r.content = c
      BY <3>1
    <3> QED
      BY <3>1, <3>2
  <2> QED
    BY <2>1, <2>2, <2>3
<1>2. ASSUME NEW r \in new, NEW s \in new, r # s PROVE ~Superseded(r.content, s.content)
  <2>1. CASE r \in rows \ p.del /\ s \in rows \ p.del
    BY <1>2, <2>1 DEF Apart
  <2>2. CASE r \in rows \ p.del /\ s \notin rows \ p.del
    BY <1>1, <2>2 DEF SoundPlan
  <2>3. CASE r \notin rows \ p.del /\ s \in rows \ p.del
    <3>1. r.content \in p.ins
      BY <1>1, <2>3
    <3>2. r.content # Obsolete /\ ~Superseded(s.content, r.content)
      BY <2>3, <3>1 DEF SoundPlan
    <3> QED
      BY <3>2, VariantSymmetric DEF Superseded
  <2>4. CASE r \notin rows \ p.del /\ s \notin rows \ p.del
    <3>1. r.content \in p.ins /\ s.content \in p.ins /\ r.content # s.content
      BY <1>1, <1>2, <2>4
    <3> QED
      BY <3>1 DEF SoundPlan, Superseded
  <2> QED
    BY <2>1, <2>2, <2>3, <2>4
<1>3. ASSUME NEW c, Brought(rows, p, c) PROVE c \in Said(new)
  <2>1. CASE c \in Said(rows \ p.del)
    BY <1>0, <2>1 DEF Said, After
  <2>2. CASE c \in p.ins
    <3>1. [by |-> t, content |-> c] \in new /\ [by |-> t, content |-> c].content = c
      BY <1>0, <2>2 DEF After
    <3> QED
      BY <3>1 DEF Said
  <2> QED
    BY <1>3, <2>1, <2>2 DEF Brought
<1> QED
  BY <1>0, <1>2, <1>3 DEF Apart

LEMMA RememberKeeps ==
  ASSUME MemoryInv, NEW t \in Turns, Remember(t)
  PROVE  Asleep' /\ OneRewrites' /\ Settled' /\ Underway'
<1> USE DEF counts, unlocking
<1>1. UnlockTypes /\ MemoryTypes /\ Remembering(t) = "read" /\ ~Rewriting(t)
  BY DEF MemoryInv, Remember, At, Remembering, Rewriting
<1>2. \A u \in Turns : Remembering(u)' = IF u = t THEN "delete" ELSE Remembering(u)
  <2>1. Advance(t, "memory", "delete") /\ "memory" \in AllEffects
    BY DEF Remember, AllEffects
  <2> QED
    BY <1>1, <2>1, MemoryMoves
<1>3. PICK cs : cs = candidates[t] /\ Len(cs) \in Nat
  <2>1. candidates[t] \in Lists
    BY <1>1 DEF MemoryTypes
  <2>2. PICK n \in 0..MaxSuggestions : candidates[t] \in [1..n -> Contents]
    BY <2>1 DEF Lists
  <2>3. candidates[t] \in Seq(Contents)
    BY <2>2, EffectsAssumption
  <2> QED
    BY <2>3
<1>4. Asleep'
  BY <1>1, <1>2 DEF MemoryInv, Asleep, Remember
<1>5. \A u \in Turns : Rewriting(u)' <=> u = t \/ Rewriting(u)
  BY <1>2 DEF Rewriting, Remembering
<1> SUFFICES ASSUME Undisturbed' PROVE OneRewrites' /\ Settled' /\ Underway'
  BY <1>4 DEF OneRewrites, Settled, Underway
<1>6. Undisturbed /\ \A u \in Turns : ~Rewriting(u)
  BY <1>1 DEF Undisturbed, Remember
<1>7. OneRewrites'
  BY <1>5, <1>6 DEF OneRewrites
<1>8. UNCHANGED memories /\ Apart(memories) /\ Shows(memories)
  BY <1>6 DEF MemoryInv, Settled, Remember
<1>9. Settled'
  <2>1. Apart(memories)'
    BY <1>8 DEF Apart
  <2> QED
    BY <1>5, <2>1 DEF Settled
<1>10. Apart(Becomes(t))' /\ Shows(Becomes(t))'
  <2>1. PICK p : /\ p = Planned(memories, cs) /\ SoundPlan(memories, p)
                 /\ Told(cs) = {} => p = NoPlan
                 /\ Told(cs) # {} => Brought(memories, p, LastTold(cs))
    BY <1>3, <1>8, PlannedSound
  <2>2. plan'[t] = p
    BY <1>1, <1>3, <2>1 DEF Remember, MemoryTypes
  <2>3. PICK new : new = After(memories, p, t)
    OBVIOUS
  <2>4. Apart(new) /\ \A c : Brought(memories, p, c) => c \in Said(new)
    <3>1. Apart(memories) /\ SoundPlan(memories, p)
      BY <1>8, <2>1
    <3>2. /\ Apart(After(memories, p, t))
          /\ \A c : Brought(memories, p, c) => c \in Said(After(memories, p, t))
      BY <3>1, SoundPlanWorks
    <3> QED
      BY <2>3, <3>2
  <2>5. Becomes(t)' = new
    BY <1>8, <2>2, <2>3 DEF Becomes
  <2>6. newest' # {} => newest' \in Said(new)
    <3>1. CASE Told(cs) = {}
      <4>1. new = memories /\ newest' = newest
        BY <1>3, <2>1, <2>3, <3>1 DEF NoPlan, After, Remember
      <4> QED
        BY <1>8, <4>1 DEF Shows
    <3>2. CASE Told(cs) # {}
      BY <1>3, <2>1, <2>4, <3>2 DEF Remember
    <3> QED
      BY <3>1, <3>2
  <2> QED
    BY <2>4, <2>5, <2>6 DEF Apart, Shows
<1>11. Underway'
  <2> SUFFICES ASSUME NEW u \in Turns, Rewriting(u)'
               PROVE  /\ Apart(Becomes(u))' /\ Shows(Becomes(u))'
                      /\ Remembering(u)' = "insert" => (memories \cap plan[u].del)' = {}
    BY DEF Underway
  <2>1. u = t
    BY <1>5, <1>6
  <2> QED
    BY <1>2, <1>10, <2>1
<1> QED
  BY <1>7, <1>9, <1>11

LEMMA ForgetKeeps ==
  ASSUME MemoryInv, NEW t \in Turns, Forget(t)
  PROVE  Asleep' /\ OneRewrites' /\ Settled' /\ Underway'
<1> USE DEF counts, unlocking
<1>1. /\ UnlockTypes /\ Remembering(t) = "delete" /\ Rewriting(t)
      /\ memories' = memories \ plan[t].del /\ UNCHANGED <<plan, met, newest, faults, answered>>
  BY DEF MemoryInv, Forget, At, Remembering, Rewriting
<1>2. \A u \in Turns : Remembering(u)' = IF u = t THEN "insert" ELSE Remembering(u)
  <2>1. Advance(t, "memory", "insert") /\ "memory" \in AllEffects
    BY DEF Forget, AllEffects
  <2> QED
    BY <1>1, <2>1, MemoryMoves
<1>3. Asleep'
  BY <1>1, <1>2 DEF MemoryInv, Asleep
<1>4. \A u \in Turns : Rewriting(u)' <=> Rewriting(u)
  BY <1>1, <1>2 DEF Rewriting, Remembering
<1> SUFFICES ASSUME Undisturbed' PROVE OneRewrites' /\ Settled' /\ Underway'
  BY <1>3 DEF OneRewrites, Settled, Underway
<1>5. Undisturbed
  BY <1>1 DEF Undisturbed
<1>6. OneRewrites'
  BY <1>4, <1>5 DEF MemoryInv, OneRewrites
<1>7. Apart(memories)'
  BY <1>1, <1>5 DEF MemoryInv, Settled, Apart
<1>8. Settled'
  BY <1>1, <1>4, <1>7 DEF Settled
<1>9. Underway'
  <2> SUFFICES ASSUME NEW u \in Turns, Rewriting(u)'
               PROVE  /\ Apart(Becomes(u))' /\ Shows(Becomes(u))'
                      /\ Remembering(u)' = "insert" => (memories \cap plan[u].del)' = {}
    BY DEF Underway
  <2>1. u = t
    BY <1>1, <1>4, <1>5 DEF MemoryInv, OneRewrites
  <2>2. Apart(Becomes(t)) /\ Shows(Becomes(t))
    BY <1>1, <1>5 DEF MemoryInv, Underway
  <2>3. Becomes(t)' = Becomes(t)
    BY <1>1 DEF Becomes, After
  <2>4. (memories \cap plan[t].del)' = {}
    BY <1>1
  <2> QED
    BY <1>1, <2>1, <2>2, <2>3, <2>4 DEF Apart, Shows
<1> QED
  BY <1>6, <1>8, <1>9

LEMMA InsertKeeps ==
  ASSUME MemoryInv, NEW t \in Turns, Insert(t)
  PROVE  Asleep' /\ OneRewrites' /\ Settled' /\ Underway'
<1> USE DEF counts, unlocking
<1>1. /\ UnlockTypes /\ Remembering(t) = "insert" /\ Rewriting(t)
      /\ memories' = memories \cup {[by |-> t, content |-> c] : c \in plan[t].ins}
      /\ UNCHANGED <<plan, met, newest, faults, answered>>
  BY DEF MemoryInv, Insert, At, Remembering, Rewriting
<1>2. \A u \in Turns : Remembering(u)' = IF u = t THEN "complete" ELSE Remembering(u)
  <2>1. Advance(t, "memory", "complete") /\ "memory" \in AllEffects
    BY DEF Insert, AllEffects
  <2> QED
    BY <1>1, <2>1, MemoryMoves
<1>3. Asleep'
  BY <1>1, <1>2 DEF MemoryInv, Asleep
<1>4. \A u \in Turns : Rewriting(u)' <=> u # t /\ Rewriting(u)
  BY <1>2 DEF Rewriting, Remembering
<1> SUFFICES ASSUME Undisturbed' PROVE OneRewrites' /\ Settled' /\ Underway'
  BY <1>3 DEF OneRewrites, Settled, Underway
<1>5. Undisturbed
  BY <1>1 DEF Undisturbed
<1>6. \A u \in Turns : ~Rewriting(u)'
  BY <1>1, <1>4, <1>5 DEF MemoryInv, OneRewrites
<1>7. memories \cap plan[t].del = {} /\ Apart(Becomes(t)) /\ Shows(Becomes(t))
  BY <1>1, <1>5 DEF MemoryInv, Underway
<1>8. memories' = Becomes(t)
  BY <1>1, <1>7 DEF Becomes, After
<1>9. Apart(memories)' /\ Shows(memories)'
  BY <1>1, <1>7, <1>8 DEF Apart, Shows
<1> QED
  BY <1>6, <1>9 DEF OneRewrites, Settled, Underway

\* An effect that does not rewrite changes nothing for those that do.
LEMMA OthersKeepMemories ==
  ASSUME MemoryInv, NEW t \in Turns, NEW e \in AllEffects, NEW x, Advance(t, e, x),
         Remembering(t) = "idle" => e # "memory", UNCHANGED answered,
         \/ faults' # 0
         \/ /\ UNCHANGED <<plan, memories, met, newest, faults>>
            /\ e = "memory" => Idle(Remembering(t)) /\ Idle(x)
  PROVE  Asleep' /\ OneRewrites' /\ Settled' /\ Underway'
<1>1. \A u \in Turns : Remembering(u)' = IF u = t /\ e = "memory" THEN x ELSE Remembering(u)
  BY MemoryMoves DEF MemoryInv
<1>2. Asleep'
  BY <1>1 DEF MemoryInv, Asleep
<1>3. \/ faults' # 0
      \/ /\ UNCHANGED <<plan, memories, met, newest, faults>>
         /\ \A u \in Turns : \/ Remembering(u)' = Remembering(u)
                             \/ Idle(Remembering(u)) /\ Idle(Remembering(u)')
  BY <1>1
<1> QED
  BY <1>2, <1>3, MemoriesUntouched DEF MemoryInv

LEMMA ReplyKeepsMemories ==
  ASSUME MemoryInv, Reply PROVE Asleep' /\ OneRewrites' /\ Settled' /\ Underway'
<1>1. PICK k : k = answered + 1
  OBVIOUS
<1>2. k \in Turns /\ answered' = k
  BY <1>1, EffectsAssumption DEF Reply, MemoryInv, UnlockTypes, Turns
<1>3. UNCHANGED <<plan, memories, met, newest, faults>>
  BY DEF Reply, remembering
<1>4. /\ \A u \in Turns \ {k} : Remembering(u)' = Remembering(u)
      /\ Remembering(k)' \in {"claim", "idle", Remembering(k)}
  <2> DEFINE woken == [e \in AllEffects |-> IF e \in Effects THEN "claim" ELSE "idle"]
  <2>1. UNCHANGED step \/ step' = [step EXCEPT ![k] = woken]
    BY <1>1 DEF Reply
  <2>2. woken["memory"] \in {"claim", "idle"}
    BY DEF AllEffects
  <2> HIDE DEF woken
  <2>3. step' = [step EXCEPT ![k] = woken] =>
          step'[k] = woken /\ \A u \in Turns \ {k} : step'[u] = step[u]
    BY <1>2 DEF MemoryInv, UnlockTypes
  <2> QED
    BY <2>1, <2>2, <2>3 DEF Remembering
<1>5. Remembering(k) = "idle"
  <2>1. k > answered
    BY <1>1, <1>2 DEF MemoryInv, UnlockTypes
  <2> QED
    BY <1>2, <2>1 DEF MemoryInv, Asleep
<1>6. Asleep'
  <2>1. answered \in Nat
    BY DEF MemoryInv, UnlockTypes
  <2>2. \A u \in Turns : u > k => u > answered /\ u # k
    BY <1>1, <2>1 DEF Turns
  <2> QED
    BY <1>2, <1>4, <2>2 DEF MemoryInv, Asleep
<1>7. \A u \in Turns : \/ Remembering(u)' = Remembering(u)
                       \/ Idle(Remembering(u)) /\ Idle(Remembering(u)')
  BY <1>4, <1>5 DEF Idle
<1> QED
  BY <1>3, <1>6, <1>7, MemoriesUntouched DEF MemoryInv

LEMMA MemoryInvStep == MemoryInv /\ [EffectNext]_effectVars => MemoryInv'
<1> SUFFICES ASSUME MemoryInv, [EffectNext]_effectVars PROVE MemoryInv'
  OBVIOUS
<1> USE DEF counts, unlocking, remembering
<1> DEFINE Rest == Asleep' /\ OneRewrites' /\ Settled' /\ Underway'
<1>0. UnlockTypes' /\ MemoryTypes'
  BY UnlockTypesStep, MemoryTypesStep DEF MemoryInv
<1>1. ASSUME NEW t \in Turns, NEW e \in Effects,
             Claim(t, e) \/ Complete(t, e) \/ StatementFails(t, e) \/ MarkFailed(t, e)
      PROVE  Rest
  <2>1. e \in AllEffects /\ "memory" \in AllEffects
    BY EffectsAssumption DEF AllEffects
  <2>2. Remembering(t) = "idle" => e # "memory"
    BY <1>1 DEF Claim, Complete, StatementFails, MarkFailed, At, Remembering
  <2>3. UNCHANGED answered
    BY <1>1 DEF Claim, Complete, StatementFails, MarkFailed
  <2>4. CASE StatementFails(t, e)
    <3>1. PICK x : Advance(t, e, x)
      BY <2>4 DEF StatementFails
    <3>2. faults' # 0
      BY <2>4 DEF StatementFails, MemoryInv, UnlockTypes
    <3> QED
      BY <2>1, <2>2, <2>3, <3>1, <3>2, OthersKeepMemories
  <2>5. CASE Claim(t, e) \/ Complete(t, e) \/ MarkFailed(t, e)
    <3>1. PICK x \in {"read", "idle"} : Advance(t, e, x)
      BY <2>5 DEF Claim, Complete, MarkFailed
    <3>2. UNCHANGED <<plan, memories, met, newest, faults>>
      BY <2>5 DEF Claim, Complete, MarkFailed
    <3>3. e = "memory" => Idle(Remembering(t)) /\ Idle(x)
      BY <2>5 DEF Claim, Complete, MarkFailed, At, Remembering, Idle
    <3> QED
      BY <2>1, <2>2, <2>3, <3>1, <3>2, <3>3, OthersKeepMemories
  <2> QED
    BY <1>1, <2>4, <2>5
<1>2. ASSUME NEW t \in Turns, Evaluate(t) \/ Seed(t) \/ Compare(t) \/ Unlock(t) \/ Entitle(t)
      PROVE  Rest
  <2>1. PICK x : Advance(t, "achievement", x)
    BY <1>2 DEF Evaluate, Seed, Compare, Unlock, Entitle
  <2>2. UNCHANGED <<answered, plan, memories, met, newest, faults>>
    BY <1>2 DEF Evaluate, Seed, Compare, Unlock, Entitle
  <2>3. "achievement" \in AllEffects
    BY DEF AllEffects
  <2> QED
    BY <2>1, <2>2, <2>3, OthersKeepMemories
<1>3. ASSUME NEW t \in Turns, Remember(t) \/ Forget(t) \/ Insert(t) PROVE Rest
  BY <1>3, RememberKeeps, ForgetKeeps, InsertKeeps
<1>4. ASSUME Reply PROVE Rest
  BY <1>4, ReplyKeepsMemories
<1>5. ASSUME Crash PROVE Rest
  <2>1. faults' # 0
    BY <1>5 DEF Crash, MemoryInv, UnlockTypes
  <2>2. \A u \in Turns : Remembering(u)' = "idle"
    BY <1>5 DEF Crash, Remembering, AllEffects
  <2> QED
    BY <2>1, <2>2, MemoriesUntouched DEF MemoryInv, Asleep
<1>6. ASSUME UNCHANGED effectVars PROVE Rest
  <2>1. /\ UNCHANGED <<answered, plan, memories, met, newest, faults>>
        /\ \A u \in Turns : Remembering(u)' = Remembering(u)
    BY <1>6 DEF effectVars, Remembering
  <2> QED
    BY <2>1, MemoriesUntouched DEF MemoryInv, Asleep
<1> QED
  BY <1>0, <1>1, <1>2, <1>3, <1>4, <1>5, <1>6 DEF EffectNext, Effect, MemoryInv

\* Whatever any number of turns suggest, as long as their rewrites neither
\* overlap nor fail the memories never say one thing twice, and the last
\* suggestion is among them.
THEOREM MemoriesCurrent == EffectSpec => []MemoriesAreCurrent
<1>1. EffectInit => MemoryInv
  <2> SUFFICES ASSUME EffectInit PROVE MemoryInv
    OBVIOUS
  <2>1. UnlockTypes
    BY EffectsAssumption DEF EffectInit, UnlockTypes
  <2>2. MemoryTypes
    <3>1. <<>> \in Lists
      <4>1. <<>> \in [1..0 -> Contents] /\ 0 \in 0..MaxSuggestions
        BY EffectsAssumption
      <4> QED
        BY <4>1 DEF Lists
    <3> QED
      BY <3>1 DEF EffectInit, MemoryTypes
  <2>3. Asleep
    BY DEF EffectInit, Asleep, Remembering, AllEffects
  <2>4. \A t \in Turns : ~Rewriting(t)
    BY DEF EffectInit, Rewriting, AllEffects
  <2>5. Apart(memories) /\ Shows(memories)
    BY DEF EffectInit, Apart, Shows
  <2> QED
    BY <2>1, <2>2, <2>3, <2>4, <2>5 DEF MemoryInv, OneRewrites, Settled, Underway
<1>2. MemoryInv => MemoriesAreCurrent
  <2> SUFFICES ASSUME MemoryInv, Undisturbed PROVE MemoriesAreCurrent
    BY DEF MemoriesAreCurrent, Undisturbed
  <2>1. Apart(memories) /\ (Shows(memories) \/ \E t \in Turns : Rewriting(t))
    BY DEF MemoryInv, Settled
  <2>2. Resting("memory") => \A t \in Turns : ~Rewriting(t)
    BY DEF Resting, Rewriting
  <2> QED
    BY <2>1, <2>2 DEF MemoriesAreCurrent, Apart, Shows, Said
<1> QED
  BY <1>1, <1>2, MemoryInvStep, PTL DEF EffectSpec
-----------------------------------------------------------------------------
(* The types of both, and what was counted.                                *)

\* What stands in the tables and the plans; every reply counts what came before it.
EffectBounds ==
  /\ said <= (MaxUnanswered + 1) * answered /\ bond <= answered /\ faults <= MaxFaults
  /\ unlocked \subseteq seeded /\ (\A t \in Turns : fresh[t] \subseteq seeded)
  /\ titles \subseteq WithTitle

RowTypes ==
  /\ \A t \in Turns : plan[t].del \subseteq Row /\ plan[t].ins \subseteq Contents
  /\ memories \subseteq Row
  /\ met \in BOOLEAN /\ newest \in Contents \cup {{}}

\* A list of suggestions is a sequence of contents.
LEMMA ListOfContents ==
  ASSUME NEW cs \in Lists
  PROVE  Len(cs) \in Nat /\ \A i \in 1..Len(cs) : cs[i] \in Contents
<1>1. PICK n \in 0..MaxSuggestions : cs \in [1..n -> Contents]
  BY DEF Lists
<1>2. cs \in Seq(Contents)
  BY <1>1, EffectsAssumption
<1> QED
  BY <1>2

\* A suggestion deletes rows that are there and inserts what is suggested,
LEMMA ConsiderTyped ==
  ASSUME NEW rows, NEW c \in Contents, NEW p, p.del \subseteq rows, p.ins \subseteq Contents,
         NEW q, q = Consider(rows, p, c)
  PROVE  q.del \subseteq rows /\ q.ins \subseteq Contents
<1>1. CASE c = Obsolete \/ c \in p.ins
  BY <1>1 DEF Consider
<1>2. CASE ~(c = Obsolete \/ c \in p.ins)
  <2> DEFINE peers == rows \ p.del
             same == {r \in peers : r.content = c}
             kept == IF same = {} THEN {} ELSE {CHOOSE r \in same : TRUE}
  <2>1. /\ q.del = p.del \cup {r \in peers \ kept : Superseded(r.content, c)}
        /\ q.ins = StillPlanned(p.ins, c) \cup (IF same = {} THEN {c} ELSE {})
    BY <1>2 DEF Consider
  <2> QED
    BY <2>1 DEF StillPlanned
<1> QED
  BY <1>1, <1>2

\* and so do all of a turn.
LEMMA PlannedTyped ==
  ASSUME NEW rows, NEW cs \in Lists
  PROVE  Planned(rows, cs).del \subseteq rows /\ Planned(rows, cs).ins \subseteq Contents
<1>1. PICK n : n = Len(cs) /\ n \in Nat /\ \A i \in 1..n : cs[i] \in Contents
  BY ListOfContents
<1>2. PICK f : IsLoop(f, rows, cs, n) /\ Planned(rows, cs) = f[n]
  BY <1>1, PlannedIs
<1> DEFINE Good == {i \in 0..n : f[i].del \subseteq rows /\ f[i].ins \subseteq Contents}
<1>3. 0 \in Good
  <2>1. f[0] = NoPlan
    BY <1>1, <1>2 DEF IsLoop
  <2> QED
    BY <1>1, <2>1 DEF NoPlan
<1>4. ASSUME NEW i \in 1..n, i - 1 \in Good PROVE i \in Good
  <2>1. f[i] = Consider(rows, f[i - 1], cs[i])
    BY <1>1, <1>2 DEF IsLoop
  <2>2. f[i - 1].del \subseteq rows /\ f[i - 1].ins \subseteq Contents
    BY <1>4
  <2>3. cs[i] \in Contents
    BY <1>1
  <2>4. f[i].del \subseteq rows /\ f[i].ins \subseteq Contents
    <3> HIDE DEF Good
    <3> QED
      BY <2>1, <2>2, <2>3, ConsiderTyped
  <2> QED
    BY <1>1, <2>4
<1>5. 0..n \subseteq Good
  <2>1. Good \in SUBSET Nat
    BY <1>1
  <2> HIDE DEF Good
  <2> QED
    BY <1>1, <1>3, <1>4, <2>1, UpTo
<1>6. n \in Good
  <2> HIDE DEF Good
  <2> QED
    BY <1>1, <1>5
<1> QED
  BY <1>2, <1>6

\* A reply comes after at most so many messages.
LEMMA MoreSaid ==
  ASSUME NEW k \in Nat, NEW a \in Nat, NEW s \in Nat, NEW n \in 0..k, s <= (k + 1) * a
  PROVE  s + n + 1 <= (k + 1) * (a + 1)
<1>1. PICK b \in Nat : b = k + 1
  OBVIOUS
<1>2. b * (a + 1) = b * a + b
  OBVIOUS
<1>3. b * a \in Nat /\ s <= b * a
  BY <1>1
<1> QED
  BY <1>1, <1>2, <1>3

LEMMA Monotone ==
  ASSUME NEW b \in Nat, NEW a \in Nat, NEW c \in Nat, a <= c
  PROVE  b * a <= b * c
<1>1. PICK d \in Nat : c = a + d
  <2>1. c - a \in Nat /\ c = a + (c - a)
    OBVIOUS
  <2> QED
    BY <2>1
<1>2. b * (a + d) = b * a + b * d /\ b * d \in Nat /\ b * a \in Nat
  OBVIOUS
<1> QED
  BY <1>1, <1>2

\* What was seeded stays, and every code that is compared or unlocked is seeded.
LEMMA EffectBoundsStep ==
  ASSUME UnlockTypes, EffectBounds, [EffectNext]_effectVars PROVE EffectBounds'
<1> USE DEF counts, unlocking, remembering
<1>1. MaxUnanswered \in Nat /\ MaxFaults \in Nat /\ faults \in Nat /\ answered \in Nat /\ said \in Nat /\ bond \in Nat
  BY EffectsAssumption DEF UnlockTypes
<1>2. CASE Reply
  <2>1. said' <= (MaxUnanswered + 1) * answered'
    <3>1. PICK n \in 0..MaxUnanswered : said' = said + n + 1
      BY <1>2 DEF Reply
    <3>2. said + n + 1 <= (MaxUnanswered + 1) * (answered + 1)
      BY <1>1, MoreSaid DEF EffectBounds
    <3>3. answered' = answered + 1
      BY <1>2 DEF Reply
    <3> QED
      BY <3>1, <3>2, <3>3
  <2>2. bond' <= answered'
    BY <1>1, <1>2 DEF Reply, EffectBounds
  <2> QED
    BY <1>2, <2>1, <2>2 DEF Reply, EffectBounds
<1>3. CASE /\ UNCHANGED <<counts, rules, fresh, seeded, unlocked, titles>>
           /\ \/ UNCHANGED faults
              \/ faults < MaxFaults /\ faults' = faults + 1
  <2>1. faults' <= MaxFaults
    BY <1>1, <1>3 DEF EffectBounds
  <2> QED
    BY <1>3, <2>1 DEF EffectBounds
<1>4. ASSUME NEW t \in Turns, Evaluate(t) \/ Seed(t) \/ Compare(t) \/ Unlock(t) \/ Entitle(t)
      PROVE  EffectBounds'
  <2>1. UNCHANGED <<counts, faults>>
    BY <1>4 DEF Evaluate, Seed, Compare, Unlock, Entitle
  <2>2. /\ seeded \subseteq seeded' /\ unlocked' \subseteq seeded'
        /\ \A u \in Turns : fresh'[u] \subseteq seeded'
    BY <1>4 DEF Evaluate, Seed, Compare, Unlock, Entitle, EffectBounds, UnlockTypes
  <2>3. titles' \subseteq WithTitle
    BY <1>4 DEF Evaluate, Seed, Compare, Unlock, Entitle, TitlesOf, EffectBounds
  <2> QED
    BY <2>1, <2>2, <2>3 DEF EffectBounds
<1>5. ASSUME NEW t \in Turns, NEW e \in Effects,
             Claim(t, e) \/ Complete(t, e) \/ StatementFails(t, e) \/ MarkFailed(t, e)
      PROVE  EffectBounds'
  BY <1>3, <1>5 DEF Claim, Complete, StatementFails, MarkFailed
<1>6. ASSUME NEW t \in Turns, Remember(t) \/ Forget(t) \/ Insert(t) PROVE EffectBounds'
  BY <1>3, <1>6 DEF Remember, Forget, Insert
<1>7. CASE Crash \/ UNCHANGED effectVars
  BY <1>3, <1>7 DEF Crash, effectVars
<1> QED
  BY <1>2, <1>4, <1>5, <1>6, <1>7 DEF EffectNext, Effect

\* Plans delete rows there are and insert what was suggested.
LEMMA RowTypesStep ==
  ASSUME UnlockTypes, MemoryTypes, RowTypes, [EffectNext]_effectVars PROVE RowTypes'
<1> USE DEF counts, unlocking, remembering
<1>1. CASE UNCHANGED <<plan, memories, met, newest>>
  BY <1>1 DEF RowTypes
<1>2. ASSUME NEW t \in Turns, Remember(t) PROVE RowTypes'
  <2>1. candidates[t] \in Lists
    BY DEF MemoryTypes
  <2>2. PICK p : p = Planned(memories, candidates[t])
    OBVIOUS
  <2>3. p.del \subseteq Row /\ p.ins \subseteq Contents
    BY <2>1, <2>2, PlannedTyped DEF RowTypes
  <2>4. \A u \in Turns : plan'[u] = IF u = t THEN p ELSE plan[u]
    BY <1>2, <2>2 DEF Remember, MemoryTypes
  <2>5. newest' \in Contents \cup {{}}
    <3>1. CASE Told(candidates[t]) = {}
      BY <1>2, <3>1 DEF Remember, RowTypes
    <3>2. CASE Told(candidates[t]) # {}
      <4>1. PICK cs : cs = candidates[t]
        OBVIOUS
      <4>2. Len(cs) \in Nat /\ \A i \in 1..Len(cs) : cs[i] \in Contents
        BY <2>1, <4>1, ListOfContents
      <4>3. \E j \in Told(cs) : LastTold(cs) = cs[j]
        BY <3>2, <4>1, <4>2, LastIsTold
      <4>4. LastTold(cs) \in Contents
        BY <4>2, <4>3 DEF Told
      <4> QED
        BY <1>2, <3>2, <4>1, <4>4 DEF Remember
    <3> QED
      BY <3>1, <3>2
  <2>6. met' \in BOOLEAN
    <3>1. met' = (met \/ \E u \in Turns \ {t} : Rewriting(u))
      BY <1>2 DEF Remember
    <3>2. (met \/ \E u \in Turns \ {t} : Rewriting(u)) \in BOOLEAN
      OBVIOUS
    <3> QED
      BY <3>1, <3>2
  <2>7. UNCHANGED memories
    BY <1>2 DEF Remember
  <2> QED
    BY <2>3, <2>4, <2>5, <2>6, <2>7 DEF RowTypes
<1>3. ASSUME NEW t \in Turns, Forget(t) \/ Insert(t) PROVE RowTypes'
  <2>1. {[by |-> t, content |-> c] : c \in plan[t].ins} \subseteq Row
    <3>1. t \in 0..MaxTurns /\ plan[t].ins \subseteq Contents
      BY EffectsAssumption DEF Turns, RowTypes
    <3> QED
      BY <3>1 DEF Row
  <2>2. memories' \subseteq Row
    BY <1>3, <2>1 DEF Forget, Insert, RowTypes
  <2>3. UNCHANGED <<plan, met, newest>>
    BY <1>3 DEF Forget, Insert
  <2> QED
    BY <2>2, <2>3 DEF RowTypes
<1> QED
  BY <1>1, <1>2, <1>3 DEF EffectNext, Effect, Reply, Claim, Complete, StatementFails, MarkFailed, Evaluate,
     Seed, Compare, Unlock, Entitle, Crash, effectVars

\* Every table and every variable of a turn keeps its type: what is unlocked
\* was seeded, and the plans of memories are made of rows and suggestions.
THEOREM EffectsTyped == EffectSpec => []EffectTypeOK
<1> DEFINE IInv == UnlockTypes /\ MemoryTypes /\ EffectBounds /\ RowTypes
<1>1. EffectInit => IInv
  <2> SUFFICES ASSUME EffectInit PROVE IInv
    OBVIOUS
  <2>1. UnlockTypes
    BY EffectsAssumption DEF EffectInit, UnlockTypes
  <2>2. MemoryTypes
    <3>1. <<>> \in Lists
      <4>1. <<>> \in [1..0 -> Contents] /\ 0 \in 0..MaxSuggestions
        BY EffectsAssumption
      <4> QED
        BY <4>1 DEF Lists
    <3> QED
      BY <3>1 DEF EffectInit, MemoryTypes
  <2>3. EffectBounds
    <3>1. said = 0 /\ answered = 0 /\ bond = 0 /\ faults = 0 /\ unlocked = {} /\ titles = {}
          /\ \A t \in Turns : fresh[t] = {}
      BY DEF EffectInit
    <3>2. (MaxUnanswered + 1) * answered = 0
      BY <3>1, EffectsAssumption
    <3> QED
      BY <3>1, <3>2, EffectsAssumption DEF EffectBounds
  <2>4. RowTypes
    <3>1. [by |-> 0, content |-> Obsolete] \in Row
      BY EffectsAssumption DEF Row
    <3>2. memories \subseteq Row
      BY <3>1 DEF EffectInit
    <3>3. \A t \in Turns : plan[t].del = {} /\ plan[t].ins = {}
      BY DEF EffectInit, NoPlan
    <3>4. met \in BOOLEAN
      BY ZenonT(20) DEF EffectInit
    <3>5. newest = {}
      BY DEF EffectInit
    <3> QED
      BY <3>2, <3>3, <3>4, <3>5 DEF RowTypes
  <2> QED
    BY <2>1, <2>2, <2>3, <2>4
<1>2. IInv /\ [EffectNext]_effectVars => IInv'
  BY UnlockTypesStep, MemoryTypesStep, EffectBoundsStep, RowTypesStep
<1>3. IInv => EffectTypeOK
  <2> SUFFICES ASSUME IInv PROVE EffectTypeOK
    OBVIOUS
  <2>1. said \in 0..((MaxUnanswered + 1) * MaxTurns)
    <3>1. MaxTurns \in Nat /\ MaxUnanswered + 1 \in Nat /\ answered \in Nat /\ answered <= MaxTurns /\ said \in Nat
      BY EffectsAssumption DEF UnlockTypes
    <3>2. PICK most \in Nat : most = MaxUnanswered + 1
      BY <3>1
    <3>3. most * answered <= most * MaxTurns /\ most * answered \in Nat /\ most * MaxTurns \in Nat
      BY <3>1, <3>2, Monotone
    <3>4. said <= most * answered
      BY <3>2 DEF EffectBounds
    <3>5. said \in 0..(most * MaxTurns)
      BY <3>1, <3>3, <3>4
    <3> QED
      BY <3>2, <3>5
  <2>2. bond \in 0..answered /\ faults \in 0..MaxFaults
    BY EffectsAssumption DEF UnlockTypes, EffectBounds
  <2> QED
    BY <2>1, <2>2 DEF UnlockTypes, MemoryTypes, EffectBounds, RowTypes, EffectTypeOK
<1> QED
  BY <1>1, <1>2, <1>3, PTL DEF EffectSpec
=============================================================================
