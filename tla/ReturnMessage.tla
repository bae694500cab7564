--------------------------- MODULE ReturnMessage ---------------------------
(***************************************************************************)
(* Return messages (modules/return-messages/service.ts) of one character   *)
(* to one user: messages the character sends by itself, one for each day   *)
(* (window) of the last WindowCount, delivered when the user comes back    *)
(* (checkReturnMessages) and by an hourly sweep of all users.              *)
(*                                                                         *)
(* Everything a caller reads before it delivers may be stale by then: the  *)
(* text takes up to 15 seconds to generate, and other callers deliver and  *)
(* the user reads meanwhile.  deliverReturnMessage is one transaction      *)
(* under an advisory lock, in which the agent's runtime is told by HTTP:   *)
(* it is cut there.  What it wrote appears when it commits.                *)
(***************************************************************************)
EXTENDS Integers, Sequences, FiniteSets

CONSTANTS Callers,        \* requests to check, and sweeps
          UnreadCap,      \* UNREAD_CAP
          WindowCount,    \* SWEEP_WINDOW_COUNT
          LastDay,        \* bound: the calendar of an instance
          MaxCopies,      \* bound: copies of one message that are counted
          Roleplay        \* config.useRoleplayAgents

ASSUME CapAssumption == UnreadCap \in Nat \ {0}
ASSUME WindowAssumption == WindowCount \in Nat \ {0}
ASSUME DayAssumption == LastDay \in Nat /\ WindowCount - 1 <= LastDay
ASSUME CopiesAssumption == MaxCopies \in Nat \ {0}
ASSUME RoleplayAssumption == Roleplay \in BOOLEAN

Windows == 0 .. LastDay

VARIABLES today,
          row,        \* character_return_messages: "none", "unread", "read"
          session,    \* an active free session exists (it is unique)
          created,    \* the delivery under way has created it, uncommitted
          context,    \* copies of each message in the agent's session
          pc, todo, budget,   \* each caller: its step, windows to look at
          job                 \* and its deliveries

caller == <<pc, todo, budget>>
vars == <<today, row, session, created, context, caller, job>>

Unread == {w \in Windows : row[w] = "unread"}
NoJobs == [w \in Windows |-> "none"]

Init ==
  /\ today = WindowCount - 1
  /\ row = [w \in Windows |-> "none"]
  /\ session \in BOOLEAN
  /\ created = FALSE
  /\ context = [w \in Windows |-> 0]
  /\ pc = [c \in Callers |-> "idle"]
  /\ todo = [c \in Callers |-> <<>>]
  /\ budget = [c \in Callers |-> 0]
  /\ job = [c \in Callers |-> NoJobs]

NextDay ==
  /\ today < LastDay
  /\ today' = today + 1
  /\ UNCHANGED <<row, session, created, context, caller, job>>

-----------------------------------------------------------------------------
\* What checkReturnMessages and sweepReturnMessages plan.

Plan(c, windows) ==
  /\ pc[c] = "idle"
  /\ pc' = [pc EXCEPT ![c] = "count"]
  /\ todo' = [todo EXCEPT ![c] = windows]
  /\ UNCHANGED <<today, row, session, created, context, budget, job>>

Check(c) == Plan(c, <<today>>)

\* getSweepWindows: today, yesterday, ...
SweepWindows == [i \in 1 .. WindowCount |-> today - (i - 1)]
Sweep(c) == Plan(c, SweepWindows)

\* getUnreadCount.
CountUnread(c) ==
  /\ pc[c] = "count"
  /\ Cardinality(Unread) < UnreadCap
  /\ pc' = [pc EXCEPT ![c] = "look"]
  /\ budget' = [budget EXCEPT ![c] = UnreadCap - Cardinality(Unread)]
  /\ UNCHANGED <<today, row, session, created, context, todo, job>>

Full(c) ==
  /\ pc[c] = "count"
  /\ Cardinality(Unread) >= UnreadCap
  /\ pc' = [pc EXCEPT ![c] = "idle"]
  /\ todo' = [todo EXCEPT ![c] = <<>>]
  /\ UNCHANGED <<today, row, session, created, context, budget, job>>

WithinBudget(c) == budget[c] > 0

\* Mutant: windows that have their message count as added.
CountSkipped(c, planned) == budget[c] - 1
Left(c, planned) == IF planned THEN budget[c] - 1 ELSE budget[c]

\* hasMessageInWindow, for the next window.
LookAt(c) ==
  LET w == Head(todo[c])
      planned == row[w] = "none"
  IN
  /\ pc[c] = "look" /\ todo[c] # <<>> /\ WithinBudget(c)
  /\ todo' = [todo EXCEPT ![c] = Tail(@)]
  /\ budget' = [budget EXCEPT ![c] = Left(c, planned)]
  /\ job' = IF planned THEN [job EXCEPT ![c][w] = "planned"] ELSE job
  /\ UNCHANGED <<today, row, session, created, context, pc>>

\* runWithConcurrency, or the one call of generateForWindow.
Run(c) ==
  /\ pc[c] = "look" /\ (todo[c] = <<>> \/ ~WithinBudget(c))
  /\ pc' = [pc EXCEPT ![c] = "run"]
  /\ todo' = [todo EXCEPT ![c] = <<>>]
  /\ budget' = [budget EXCEPT ![c] = 0]
  /\ UNCHANGED <<today, row, session, created, context, job>>

Finish(c) ==
  /\ pc[c] = "run" /\ job[c] = NoJobs
  /\ pc' = [pc EXCEPT ![c] = "idle"]
  /\ UNCHANGED <<today, row, session, created, context, todo, budget, job>>

-----------------------------------------------------------------------------
\* deliverReturnMessage, some time after generateReturnMessageContent began.

Delivering(c, w) == job[c][w] \in {"append", "commit"}
Set(c, w, s) == job' = [job EXCEPT ![c][w] = s]

\* pg_advisory_xact_lock(user, character).
LockFree == \A c \in Callers, w \in Windows : ~Delivering(c, w)

\* Mutant: a message already there is overwritten.
Upsert(w) == TRUE
\* onConflictDoNothing on (user, character, window).
RowIsNew(w) == row[w] = "none"

Allowed(w) == Cardinality(Unread) < UnreadCap /\ RowIsNew(w)

(* Up to the call of the agent's runtime.  Creating the session waits for a *)
(* transaction that is creating it (chat_sessions_active_free_unique).      *)
Enter(c, w) ==
  /\ pc[c] = "run" /\ job[c][w] = "planned"
  /\ LockFree /\ Allowed(w)
  /\ session \/ ~created
  /\ created' = ~session
  /\ Set(c, w, IF Roleplay THEN "append" ELSE "commit")
  /\ UNCHANGED <<today, row, session, context, caller>>

\* The cap is reached, or the window has its message by now.
Refuse(c, w) ==
  /\ pc[c] = "run" /\ job[c][w] = "planned"
  /\ LockFree /\ ~Allowed(w)
  /\ Set(c, w, "none")
  /\ UNCHANGED <<today, row, session, created, context, caller>>

\* A copy in the session that exists; the agent ignores repeated message ids,
\* but every delivery inserts a message of its own.
Copied(w) == [context EXCEPT ![w] = IF @ < MaxCopies THEN @ + 1 ELSE @]

AppendToSession(c, w) ==
  /\ job[c][w] = "append"
  /\ context' = Copied(w)
  /\ Set(c, w, "commit")
  /\ UNCHANGED <<today, row, session, created, caller>>

\* Mutant: the failure is ignored.
CommitAnyway == "commit"
AfterFailedAppend == "none"

\* The call throws: refused, or timed out with the message in place.  A copy
\* in a session that is rolled back is out of anyone's sight.
AppendFails(c, w) ==
  /\ job[c][w] = "append"
  /\ context' \in {context, IF created THEN context ELSE Copied(w)}
  /\ created' = FALSE
  /\ Set(c, w, AfterFailedAppend)
  /\ UNCHANGED <<today, row, session, caller>>

Commit(c, w) ==
  /\ job[c][w] = "commit"
  /\ row' = [row EXCEPT ![w] = "unread"]
  /\ session' = TRUE
  /\ created' = FALSE
  /\ Set(c, w, "none")
  /\ UNCHANGED <<today, context, caller>>

\* What a rolled back transaction leaves of the copies.
Remaining(w) == IF created THEN [context EXCEPT ![w] = 0] ELSE context

\* The transaction fails after the call.
CommitFails(c, w) ==
  /\ job[c][w] = "commit"
  /\ context' = Remaining(w)
  /\ created' = FALSE
  /\ Set(c, w, "none")
  /\ UNCHANGED <<today, row, session, caller>>

\* The process dies.  (Before it runs its deliveries it has done nothing.)
Die(c) ==
  /\ pc[c] = "run"
  /\ pc' = [pc EXCEPT ![c] = "idle"]
  /\ job' = [job EXCEPT ![c] = NoJobs]
  /\ IF \E w \in Windows : Delivering(c, w)
     THEN /\ created' = FALSE
          /\ \E w \in Windows : Delivering(c, w) /\ context' = Remaining(w)
     ELSE UNCHANGED <<created, context>>
  /\ UNCHANGED <<today, row, session, todo, budget>>

-----------------------------------------------------------------------------
\* markCharacterMessagesRead.
MarkRead ==
  /\ Unread # {}
  /\ row' = [w \in Windows |-> IF row[w] = "unread" THEN "read" ELSE row[w]]
  /\ UNCHANGED <<today, session, created, context, caller, job>>

\* findOrCreateSession of a first free turn with the character.
StartChat ==
  /\ ~session /\ ~created
  /\ session' = TRUE
  /\ UNCHANGED <<today, row, created, context, caller, job>>

Prepare(c) == CountUnread(c) \/ Full(c) \/ LookAt(c) \/ Run(c) \/ Finish(c)

Next ==
  \/ NextDay \/ MarkRead \/ StartChat
  \/ \E c \in Callers :
       \/ Check(c) \/ Sweep(c) \/ Prepare(c) \/ Die(c)
       \/ \E w \in Windows :
            \/ Enter(c, w) \/ Refuse(c, w)
            \/ AppendToSession(c, w) \/ AppendFails(c, w)
            \/ Commit(c, w) \/ CommitFails(c, w)

Spec == Init /\ [][Next]_vars

(* Processes go on, a sweep comes every hour, and neither the database nor *)
(* the agent's runtime fails, nor does the process die, every time.        *)
FairSpec ==
  /\ Spec
  /\ \A c \in Callers : WF_vars(Prepare(c)) /\ SF_vars(Sweep(c))
  /\ \A c \in Callers, w \in Windows : WF_vars(Refuse(c, w))
  /\ SF_vars(\E c \in Callers, w \in Windows : Enter(c, w))
  /\ SF_vars(\E c \in Callers, w \in Windows : AppendToSession(c, w))
  /\ SF_vars(\E c \in Callers, w \in Windows : Commit(c, w))

-----------------------------------------------------------------------------
\* Properties.

\* Every variable holds a value of its column or step; a budget is never
\* overdrawn.
TypeOK ==
  /\ today \in WindowCount - 1 .. LastDay
  /\ row \in [Windows -> {"none", "unread", "read"}]
  /\ session \in BOOLEAN /\ created \in BOOLEAN
  /\ context \in [Windows -> 0 .. MaxCopies]
  /\ pc \in [Callers -> {"idle", "count", "look", "run"}]
  /\ todo \in [Callers -> Seq(Windows)]
  /\ budget \in [Callers -> 0 .. UnreadCap]
  /\ job \in [Callers -> [Windows -> {"none", "planned", "append", "commit"}]]

\* "No path pushes the unread messages above 3", although every caller plans
\* from a count and delivers much later.
NeverOverCap == Cardinality(Unread) <= UnreadCap

\* A message the user sees is in the context of the agent that "sent" it.
AgentKnowsDelivered ==
  Roleplay => \A w \in Windows : row[w] # "none" => context[w] >= 1

(* ... and only once: "FastClaw appends a message id once; a failed delivery *)
(* is rolled back and a later sweep or check tries again."                 *)
OneCopy == \A w \in Windows : context[w] <= 1

ReadRows == {w \in Windows : row[w] = "read"}
Promise == INSTANCE Inbox WITH unread <- Unread, read <- ReadRows
\* Deliveries and readings are those of Inbox, whatever interleaves.
InboxSpec == Promise!Spec

Recent == {w \in Windows : today - WindowCount < w /\ w <= today}
\* When days stop passing, every recent day gets its message unless the user
\* leaves UnreadCap of them unread.
FillsUp == <>[](Cardinality(Unread) = UnreadCap \/ \A w \in Recent : row[w] # "none")
=============================================================================
