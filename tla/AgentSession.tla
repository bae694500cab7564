---------------------------- MODULE AgentSession ----------------------------
(***************************************************************************)
(* One session of a fastclaw agent: its row in the table sessions, and the *)
(* Session objects that cache it (internal/session/manager.go), under the  *)
(* requests of internal/api and internal/agent: turns, plain or streamed,  *)
(* appended return messages, read-only generations and slash commands.     *)
(* A cache is the session manager of one replica or of one generation of a *)
(* user space.  The HTTP routes do not pass the task queue, so requests of *)
(* one session meet.                                                       *)
(*                                                                         *)
(* A request runs between the acquisitions of two locks: the manager's,    *)
(* held by Get across its read of the row, and the session's, held by each *)
(* append or replacement across the write of the whole row.                *)
(***************************************************************************)
EXTENDS Naturals, Sequences

CONSTANTS Procs, Caches,
          Kinds,       \* requests clients make
          Ids,         \* clientMessageId or messageId of a request
          MaxRequests, \* bound: requests in all
          MaxRounds,   \* maxToolIterations, above 0
          MaxFaults,   \* bound: statements that fail and replicas that die
          None       \* no row, no Session object, no snapshot, no request

\* Generations are plain or streamed, and kept or read-only (F10).
Turns == {"turn", "stream"}
Reads == {"read", "readStream"}
AllKinds == Turns \cup Reads \cup {"append", "new", "retry", "undo", "compact"}

ASSUME KindsAssumption == Kinds \subseteq AllKinds
ASSUME BoundsAssumption == MaxRequests \in Nat /\ MaxRounds \in Nat \ {0} /\ MaxFaults \in Nat

VARIABLES row,              \* the list of messages, or there is no row
          list, snap,       \* Session.Messages and Session.snapshot of a cache
          pc,               \* each process
          req,              \* its request: the cache it came to and its number,
                            \* which names what it appends
          round,            \* iterations of the ReAct loop
          view,             \* the messages it read, and those it added since
          requests, faults,
          acked,            \* messages whose append came back, less those discarded
          stale,            \* processes whose session another cache wrote meanwhile
          moved,            \* processes whose last read another request wrote after
          hurt,             \* did such a process write, or a statement fail?
          met,              \* have two requests been active at a time?
          last,             \* the request that ended last
          cut,              \* was a call ever left behind without its result?
          cleared           \* number of the last /new that deleted the row

session == <<row, list, snap>>
locals == <<round, view>>
counters == <<requests, faults>>
history == <<acked, stale, moved, hurt, met, last, cut, cleared>>
vars == <<session, pc, req, locals, counters, history>>

Roles == {"user", "return", "reply", "call", "tool", "warn"}
Message == [role : Roles, id : Ids \cup (1..MaxRequests), round : 0..MaxRounds]
Lists == Seq(Message)
Has(l) == l # None
Msgs(l) == {l[i] : i \in DOMAIN l}

Init ==
  /\ row = None
  /\ list = [c \in Caches |-> None] /\ snap = [c \in Caches |-> None]
  /\ pc = [p \in Procs |-> "idle"] /\ req = [p \in Procs |-> None]
  /\ round = [p \in Procs |-> 0] /\ view = [p \in Procs |-> <<>>]
  /\ requests = 0 /\ faults = 0
  /\ acked = {} /\ stale = {} /\ moved = {} /\ hurt = FALSE
  /\ met = FALSE /\ last = "none" /\ cut = FALSE /\ cleared = 0

Kind(p) == req[p].kind
At(p) == req[p].at
Active == {p \in Procs : pc[p] # "idle"}
Goto(p, next) == pc' = [pc EXCEPT ![p] = next]
MayFail == faults < MaxFaults

\* What a message of process p is called; roles with an id of their own aside.
Tag(p, role) == [role |-> role, id |-> req[p].no, round |-> round[p]]
\* The backend appends messages of the assistant; of role "user", which the route
\* takes as well, AppendIfAbsent would look for a clientMessageId they do not have.
Named(p) == [role |-> IF Kind(p) = "append" THEN "return" ELSE "user", id |-> req[p].id, round |-> 0]

-----------------------------------------------------------------------------
(* Writes, under the lock of the Session: the list of the cache and, whole, *)
(* the row.  The error of SaveSession is dropped.                           *)

\* What the write of p does to the others, and what it says of its own.
Note(p, raced) ==
  /\ stale' = stale \cup {q \in Active : At(q) # At(p)}
  /\ moved' = (moved \cup Active) \ {p}
  /\ hurt' = (hurt \/ raced \/ p \in stale \/ faults' # faults)

Save(p, l, raced) ==
  /\ list' = [list EXCEPT ![At(p)] = l]
  /\ \/ row' = l /\ faults' = faults
     \/ MayFail /\ row' = row /\ faults' = faults + 1
  /\ Note(p, raced)
  /\ UNCHANGED <<snap, requests>>

\* Mutant: the duplicate is looked for in the list read when the turn began.
FoundInView(p, l, m) == m \in Msgs(view[p])
Found(p, l, m) == m \in Msgs(l)

AppendMsg(p, m) ==
  /\ Save(p, Append(list[At(p)], m), FALSE)
  /\ acked' = acked \cup {m}

\* AppendIfAbsent
AppendIfAbsent(p, m) ==
  IF Found(p, list[At(p)], m)
  THEN UNCHANGED <<session, counters, acked, stale, moved, hurt>>
  ELSE AppendMsg(p, m)

\* ReplaceMessages with a list made from what p read.
Replace(p, l) ==
  /\ Save(p, l, p \in moved)
  /\ acked' = acked \ (Msgs(view[p]) \ Msgs(l))

-----------------------------------------------------------------------------
\* A request comes in, and resolveUserContext finds its manager.
Request(p) ==
  /\ pc[p] = "idle" /\ requests < MaxRequests
  /\ requests' = requests + 1
  /\ \E k \in Kinds, c \in Caches, i \in Ids :
       req' = [req EXCEPT ![p] = [kind |-> k, at |-> c, id |-> i, no |-> requests + 1]]
  /\ Goto(p, "get")
  /\ met' = (met \/ Active # {}) /\ last' = "none"
  /\ UNCHANGED <<session, locals, faults, acked, stale, moved, hurt, cut, cleared>>

InGet(c) == \E p \in Procs : pc[p] = "set" /\ At(p) = c

\* Mutant: the cache is trusted.
CacheFirst(c, l) == IF Has(list[c]) THEN list[c] ELSE IF Has(l) THEN l ELSE <<>>
\* What Get makes of the row it read: no row, and a failed read, keep the cache.
Reloaded(c, l) == IF Has(l) THEN l ELSE IF Has(list[c]) THEN list[c] ELSE <<>>

\* Get, under the manager's lock: GetSession ...
GetRead(p) ==
  /\ pc[p] = "get" /\ ~InGet(At(p))
  /\ \/ view' = [view EXCEPT ![p] = row] /\ UNCHANGED <<faults, hurt>>
     \/ /\ MayFail /\ faults' = faults + 1 /\ hurt' = TRUE
        /\ view' = [view EXCEPT ![p] = None]
  /\ stale' = stale \ {p} /\ moved' = moved \ {p}
  /\ Goto(p, "set")
  /\ UNCHANGED <<session, req, round, requests, acked, met, last, cut, cleared>>

\* ... and s.Messages = msgs.
GetSet(p) ==
  /\ pc[p] = "set"
  /\ list' = [list EXCEPT ![At(p)] = Reloaded(At(p), view[p])]
  /\ view' = [view EXCEPT ![p] = <<>>]
  /\ hurt' = (hurt \/ p \in moved)
  /\ Goto(p, CASE Kind(p) \in Turns \cup {"append"} -> "user"
               [] Kind(p) = "new" -> "clear"
               [] Kind(p) = "undo" -> "undo"
               [] OTHER -> "read")
  /\ UNCHANGED <<row, snap, req, round, counters, acked, stale, moved, met, last, cut, cleared>>

\* HandleMessage appends the user message, AppendMessage the return message.
AppendNamed(p) ==
  /\ pc[p] = "user"
  /\ AppendIfAbsent(p, Named(p))
  /\ Goto(p, IF Kind(p) = "append" THEN "done" ELSE "read")
  /\ UNCHANGED <<req, locals, met, last, cut, cleared>>

\* GetMessages
Read(p) ==
  /\ pc[p] = "read"
  /\ view' = [view EXCEPT ![p] = list[At(p)]]
  /\ moved' = moved \ {p}
  /\ Goto(p, CASE Kind(p) \in Turns \cup {"compact"} -> "compact"
               [] Kind(p) \in Reads -> "model"
               [] Kind(p) = "undo" -> "drop"
               [] OTHER -> "retry")
  /\ UNCHANGED <<session, req, round, counters, acked, stale, hurt, met, last, cut, cleared>>

-----------------------------------------------------------------------------
\* CompactMessages: below the threshold nothing changes; above it, the contents
\* of old tool results are cut and the list is written back.  The summary never
\* comes: it is asked for without a context, which both providers refuse.
Compact(p) ==
  /\ pc[p] = "compact"
  /\ \/ Replace(p, view[p])
     \/ UNCHANGED <<session, counters, acked, stale, moved, hurt>>
  /\ Goto(p, IF Kind(p) \in Turns THEN "model" ELSE "done")
  /\ UNCHANGED <<req, locals, met, last, cut, cleared>>

Calls(l) == {i \in DOMAIN l : l[i].role = "call"}
Result(m) == [m EXCEPT !.role = "tool"]
Resolved(l, i) == \E j \in DOMAIN l : i < j /\ l[j] = Result(l[i])
Orphans(l) == {i \in Calls(l) : ~Resolved(l, i)}

\* A history is accepted if the result of each call comes next to it; a warning,
\* a system message, is lifted out by toAnthropicMessages.
Follows(l, i, j) == i < j /\ l[j] = Result(l[i]) /\ \A k \in DOMAIN l : i < k /\ k < j => l[k].role = "warn"
Accepted(l) == \A i \in Calls(l) : \E j \in DOMAIN l : Follows(l, i, j)

Model(p) == pc[p] = "model"
\* HandleMessage defers the padding, HandleMessageStream does not.
End(p) == Goto(p, IF Kind(p) \in {"turn", "read"} THEN "pad" ELSE "done")

\* The model fails, as it must where the history is not accepted.
ModelFails(p) ==
  /\ Model(p)
  /\ End(p)
  /\ UNCHANGED <<session, req, locals, counters, history>>

\* It answers with text: the reply is kept, unless the request is read-only.
ModelReplies(p) ==
  /\ Model(p) /\ Accepted(view[p])
  /\ IF Kind(p) \in Reads
     THEN UNCHANGED <<session, counters, acked, stale, moved, hurt>>
     ELSE AppendMsg(p, Tag(p, "reply"))
  /\ End(p)
  /\ UNCHANGED <<req, locals, met, last, cut, cleared>>

\* It calls a tool; a read-only request offers it none.
ModelCalls(p) ==
  /\ Model(p) /\ Accepted(view[p]) /\ Kind(p) \in Turns
  /\ AppendMsg(p, Tag(p, "call"))
  /\ view' = [view EXCEPT ![p] = Append(@, Tag(p, "call"))]
  /\ Goto(p, "tools")
  /\ UNCHANGED <<req, round, met, last, cut, cleared>>

\* Mutant: the bound of the loop is off by one.
OneRoundMore(p) == round[p] + 1 <= MaxRounds
RoundsLeft(p) == round[p] + 1 < MaxRounds

\* executeToolsConcurrently answers every call, with an error if it must.
ToolsAnswer(p) ==
  /\ pc[p] = "tools"
  /\ AppendMsg(p, Tag(p, "tool"))
  /\ view' = [view EXCEPT ![p] = Append(@, Tag(p, "tool"))]
  /\ round' = [round EXCEPT ![p] = @ + 1]
  /\ IF RoundsLeft(p) THEN Goto(p, "model") ELSE End(p)
  /\ UNCHANGED <<req, met, last, cut, cleared>>

\* The same call for the third time, three in one answer included: a warning
\* is appended and the loop left with the call unanswered.
LoopDetected(p) ==
  /\ pc[p] = "tools"
  /\ AppendMsg(p, Tag(p, "warn"))
  /\ End(p)
  /\ cut' = (cut \/ Kind(p) = "stream")
  /\ UNCHANGED <<req, locals, met, last, cleared>>

\* padOrphanToolResults reads the list,
PadRead(p) ==
  /\ pc[p] = "pad"
  /\ view' = [view EXCEPT ![p] = list[At(p)]]
  /\ Goto(p, "padWrite")
  /\ UNCHANGED <<session, req, round, counters, history>>

LatestCall(l) == {i \in Calls(l) : \A j \in Calls(l) : j <= i}

\* Mutant: the padding is left to the next turn.
NotPadded(l) == {}
Unanswered(l) == LatestCall(l) \cap Orphans(l)

\* and answers the latest call if it found no result, at the end of the list: when
\* an earlier process left the call behind, after the messages of the next turn.
PadWrite(p) ==
  /\ pc[p] = "padWrite"
  /\ IF Unanswered(view[p]) = {}
     THEN UNCHANGED <<session, counters, acked, stale, moved, hurt>>
     ELSE \E i \in Unanswered(view[p]) : AppendMsg(p, Result(view[p][i]))
  /\ Goto(p, "done")
  /\ UNCHANGED <<req, locals, met, last, cut, cleared>>

-----------------------------------------------------------------------------
(* Slash commands.  They take the agent's own session manager; the sessions *)
(* a roleplay agent keeps for each user are out of their reach.             *)

\* /new: Clear; the DELETE may fail.
Clear(p) ==
  /\ pc[p] = "clear"
  /\ list' = [list EXCEPT ![At(p)] = <<>>]
  /\ \/ row' = None /\ faults' = faults
     \/ MayFail /\ row' = row /\ faults' = faults + 1
  /\ Note(p, FALSE)
  /\ acked' = {} /\ cleared' = IF Has(row') THEN cleared ELSE req[p].no
  /\ Goto(p, "done")
  /\ UNCHANGED <<snap, req, locals, requests, met, last, cut>>

UserTurns(l) == {i \in DOMAIN l : l[i].role = "user"}
LastUser(l) == CHOOSE i \in UserTurns(l) : \A j \in UserTurns(l) : j <= i

\* /retry: a snapshot of the list as it is by now,
Snapshot(p) ==
  /\ pc[p] = "retry"
  /\ IF UserTurns(view[p]) = {}
     THEN Goto(p, "done") /\ snap' = snap
     ELSE Goto(p, "trim") /\ snap' = [snap EXCEPT ![At(p)] = list[At(p)]]
  /\ UNCHANGED <<row, list, req, locals, counters, history>>

\* then the messages before the last user message of the list it read.
Trim(p) ==
  /\ pc[p] = "trim"
  /\ Replace(p, SubSeq(view[p], 1, LastUser(view[p]) - 1))
  /\ Goto(p, "done")
  /\ UNCHANGED <<req, locals, met, last, cut, cleared>>

\* The last turn, without a snapshot: its replies and the user message before.
Replied(l, n) == \A i \in DOMAIN l : i > n => l[i].role \in {"reply", "return", "call"}
WithoutReplies(l) == CHOOSE n \in 0..Len(l) : Replied(l, n) /\ \A k \in 0..Len(l) : Replied(l, k) => n <= k
LastTurn(l) ==
  LET n == WithoutReplies(l) IN IF n > 0 /\ l[n].role = "user" THEN n - 1 ELSE n

\* /undo asks for a snapshot, and reads the list where there is none.
Undo(p) ==
  /\ pc[p] = "undo"
  /\ Goto(p, IF Has(snap[At(p)]) THEN "restore" ELSE "read")
  /\ UNCHANGED <<session, req, locals, counters, history>>

\* With a snapshot, unless it is gone by now, the cache alone is restored: the
\* file is rewritten, the row is not.
Restore(p) ==
  /\ pc[p] = "restore"
  /\ IF Has(snap[At(p)])
     THEN /\ list' = [list EXCEPT ![At(p)] = snap[At(p)]]
          /\ snap' = [snap EXCEPT ![At(p)] = None]
          /\ acked' = acked \cap Msgs(snap[At(p)])
          /\ UNCHANGED <<row, counters>>
          /\ Note(p, p \in moved)
     ELSE UNCHANGED <<session, counters, acked, stale, moved, hurt>>
  /\ Goto(p, "done")
  /\ UNCHANGED <<req, locals, met, last, cut, cleared>>

DropTurn(p) ==
  /\ pc[p] = "drop"
  /\ IF Len(view[p]) < 2
     THEN UNCHANGED <<session, counters, acked, stale, moved, hurt>>
     ELSE Replace(p, SubSeq(view[p], 1, LastTurn(view[p])))
  /\ Goto(p, "done")
  /\ UNCHANGED <<req, locals, met, last, cut, cleared>>

-----------------------------------------------------------------------------
Leave(ps) ==
  /\ pc' = [p \in Procs |-> IF p \in ps THEN "idle" ELSE pc[p]]
  /\ req' = [p \in Procs |-> IF p \in ps THEN None ELSE req[p]]
  /\ round' = [p \in Procs |-> IF p \in ps THEN 0 ELSE round[p]]
  /\ view' = [p \in Procs |-> IF p \in ps THEN <<>> ELSE view[p]]
  /\ stale' = stale \ ps /\ moved' = moved \ ps

Finish(p) ==
  /\ pc[p] = "done"
  /\ last' = Kind(p)
  /\ Leave({p})
  /\ UNCHANGED <<session, counters, acked, hurt, met, cut, cleared>>

\* Between the write of a call and that of its result.
InRound == {"tools", "pad", "padWrite"}

\* A replica dies, or its pod is replaced: requests and caches are gone.
Crash(c) ==
  /\ MayFail /\ faults' = faults + 1
  /\ Has(list[c])
  /\ list' = [list EXCEPT ![c] = None] /\ snap' = [snap EXCEPT ![c] = None]
  /\ Leave({p \in Active : At(p) = c})
  /\ last' = "none" /\ cut' = (cut \/ \E p \in Active : At(p) = c /\ pc[p] \in InRound)
  /\ UNCHANGED <<row, requests, acked, hurt, met, cleared>>

Step(p) ==
  \/ Request(p) \/ GetRead(p) \/ GetSet(p) \/ AppendNamed(p) \/ Read(p) \/ Compact(p)
  \/ ModelFails(p) \/ ModelReplies(p) \/ ModelCalls(p) \/ ToolsAnswer(p) \/ LoopDetected(p)
  \/ PadRead(p) \/ PadWrite(p)
  \/ Clear(p) \/ Snapshot(p) \/ Trim(p) \/ Undo(p) \/ Restore(p) \/ DropTurn(p)
  \/ Finish(p)

Next == (\E p \in Procs : Step(p)) \/ (\E c \in Caches : Crash(c))

Spec == Init /\ [][Next]_vars

-----------------------------------------------------------------------------
\* Properties.

\* Every variable holds a value of its field.
TypeOK ==
  /\ row \in Lists \cup {None}
  /\ list \in [Caches -> Lists \cup {None}] /\ snap \in [Caches -> Lists \cup {None}]
  /\ pc \in [Procs -> {"idle", "get", "set", "user", "read", "compact", "model", "tools", "pad",
                        "padWrite", "clear", "retry", "trim", "undo", "restore", "drop", "done"}]
  /\ req \in [Procs -> [kind : AllKinds, at : Caches, id : Ids, no : 1..MaxRequests] \cup {None}]
  /\ \A p \in Active : req[p] # None
  /\ round \in [Procs -> 0..MaxRounds]
  /\ view \in [Procs -> Lists \cup {None}]
  /\ requests \in 0..MaxRequests /\ faults \in 0..MaxFaults
  /\ acked \subseteq Message /\ stale \subseteq Procs /\ moved \subseteq Procs
  /\ hurt \in BOOLEAN /\ met \in BOOLEAN /\ last \in AllKinds \cup {"none"}
  /\ cut \in BOOLEAN /\ cleared \in 0..MaxRequests

\* F8 and F9: no client message id and no message id is twice in a list that is
\* stored or cached, whatever replicas, retries, crashes and commands do.
Once(l) == Has(l) => \A i, j \in DOMAIN l : l[i] = l[j] /\ l[i].role \in {"user", "return"} => i = j
IdsUnique == Once(row) /\ \A c \in Caches : Once(list[c]) /\ Once(snap[c])

\* A message whose append came back is in the row until a command discards it,
\* also when other requests of its cache came between, or other caches wrote
\* before the request came: it takes a write that met another cache's, a read
\* that another write overtook, or a failed statement to lose one.
NothingLost == ~hurt => acked \subseteq (IF Has(row) THEN Msgs(row) ELSE {})

\* Among requests that do not meet: one call at most has no result, the latest,
\* and a plain turn leaves none, so that no indicator "Running tools" goes on for
\* ever, whatever replica died before.  And the history that is stored between
\* requests is one the provider accepts, its results next to their calls, over
\* turns that fail, run in circles or die elsewhere, trims, undos and appends -
\* as long as no process died in a tool round and no stream ran in circles: the
\* next turn's message then comes between the call and the result padded later,
\* and every turn is refused until a command cuts the call away.
CallsAnswered ==
  ~met /\ ~hurt /\ Has(row) =>
    /\ Orphans(row) \subseteq LatestCall(row)
    /\ last = "turn" => Orphans(row) = {}
    /\ ~cut /\ Active = {} => Accepted(row)

\* "every Get() reloads Messages from the store so a request served by pod B
\* sees writes made by pod A": what /new deleted does not come back.
ClearedStaysCleared ==
  ~met /\ Has(row) => \A m \in Msgs(row) : m.role \in {"reply", "call"} => m.id > cleared
=============================================================================
