------------------------------ MODULE Sandbox ------------------------------
(***************************************************************************)
(* The files of an agent's sessions in fastclaw: the durable store the     *)
(* file tools write to, the E2B boxes the exec tool runs in, and what      *)
(* carries files between them (internal/sandbox/lifecycle.go over          *)
(* e2b_executor.go), under the turns of one agent, whose tool registry     *)
(* they share, while the user space the agent lives in is dropped and      *)
(* loaded again (UserSpaces).                                              *)
(*                                                                         *)
(* A session has one file; what a tool or a command writes to it is a new  *)
(* version, of one of two sizes.  Each load of the user's space makes an   *)
(* agent with a registry and a pool of its own.                            *)
(***************************************************************************)
EXTENDS Naturals, FiniteSets

CONSTANTS TurnIds, Sessions,
          MaxLoads,      \* bound: loads of the user's space
          MaxBoxes,      \* bound: boxes created
          MaxWrites,     \* bound: versions written
          MaxOutages,    \* bound: calls of E2B and of the store that fail
          IdleTTL,       \* ticks without a call after which a box is released
          Nothing        \* no box, no version, no session

Loads == 1..MaxLoads
Boxes == 1..MaxBoxes
Version == [no : 1..MaxWrites, size : {1, 2}]

ASSUME SandboxAssumption ==
  /\ MaxLoads \in Nat \ {0} /\ MaxBoxes \in Nat /\ MaxWrites \in Nat
  /\ MaxOutages \in Nat /\ IdleTTL \in Nat
  /\ Nothing \notin Sessions \cup Nat \cup [no : Nat, size : Nat]

VARIABLES space,              \* the load turns get
          registry,           \* per load: the session of its file tools and its executor
          store,              \* per session: the version in the workspace store
          running, disk,      \* boxes, and the version each has
          boxOf,              \* per executor, named by its first box: its box
          pool, idle,         \* per load and session: its executor, ticks since a call
          sweep,              \* per load: the sweeper, its session, and its snapshot
          doing, turn, call,  \* per turn: its step; session and load; tool call
          boxes, writes, outages, \* counters
          latest,             \* per session: the version written last
          exposed             \* sessions whose last version a named hazard may lose

boxing == <<running, disk, boxOf, pool, boxes>>
files == <<store, writes, latest>>
tools == <<registry, doing, turn, call>>
fileVars == <<space, boxing, files, tools, idle, sweep, outages, exposed>>

Running(b) == b \in running
MayGoWrong == outages < MaxOutages
NoCall == [scope |-> Nothing, ex |-> Nothing, seen |-> Nothing]
NoTurn == [session |-> Nothing, load |-> 0]

FilesInit ==
  /\ space = 1
  /\ registry = [g \in Loads |-> Nothing]
  /\ store = [s \in Sessions |-> Nothing]
  /\ running = {} /\ disk = [b \in Boxes |-> Nothing] /\ boxOf = [b \in Boxes |-> Nothing]
  /\ pool = [g \in Loads |-> [s \in Sessions |-> Nothing]]
  /\ idle = [g \in Loads |-> [s \in Sessions |-> Nothing]]
  /\ sweep = [g \in Loads |-> [at |-> "wait", session |-> Nothing, seen |-> Nothing]]
  /\ doing = [t \in TurnIds |-> "idle"] /\ turn = [t \in TurnIds |-> NoTurn]
  /\ call = [t \in TurnIds |-> NoCall]
  /\ boxes = 0 /\ writes = 0 /\ outages = 0
  /\ latest = [s \in Sessions |-> Nothing] /\ exposed = {}

Do(t, next) == doing' = [doing EXCEPT ![t] = next]

-----------------------------------------------------------------------------
\* The space is invalidated or idle, and loaded again by the next turn.  The
\* pool of the old one is not closed; turns that began before go on with it.
Reload ==
  /\ space < MaxLoads
  /\ space' = space + 1
  /\ UNCHANGED <<boxing, files, tools, idle, sweep, outages, exposed>>

\* bindSession at the top of a turn: the registry of the agent gets the session
\* of the file tools and its executor.
StartTurn(t, s) ==
  /\ doing[t] = "idle"
  /\ turn' = [turn EXCEPT ![t] = [session |-> s, load |-> space]]
  /\ registry' = [registry EXCEPT ![space] = s]
  /\ Do(t, "ready")
  /\ UNCHANGED <<space, boxing, files, call, idle, sweep, outages, exposed>>

LoadOf(t) == turn[t].load

EndTurn(t) ==
  /\ doing[t] = "ready"
  /\ turn' = [turn EXCEPT ![t] = NoTurn]
  /\ Do(t, "idle")
  /\ UNCHANGED <<space, boxing, files, registry, call, idle, sweep, outages, exposed>>

New(v) == writes < MaxWrites /\ v.no = writes + 1 /\ v.size \in {1, 2} /\ writes' = v.no

\* Boxes of a session that run, in whichever pool.
Holding(s) == {b \in running : \E g \in Loads : pool[g][s] # Nothing /\ boxOf[pool[g][s]] = b}
Calling(s) == {t \in TurnIds : call[t].scope = s}
AtWork(s) == Calling(s) # {} \/ \E g \in Loads : sweep[g].session = s

\* write_file: the store alone, in the scope the registry has by now.  A box
\* that runs keeps the version it has, and its next snapshot may store it again.
WriteFile(t) ==
  /\ doing[t] = "ready"
  /\ LET s == registry[LoadOf(t)] IN
     /\ \E v \in Version :
          /\ New(v)
          /\ store' = [store EXCEPT ![s] = v] /\ latest' = [latest EXCEPT ![s] = v]
     /\ exposed' = IF Holding(s) # {} \/ AtWork(s) THEN exposed \cup {s} ELSE exposed
  /\ UNCHANGED <<space, boxing, tools, idle, sweep, outages>>

-----------------------------------------------------------------------------
(* The exec tool, by the lazy executor of the registry.                    *)

\* What a file may be lost to: two at work on the files of one session.
Meets(g, s) == AtWork(s) \/ \E h \in Loads \ {g} : pool[h][s] # Nothing

\* getInner under the pool's lock,
Touch(t) ==
  /\ doing[t] = "ready"
  /\ LET g == LoadOf(t)
         s == registry[g]
     IN /\ call' = [call EXCEPT ![t] = [NoCall EXCEPT !.scope = s]]
        /\ idle' = [idle EXCEPT ![g][s] = 0]
        /\ exposed' = IF Meets(g, s) THEN exposed \cup {s} ELSE exposed
  /\ Do(t, "get")
  /\ UNCHANGED <<space, boxing, files, registry, turn, sweep, outages>>

\* What Hydrate puts in a box: its errors are logged, the box is used.
Hydrated(s, v) ==
  \/ v = store[s] /\ UNCHANGED <<outages, exposed>>
  \/ MayGoWrong /\ outages' = outages + 1 /\ v = Nothing /\ exposed' = exposed \cup {s}

\* newE2BExecutor and Hydrate, in the Get of the E2B pool, under its lock.
CreateBox(g, s) ==
  /\ boxes < MaxBoxes /\ boxes' = boxes + 1 /\ running' = running \cup {boxes + 1}
  /\ \E v \in Version \cup {Nothing} : Hydrated(s, v) /\ disk' = [disk EXCEPT ![boxes + 1] = v]
  /\ boxOf' = [boxOf EXCEPT ![boxes + 1] = boxes + 1]
  /\ pool' = [pool EXCEPT ![g][s] = boxes + 1]

\* Get of the pool: the executor there is, or a new one, or an error.
Pooled(g, s) == pool'[g][s]
GetBox(g, s) ==
  IF pool[g][s] # Nothing THEN UNCHANGED <<boxing, outages, exposed>> ELSE CreateBox(g, s)

GetExecutor(t) ==
  /\ doing[t] = "get"
  /\ \/ /\ GetBox(LoadOf(t), call[t].scope)
        /\ call' = [call EXCEPT ![t].ex = Pooled(LoadOf(t), call[t].scope)]
        /\ Do(t, "run")
     \/ /\ pool[LoadOf(t)][call[t].scope] = Nothing /\ MayGoWrong /\ outages' = outages + 1
        /\ call' = [call EXCEPT ![t] = NoCall] /\ Do(t, "ready")
        /\ UNCHANGED <<boxing, exposed>>
  /\ UNCHANGED <<space, files, registry, turn, idle, sweep>>

BoxAt(t) == boxOf[call[t].ex]

\* The command, in box b: it reads the file, or writes a version of it.
Command(t, b) ==
  \/ UNCHANGED <<disk, files>>
  \/ \E v \in Version :
       /\ New(v)
       /\ disk' = [disk EXCEPT ![b] = v] /\ latest' = [latest EXCEPT ![call[t].scope] = v]
       /\ UNCHANGED store

\* execOnce; a 502 may come after the command has run.
Run(t) ==
  /\ doing[t] = "run"
  /\ IF Running(BoxAt(t))
     THEN /\ Command(t, BoxAt(t))
          /\ \/ Do(t, "sync") /\ UNCHANGED outages
             \/ Do(t, "recreate") /\ MayGoWrong /\ outages' = outages + 1
     ELSE Do(t, "recreate") /\ UNCHANGED <<disk, files, outages>>
  /\ UNCHANGED <<space, running, boxOf, pool, boxes, registry, turn, call, idle, sweep, exposed>>

\* recreate: a new box for the executor.  What the old one had that was not
\* stored is gone, and if it still runs nobody will close it.
Recreate(t) ==
  /\ doing[t] = "recreate"
  /\ \/ /\ boxes < MaxBoxes /\ boxes' = boxes + 1 /\ running' = running \cup {boxes + 1}
        /\ disk' = [disk EXCEPT ![boxes + 1] = Nothing]
        /\ boxOf' = [boxOf EXCEPT ![call[t].ex] = boxes + 1]
        /\ exposed' = IF latest[call[t].scope] # store[call[t].scope] THEN exposed \cup {call[t].scope} ELSE exposed
        /\ Do(t, "rehydrate") /\ UNCHANGED outages
     \/ /\ MayGoWrong /\ outages' = outages + 1
        /\ exposed' = exposed \cup {call[t].scope}
        /\ Do(t, "sync") /\ UNCHANGED <<running, disk, boxOf, boxes>>
  /\ UNCHANGED <<space, files, pool, registry, turn, call, idle, sweep>>

\* Mutant: only /skills is filled again.
SkillsOnly(s) == Nothing
Restored(s) == store[s]

Rehydrate(t) ==
  /\ doing[t] = "rehydrate"
  /\ \/ /\ Running(BoxAt(t)) /\ UNCHANGED <<outages, exposed>>
        /\ disk' = [disk EXCEPT ![BoxAt(t)] = IF Restored(call[t].scope) = Nothing THEN @ ELSE Restored(call[t].scope)]
     \/ /\ MayGoWrong /\ outages' = outages + 1
        /\ exposed' = exposed \cup {call[t].scope} /\ UNCHANGED disk
     \/ ~Running(BoxAt(t)) /\ UNCHANGED <<disk, outages, exposed>>
  /\ Do(t, "rerun")
  /\ UNCHANGED <<space, running, boxOf, pool, boxes, files, registry, turn, call, idle, sweep>>

\* The command once more; whatever comes of it is the result.
Rerun(t) ==
  /\ doing[t] = "rerun"
  /\ IF Running(BoxAt(t)) THEN Command(t, BoxAt(t)) ELSE UNCHANGED <<disk, files>>
  /\ Do(t, "sync")
  /\ UNCHANGED <<space, running, boxOf, pool, boxes, registry, turn, call, idle, sweep, outages, exposed>>

\* syncSnapshot takes a snapshot, of nothing if the box is gone,
Seen(ex) == IF Running(boxOf[ex]) THEN disk[boxOf[ex]] ELSE Nothing

Lost(s, ex) == exposed' = IF ~Running(boxOf[ex]) /\ latest[s] # store[s] THEN exposed \cup {s} ELSE exposed

TakeSnapshot(t) ==
  /\ doing[t] = "sync"
  /\ call' = [call EXCEPT ![t].seen = Seen(call[t].ex)]
  /\ Lost(call[t].scope, call[t].ex)
  /\ Do(t, "put")
  /\ UNCHANGED <<space, boxing, files, registry, turn, idle, sweep, outages>>

SameSize(s, v) == IF store[s] = Nothing THEN FALSE ELSE store[s].size = v.size
Skipped(s, v) == IF v = Nothing THEN TRUE ELSE SameSize(s, v)

\* and stores it; errors are logged.
Put(s, v) ==
  \/ /\ Skipped(s, v)
     /\ exposed' = IF v \notin {Nothing, store[s]} /\ SameSize(s, v) THEN exposed \cup {s} ELSE exposed
     /\ UNCHANGED <<store, outages>>
  \/ /\ ~Skipped(s, v)
     /\ \/ store' = [store EXCEPT ![s] = v] /\ UNCHANGED <<outages, exposed>>
        \/ MayGoWrong /\ outages' = outages + 1 /\ exposed' = exposed \cup {s} /\ UNCHANGED store

PutBack(t) ==
  /\ doing[t] = "put"
  /\ Put(call[t].scope, call[t].seen)
  /\ call' = [call EXCEPT ![t] = NoCall]
  /\ Do(t, "ready")
  /\ UNCHANGED <<space, boxing, writes, latest, registry, turn, idle, sweep>>

-----------------------------------------------------------------------------
(* The sweeper of each pool, which goes on when its space is dropped.      *)

\* evictIdle takes the session out of the maps,
Evict(g, s) ==
  /\ sweep[g].at = "wait" /\ idle[g][s] # Nothing /\ idle[g][s] > IdleTTL
  /\ idle' = [idle EXCEPT ![g][s] = Nothing]
  /\ sweep' = [sweep EXCEPT ![g] = [at |-> "flush", session |-> s, seen |-> Nothing]]
  /\ exposed' = IF Meets(g, s) THEN exposed \cup {s} ELSE exposed
  /\ UNCHANGED <<space, boxing, files, tools, outages>>

\* takes a snapshot, in a box it creates if there is none,
Flush(g) ==
  /\ sweep[g].at = "flush"
  /\ \/ /\ GetBox(g, sweep[g].session)
        /\ sweep' = [sweep EXCEPT ![g].at = "put",
                                  ![g].seen = LET b == boxOf'[Pooled(g, sweep[g].session)]
                                              IN IF b \in running' THEN disk'[b] ELSE Nothing]
     \/ /\ pool[g][sweep[g].session] = Nothing
        /\ sweep' = [sweep EXCEPT ![g].at = "release"] /\ UNCHANGED <<boxing, outages, exposed>>
  /\ UNCHANGED <<space, files, tools, idle>>

FlushPut(g) ==
  /\ sweep[g].at = "put"
  /\ Put(sweep[g].session, sweep[g].seen)
  /\ sweep' = [sweep EXCEPT ![g].at = "release"]
  /\ UNCHANGED <<space, boxing, writes, latest, tools, idle>>

\* and releases the box; the DELETE may fail.
Release(g) ==
  /\ sweep[g].at = "release"
  /\ LET ex == pool[g][sweep[g].session] IN
     /\ pool' = [pool EXCEPT ![g][sweep[g].session] = Nothing]
     /\ \/ /\ running' = IF ex # Nothing THEN running \ {boxOf[ex]} ELSE running
           /\ UNCHANGED outages
        \/ ex # Nothing /\ MayGoWrong /\ outages' = outages + 1 /\ UNCHANGED running
  /\ sweep' = [sweep EXCEPT ![g] = [at |-> "wait", session |-> Nothing, seen |-> Nothing]]
  /\ UNCHANGED <<space, disk, boxOf, boxes, files, tools, idle, exposed>>

\* A box lives for the timeout it was created with, whoever uses it.
Expire(b) ==
  /\ Running(b)
  /\ running' = running \ {b} /\ disk' = [disk EXCEPT ![b] = Nothing]
  /\ UNCHANGED <<space, boxOf, pool, boxes, files, tools, idle, sweep, outages, exposed>>

TimePasses ==
  /\ \E g \in Loads, s \in Sessions : idle[g][s] # Nothing /\ idle[g][s] <= IdleTTL
  /\ idle' = [g \in Loads |-> [s \in Sessions |->
       IF idle[g][s] # Nothing /\ idle[g][s] <= IdleTTL THEN idle[g][s] + 1 ELSE idle[g][s]]]
  /\ UNCHANGED <<space, boxing, files, tools, sweep, outages, exposed>>

Tool(t) ==
  \/ WriteFile(t) \/ Touch(t) \/ GetExecutor(t) \/ Run(t) \/ Recreate(t) \/ Rehydrate(t) \/ Rerun(t)
  \/ TakeSnapshot(t) \/ PutBack(t)

FilesNext ==
  \/ Reload
  \/ \E t \in TurnIds : (\E s \in Sessions : StartTurn(t, s)) \/ EndTurn(t) \/ Tool(t)
  \/ \E g \in Loads : (\E s \in Sessions : Evict(g, s)) \/ Flush(g) \/ FlushPut(g) \/ Release(g)
  \/ (\E b \in Boxes : Expire(b)) \/ TimePasses

FilesSpec == FilesInit /\ [][FilesNext]_fileVars

-----------------------------------------------------------------------------
\* Properties.

\* Every variable holds a value of its field.
FilesTypeOK ==
  LET Box == Boxes \cup {Nothing}
      File == Version \cup {Nothing}
      Scope == Sessions \cup {Nothing}
  IN /\ space \in Loads /\ registry \in [Loads -> Scope]
     /\ store \in [Sessions -> File] /\ latest \in [Sessions -> File] /\ exposed \subseteq Sessions
     /\ running \subseteq Boxes /\ disk \in [Boxes -> File] /\ boxOf \in [Boxes -> Box]
     /\ pool \in [Loads -> [Sessions -> Box]] /\ idle \in [Loads -> [Sessions -> 0..(IdleTTL + 1) \cup {Nothing}]]
     /\ sweep \in [Loads -> [at : {"wait", "flush", "put", "release"}, session : Scope, seen : File]]
     /\ doing \in [TurnIds -> {"idle", "ready", "get", "run", "recreate", "rehydrate", "rerun", "sync", "put"}]
     /\ turn \in [TurnIds -> [session : Scope, load : 0..MaxLoads]]
     /\ call \in [TurnIds -> [scope : Scope, ex : Box, seen : File]]
     /\ boxes \in 0..MaxBoxes /\ writes \in 0..MaxWrites /\ outages \in 0..MaxOutages

\* The version written last is in the store once no call is at work on the
\* session, and in the box of the pool a command runs in, though boxes expire,
\* answer 502, are swept and made again: it takes one of the named hazards to
\* lose it (a box that runs while the file tool writes, two calls or pools or a
\* sweep at work on one session, a rewrite of the same size, a failed call, a
\* box that is gone before its snapshot).
WorkIsKept ==
  \A s \in Sessions \ exposed :
    /\ Calling(s) = {} => store[s] = latest[s]
    /\ \A t \in TurnIds : doing[t] \in {"run", "rerun"} /\ call[t].scope = s /\ Running(BoxAt(t))
                          => disk[BoxAt(t)] = latest[s]
=============================================================================
