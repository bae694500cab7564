------------------------------ MODULE MCAgent ------------------------------
(***************************************************************************)
(* What stands around a turn of the agent runtime, in one instance: the    *)
(* session it reads and writes, the group posts that start it, the files   *)
(* of its tools, the user space it is run in, and the chat page that shows *)
(* it.  These meet through a turn alone, which each of them models from    *)
(* its own side, so a behaviour runs one part; the others stay in an       *)
(* initial state.                                                          *)
(***************************************************************************)
EXTENDS AgentSession, UserSpaces, GroupRouting, ChatPage, Sandbox, TLC

VARIABLE part

all == <<part, vars, groupVars, fileVars, spaceVars, pageVars>>

\* Bounds: of requests that meet, two that run without a fault, a third only
\* where one is a turn and the other an append.
Meeting ==
  met' => /\ faults' = 0
          /\ \/ requests' <= 2
             \/ \A p, q \in {r \in Procs : pc'[r] # "idle"} :
                  p # q => {req'[p].kind, req'[q].kind} = {"turn", "append"}
\* Bound: files that a named hazard has lost are not followed further.
Followed == exposed = {}
\* Bound: the user does three things on the page, two where something fails.
SomeTaps == sent' + taps' <= (IF failures' = 0 /\ ~withdrawn' THEN 3 ELSE 2)

AllInit ==
  /\ part \in {"session", "groups", "files", "spaces", "page"}
  /\ Init /\ FilesInit /\ SpaceInit /\ PageInit
  /\ part # "page" => stored = [m \in Modes |-> NoSession] /\ mode = "free"
  /\ IF part = "groups"
     THEN GroupInit
     ELSE /\ bindings = <<>> /\ team = CHOOSE t \in Team : TRUE
          /\ posts = <<>> /\ delivered = {} /\ inbound = <<>> /\ seen = <<>>
          /\ heard = <<>> /\ asked = <<>>

AllNext ==
  \/ part = "session" /\ Next /\ Meeting /\ UNCHANGED <<part, groupVars, fileVars, spaceVars, pageVars>>
  \/ part = "groups" /\ GroupNext /\ UNCHANGED <<part, vars, fileVars, spaceVars, pageVars>>
  \/ part = "files" /\ Followed /\ FilesNext /\ UNCHANGED <<part, vars, groupVars, spaceVars, pageVars>>
  \/ part = "spaces" /\ SpaceNext /\ UNCHANGED <<part, vars, groupVars, fileVars, pageVars>>
  \/ part = "page" /\ PageNext /\ SomeTaps /\ UNCHANGED <<part, vars, groupVars, fileVars, spaceVars>>

AllSpec == AllInit /\ [][AllNext]_all

Symmetry == Permutations(Procs) \cup Permutations(Caches)

\* Every variable of the five parts holds a value of its field.
AllTypeOK ==
  TypeOK /\ (part = "groups" => GroupTypeOK) /\ FilesTypeOK /\ SpaceTypeOK /\ PageTypeOK
=============================================================================
