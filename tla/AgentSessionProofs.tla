------------------------- MODULE AgentSessionProofs -------------------------
(***************************************************************************)
(* Theorems about AgentSession, for any processes, replicas and bounds.    *)
(* The argument: whatever is stored, cached, snapshotted or read holds no  *)
(* named message twice; a named message is appended only under the lock of *)
(* the list it is looked for in, and every other write puts back what some *)
(* process read, or a part of it.                                          *)
(***************************************************************************)
EXTENDS AgentSession, SequenceTheorems, WellFoundedInduction, TLAPS

Req == [kind : AllKinds, at : Caches, id : Ids, no : 1..MaxRequests]

\* The mark of absence is no list and no request.
NoneIsApart == None \notin Lists \cup Req

-----------------------------------------------------------------------------
(* Lists.                                                                  *)

Good(l) == l \in Lists /\ Once(l)
MaybeGood(l) == l = None \/ Good(l)

LEMMA EmptyIsGood == Good(<<>>)
  BY DEF Good, Lists, Once

\* A message that has no name, or is not there yet, may be appended.
LEMMA AppendIsGood ==
  ASSUME NEW l, Good(l), Has(l), NEW m \in Message, m.role \notin {"user", "return"} \/ m \notin Msgs(l)
  PROVE  Good(Append(l, m))
<1>1. /\ l \in Seq(Message) /\ Append(l, m) \in Seq(Message)
      /\ Len(Append(l, m)) = Len(l) + 1 /\ Append(l, m)[Len(l) + 1] = m
      /\ \A i \in 1..Len(l) : Append(l, m)[i] = l[i]
  BY AppendProperties DEF Good, Lists
<1>2. ASSUME NEW i \in 1..(Len(l) + 1), NEW j \in 1..(Len(l) + 1),
             Append(l, m)[i] = Append(l, m)[j], Append(l, m)[i].role \in {"user", "return"}
      PROVE  i = j
  <2>1. CASE i \in 1..Len(l) /\ j \in 1..Len(l)
    <3>1. l[i] = l[j] /\ l[i].role \in {"user", "return"} /\ i \in DOMAIN l /\ j \in DOMAIN l
      BY <1>1, <1>2, <2>1
    <3>. QED BY <3>1 DEF Good, Once
  <2>2. CASE i = Len(l) + 1 /\ j = Len(l) + 1
    BY <2>2
  <2>3. CASE i = Len(l) + 1 /\ j \in 1..Len(l)
    BY <1>1, <1>2, <2>3 DEF Msgs
  <2>4. CASE i \in 1..Len(l) /\ j = Len(l) + 1
    BY <1>1, <1>2, <2>4 DEF Msgs
  <2>. QED BY <1>1, <2>1, <2>2, <2>3, <2>4
<1>. QED BY <1>1, <1>2 DEF Good, Lists, Once

\* What is appended to is a list, and stays one.
LEMMA NoneIsNoAppend ==
  ASSUME NoneIsApart, NEW l, Good(l), NEW m \in Message
  PROVE  Has(Append(l, m))
<1>1. Append(l, m) \in Lists
  BY AppendProperties DEF Good, Lists
<1>. QED BY <1>1 DEF Has, NoneIsApart

\* So may the end of a list be cut off.
LEMMA PrefixIsGood ==
  ASSUME NEW l, Good(l), Has(l), NEW n \in 0..Len(l)
  PROVE  Good(SubSeq(l, 1, n)) /\ Msgs(SubSeq(l, 1, n)) \subseteq Msgs(l)
<1>1. l \in Seq(Message)
  BY DEF Good, Lists
<1>2. /\ SubSeq(l, 1, n) \in Seq(Message) /\ Len(SubSeq(l, 1, n)) = n
      /\ \A i \in 1..n : SubSeq(l, 1, n)[i] = l[i]
  BY <1>1, SubSeqProperties
<1>3. \A i \in 1..n : i \in DOMAIN l
  BY <1>1
<1>. QED BY <1>2, <1>3 DEF Good, Lists, Once, Msgs

\* A set of naturals that is not empty has a least member.
LEMMA LeastExists ==
  ASSUME NEW S \in SUBSET Nat, S # {}
  PROVE  \E n \in S : \A k \in S : n <= k
<1>1. PICK n \in S : \A k \in S : <<k, n>> \notin OpToRel(<, Nat)
  BY NatLessThanWellFounded, WFMin
<1>2. \A k \in S : ~(k < n)
  BY <1>1 DEF OpToRel
<1>. QED BY <1>2

\* Of some places in a list one is the last.
LEMMA LastPlace ==
  ASSUME NEW l \in Lists, NEW I \in SUBSET DOMAIN l, I # {}
  PROVE  \E i \in I : \A j \in I : j <= i
<1>. DEFINE S == {Len(l) - i : i \in I}
<1>1. I \subseteq 1..Len(l) /\ Len(l) \in Nat
  BY DEF Lists
<1>2. S \in SUBSET Nat /\ S # {}
  BY <1>1
<1>3. PICK n \in S : \A k \in S : n <= k
  BY <1>2, LeastExists
<1>4. PICK i \in I : n = Len(l) - i
  BY <1>3
<1>5. ASSUME NEW j \in I PROVE j <= i
  <2>1. Len(l) - j \in S
    OBVIOUS
  <2>2. n <= Len(l) - j
    BY <1>3, <2>1
  <2>. QED BY <1>1, <1>4, <2>2
<1>. QED BY <1>5

LEMMA LastUserIsThere ==
  ASSUME NEW l \in Lists, UserTurns(l) # {}
  PROVE  LastUser(l) \in 1..Len(l)
<1>1. UserTurns(l) \in SUBSET DOMAIN l /\ DOMAIN l = 1..Len(l)
  BY DEF UserTurns, Lists
<1>2. PICK i \in UserTurns(l) : \A j \in UserTurns(l) : j <= i
  BY <1>1, LastPlace
<1>. QED BY <1>1, <1>2 DEF LastUser

LEMMA LastTurnIsThere ==
  ASSUME NEW l \in Lists
  PROVE  LastTurn(l) \in 0..Len(l)
<1>. DEFINE S == {n \in 0..Len(l) : Replied(l, n)}
<1>1. Len(l) \in Nat /\ DOMAIN l = 1..Len(l)
  BY DEF Lists
<1>2. S \in SUBSET Nat /\ Len(l) \in S
  BY <1>1 DEF Replied
<1>3. PICK n \in S : \A k \in S : n <= k
  BY <1>2, LeastExists
<1>4. WithoutReplies(l) \in 0..Len(l)
  BY <1>1, <1>3 DEF WithoutReplies
<1>. QED BY <1>1, <1>4 DEF LastTurn

-----------------------------------------------------------------------------
(* The invariant.                                                          *)

Steps == {"idle", "get", "set", "user", "read", "compact", "model", "tools", "pad",
          "padWrite", "clear", "retry", "trim", "undo", "restore", "drop", "done"}
Before == {"idle", "get", "set", "user", "read", "compact", "undo"}    \* ... the first model call

Shared ==
  /\ MaybeGood(row)
  /\ list \in [Caches -> Lists \cup {None}] /\ snap \in [Caches -> Lists \cup {None}]
  /\ \A c \in Caches : MaybeGood(list[c]) /\ MaybeGood(snap[c])

Counts ==
  /\ requests \in 0..MaxRequests /\ faults \in 0..MaxFaults
  /\ acked \subseteq Message /\ stale \subseteq Procs /\ moved \subseteq Procs
  /\ hurt \in BOOLEAN /\ met \in BOOLEAN /\ last \in AllKinds \cup {"none"}
  /\ cut \in BOOLEAN /\ cleared \in 0..MaxRequests

Fields ==
  /\ pc \in [Procs -> Steps] /\ req \in [Procs -> Req \cup {None}]
  /\ round \in [Procs -> 0..MaxRounds] /\ view \in [Procs -> Lists \cup {None}]

\* What a process knows at each step.
Knows(p) ==
  /\ pc[p] # "idle" => req[p] \in Req
  /\ pc[p] \notin {"idle", "get", "set"} => Has(list[At(p)])
  /\ pc[p] # "set" => Has(view[p])
  /\ MaybeGood(view[p])
  /\ pc[p] \in Before => round[p] = 0
  /\ pc[p] \in {"model", "tools"} => round[p] < MaxRounds
  /\ pc[p] = "user" => Kind(p) \in Turns \cup {"append"}
  /\ pc[p] = "clear" => Kind(p) = "new"
  /\ pc[p] = "undo" => Kind(p) = "undo"
  /\ pc[p] = "read" => Kind(p) \in AllKinds \ {"append", "new"}
  /\ pc[p] = "trim" => UserTurns(view[p]) # {}

IInv == Shared /\ Counts /\ Fields /\ \A p \in Procs : Knows(p)

LEMMA InitIInv == ASSUME NoneIsApart PROVE Init => IInv
<1>. SUFFICES ASSUME Init PROVE IInv
  OBVIOUS
<1>0. Shared
  BY DEF Init, Shared, MaybeGood
<1>1. Counts
  <2>1. 0 \in 0..MaxRequests /\ 0 \in 0..MaxFaults
    BY BoundsAssumption
  <2>. QED BY <2>1 DEF Init, Counts
<1>2. Fields
  BY EmptyIsGood, BoundsAssumption DEF Init, Fields, Good, Steps
<1>3. \A p \in Procs : Knows(p)
  <2>1. Has(<<>>) /\ MaybeGood(<<>>)
    BY EmptyIsGood DEF Has, MaybeGood, Good, NoneIsApart
  <2>. SUFFICES ASSUME NEW p \in Procs PROVE Knows(p)
    OBVIOUS
  <2>2. pc[p] = "idle" /\ view[p] = <<>> /\ round[p] = 0
    BY DEF Init
  <2>. QED BY <2>1, <2>2 DEF Knows
<1>. QED BY <1>0, <1>1, <1>2, <1>3 DEF IInv

\* A write of p: its cache and perhaps the row hold the list it writes.
LEMMA SaveKeeps ==
  ASSUME IInv, NEW p \in Procs, pc[p] # "idle", NEW l, Good(l), Has(l), NEW raced \in BOOLEAN, Save(p, l, raced)
  PROVE  /\ Shared'
         /\ \A c \in Caches : Has(list[c]) => Has(list'[c])
         /\ Has(list'[At(p)])
         /\ faults' \in 0..MaxFaults /\ stale' \subseteq Procs /\ moved' \subseteq Procs
         /\ hurt' \in BOOLEAN /\ requests' = requests /\ snap' = snap
<1>1. At(p) \in Caches /\ l \in Lists
  BY DEF IInv, Knows, At, Req, Good
<1>2. /\ list' = [list EXCEPT ![At(p)] = l] /\ row' \in {row, l} /\ snap' = snap /\ requests' = requests
      /\ faults' = faults \/ (faults < MaxFaults /\ faults' = faults + 1)
      /\ stale' = stale \cup {q \in Active : At(q) # At(p)} /\ moved' = (moved \cup Active) \ {p}
      /\ hurt' = (hurt \/ raced \/ p \in stale \/ faults' # faults)
  BY DEF Save, Note, MayFail
<1>3. Shared'
  BY <1>1, <1>2 DEF IInv, Shared, MaybeGood
<1>4. Active \subseteq Procs
  BY DEF Active
<1>5. faults' \in 0..MaxFaults
  BY <1>2, BoundsAssumption DEF IInv, Counts
<1>. QED BY <1>1, <1>2, <1>3, <1>4, <1>5 DEF IInv, Counts, Shared

\* A process that moves on alone leaves the others what they knew.
LEMMA OthersKnow ==
  ASSUME IInv, NEW p \in Procs, NEW q \in Procs, q # p,
         pc'[q] = pc[q], req'[q] = req[q], round'[q] = round[q], view'[q] = view[q],
         \A c \in Caches : Has(list[c]) => Has(list'[c])
  PROVE  Knows(q)'
<1>1. Knows(q)
  BY DEF IInv
<1>. QED BY <1>1 DEF Knows, At, Kind, Req, Has, MaybeGood, Good, Once, UserTurns

\* What is appended is a message.
LEMMA TagIsMessage ==
  ASSUME IInv, NEW p \in Procs, pc[p] # "idle", NEW role \in Roles
  PROVE  Tag(p, role) \in Message /\ Tag(p, role).role = role
  BY DEF IInv, Knows, Fields, Tag, Message, Req

LEMMA NamedIsMessage ==
  ASSUME IInv, NEW p \in Procs, pc[p] # "idle"
  PROVE  Named(p) \in Message
  BY BoundsAssumption DEF IInv, Knows, Fields, Named, Message, Req, Roles

\* So it is enough to look at the process that takes the step.
LEMMA OneKnows ==
  ASSUME IInv, NEW p \in Procs, Shared', Counts',
         pc' = [pc EXCEPT ![p] = pc'[p]], pc'[p] \in Steps,
         req' = [req EXCEPT ![p] = req'[p]], req'[p] \in Req \cup {None},
         round' = [round EXCEPT ![p] = round'[p]], round'[p] \in 0..MaxRounds,
         view' = [view EXCEPT ![p] = view'[p]], view'[p] \in Lists \cup {None},
         \A c \in Caches : Has(list[c]) => Has(list'[c]),
         Knows(p)'
  PROVE  IInv'
<1>1. Fields'
  BY DEF IInv, Fields
<1>2. ASSUME NEW q \in Procs PROVE Knows(q)'
  <2>1. CASE q = p
    BY <2>1
  <2>2. CASE q # p
    <3>1. pc'[q] = pc[q] /\ req'[q] = req[q] /\ round'[q] = round[q] /\ view'[q] = view[q]
      BY <2>2 DEF IInv, Fields
    <3>. QED BY <2>2, <3>1, OthersKnow
  <2>. QED BY <2>1, <2>2
<1>. QED BY <1>1, <1>2 DEF IInv

\* An append by p of a message m, and where it goes then.
LEMMA AppendKeeps ==
  ASSUME NoneIsApart, IInv, NEW p \in Procs, pc[p] \notin {"idle", "get", "set"},
         NEW m \in Message, m.role \notin {"user", "return"} \/ m \notin Msgs(list[At(p)]),
         AppendMsg(p, m), met' = met, last' = last, cut' \in BOOLEAN, cleared' = cleared
  PROVE  /\ Shared' /\ Counts'
         /\ \A c \in Caches : Has(list[c]) => Has(list'[c])
         /\ Has(list'[At(p)])
<1>. DEFINE l == list[At(p)]
<1>1. At(p) \in Caches /\ Good(l) /\ Has(l)
  BY DEF IInv, Knows, Shared, MaybeGood, At, Req, Has
<1>2. Good(Append(l, m))
  BY <1>1, AppendIsGood
<1>3. Has(Append(l, m))
  BY <1>1, NoneIsNoAppend
<1>4. Save(p, Append(l, m), FALSE) /\ acked' = acked \cup {m}
  BY DEF AppendMsg
<1>. HIDE DEF l
<1>5. Counts'
  BY <1>2, <1>3, <1>4, SaveKeeps DEF IInv, Counts
<1>. QED BY <1>2, <1>3, <1>4, <1>5, SaveKeeps

\* A replacement by p with a part of what it read.
LEMMA ReplaceKeeps ==
  ASSUME IInv, NEW p \in Procs, pc[p] # "idle", NEW l, Good(l), Has(l),
         Replace(p, l), met' = met, last' = last, cut' \in BOOLEAN, cleared' = cleared
  PROVE  /\ Shared' /\ Counts'
         /\ \A c \in Caches : Has(list[c]) => Has(list'[c])
         /\ Has(list'[At(p)])
<1>1. Save(p, l, p \in moved) /\ acked' \subseteq acked /\ (p \in moved) \in BOOLEAN
  BY DEF Replace
<1>2. Counts'
  BY <1>1, SaveKeeps DEF IInv, Counts
<1>. QED BY <1>1, <1>2, SaveKeeps

\* What a process knows of itself while it is active.
LEMMA Itself ==
  ASSUME IInv, NEW p \in Procs, pc[p] # "idle"
  PROVE  /\ req[p] \in Req /\ At(p) \in Caches /\ Kind(p) \in AllKinds
         /\ pc[p] \notin {"get", "set"} => Has(list[At(p)]) /\ Good(list[At(p)])
         /\ pc[p] # "set" => Has(view[p]) /\ Good(view[p]) /\ view[p] \in Lists
         /\ MaybeGood(view[p]) /\ round[p] \in 0..MaxRounds
  BY DEF IInv, Knows, Fields, Shared, MaybeGood, Good, Has, At, Kind, Req

-----------------------------------------------------------------------------
(* The steps.                                                              *)

LEMMA RequestStep == ASSUME NoneIsApart, IInv, NEW p \in Procs, Request(p) PROVE IInv'
<1>1. /\ pc[p] = "idle" /\ pc' = [pc EXCEPT ![p] = "get"]
      /\ requests < MaxRequests /\ requests' = requests + 1
      /\ met' = (met \/ Active # {}) /\ last' = "none"
      /\ UNCHANGED <<row, list, snap, round, view, faults, acked, stale, moved, hurt, cut, cleared>>
  BY DEF Request, Goto, session, locals
<1>2. PICK r \in Req : req' = [req EXCEPT ![p] = r]
  <2>1. PICK k \in Kinds, c \in Caches, i \in Ids :
          req' = [req EXCEPT ![p] = [kind |-> k, at |-> c, id |-> i, no |-> requests + 1]]
    BY DEF Request
  <2>2. requests + 1 \in 1..MaxRequests
    BY <1>1, BoundsAssumption DEF IInv, Counts
  <2>. QED BY <2>1, <2>2, KindsAssumption DEF Req
<1>3. Shared' /\ Counts'
  BY <1>1, BoundsAssumption DEF IInv, Shared, Counts, MaybeGood, Good, Once
<1>4. Knows(p)'
  BY <1>1, <1>2 DEF IInv, Fields, Knows, Before, MaybeGood, Good, Once, Has
<1>. QED BY <1>1, <1>2, <1>3, <1>4, OneKnows DEF IInv, Fields, Steps

LEMMA GetReadStep == ASSUME NoneIsApart, IInv, NEW p \in Procs, GetRead(p) PROVE IInv'
<1>1. /\ pc[p] = "get" /\ pc' = [pc EXCEPT ![p] = "set"]
      /\ view' = [view EXCEPT ![p] = view'[p]] /\ view'[p] \in {row, None}
      /\ (faults' = faults \/ (faults < MaxFaults /\ faults' = faults + 1)) /\ hurt' \in BOOLEAN
      /\ stale' \subseteq stale /\ moved' \subseteq moved
      /\ UNCHANGED <<row, list, snap, req, round, requests, acked, met, last, cut, cleared>>
  BY DEF GetRead, Goto, MayFail, session, IInv, Fields, Counts
<1>2. Shared' /\ Counts'
  BY <1>1, BoundsAssumption DEF IInv, Shared, Counts, MaybeGood, Good, Once
<1>3. MaybeGood(view'[p])
  BY <1>1 DEF IInv, Shared, MaybeGood
<1>4. Knows(p)'
  BY <1>1, <1>3 DEF IInv, Fields, Knows, Before, Steps, MaybeGood, Good, Once
<1>5. view'[p] \in Lists \cup {None}
  BY <1>3 DEF MaybeGood, Good
<1>. QED BY <1>1, <1>2, <1>4, <1>5, OneKnows DEF IInv, Fields, Steps

\* Where Get and GetMessages are called from.
LEMMA GetSetGoes ==
  ASSUME NEW p \in Procs, GetSet(p)
  PROVE  \E next \in {"user", "clear", "undo", "read"} :
           /\ pc' = [pc EXCEPT ![p] = next]
           /\ next = "user" => Kind(p) \in Turns \cup {"append"}
           /\ next = "clear" => Kind(p) = "new"
           /\ next = "undo" => Kind(p) = "undo"
           /\ next = "read" => Kind(p) \notin {"append", "new"}
<1>. DEFINE next == CASE Kind(p) \in Turns \cup {"append"} -> "user" [] Kind(p) = "new" -> "clear"
                      [] Kind(p) = "undo" -> "undo" [] OTHER -> "read"
<1>1. pc' = [pc EXCEPT ![p] = next]
  BY DEF GetSet, Goto
<1>2. CASE Kind(p) \in Turns \cup {"append"}
  <2>1. Kind(p) # "new" /\ Kind(p) # "undo"
    BY <1>2 DEF Turns
  <2>2. next = "user"
    BY <1>2, <2>1
  <2>. QED BY <1>1, <1>2, <2>2
<1>3. CASE Kind(p) \notin Turns \cup {"append"} /\ Kind(p) = "new"
  <2>1. next = "clear"
    BY <1>3
  <2>. QED BY <1>1, <1>3, <2>1
<1>4. CASE Kind(p) \notin Turns \cup {"append"} /\ Kind(p) = "undo"
  <2>1. next = "undo"
    BY <1>4
  <2>. QED BY <1>1, <1>4, <2>1
<1>5. CASE Kind(p) \notin Turns \cup {"append", "new", "undo"}
  <2>1. next = "read"
    BY <1>5
  <2>. QED BY <1>1, <1>5, <2>1
<1>. QED BY <1>2, <1>3, <1>4, <1>5

LEMMA ReadGoes ==
  ASSUME IInv, NEW p \in Procs, Read(p)
  PROVE  \E next \in {"compact", "model", "drop", "retry"} :
           /\ pc' = [pc EXCEPT ![p] = next]
           /\ next = "drop" => Kind(p) = "undo"
           /\ next = "retry" => Kind(p) # "turn"
           /\ Kind(p) \in AllKinds
<1>. DEFINE next == CASE Kind(p) \in Turns \cup {"compact"} -> "compact" [] Kind(p) \in Reads -> "model"
                      [] Kind(p) = "undo" -> "drop" [] OTHER -> "retry"
<1>1. pc' = [pc EXCEPT ![p] = next] /\ Kind(p) \in AllKinds
  BY DEF Read, Goto, IInv, Knows
<1>2. CASE Kind(p) \in Turns \cup {"compact"}
  <2>1. Kind(p) # "undo" /\ Kind(p) \notin Reads
    BY <1>2 DEF Turns, Reads
  <2>2. next = "compact"
    BY <1>2, <2>1
  <2>. QED BY <1>1, <2>2
<1>3. CASE Kind(p) \in Reads
  <2>1. Kind(p) # "undo" /\ Kind(p) \notin Turns \cup {"compact"}
    BY <1>3 DEF Turns, Reads
  <2>2. next = "model"
    BY <1>3, <2>1
  <2>. QED BY <1>1, <2>2
<1>4. CASE Kind(p) \notin Turns \cup {"compact"} \cup Reads /\ Kind(p) = "undo"
  <2>1. next = "drop"
    BY <1>4
  <2>. QED BY <1>1, <1>4, <2>1
<1>5. CASE Kind(p) \notin Turns \cup {"compact", "undo"} \cup Reads
  <2>1. next = "retry" /\ Kind(p) # "turn"
    BY <1>5 DEF Turns
  <2>. QED BY <1>1, <2>1
<1>. QED BY <1>2, <1>3, <1>4, <1>5

LEMMA GetSetStep == ASSUME NoneIsApart, IInv, NEW p \in Procs, GetSet(p) PROVE IInv'
<1>0. PICK next \in {"user", "clear", "undo", "read"} :
        /\ pc' = [pc EXCEPT ![p] = next]
        /\ next = "user" => Kind(p) \in Turns \cup {"append"}
        /\ next = "clear" => Kind(p) = "new"
        /\ next = "undo" => Kind(p) = "undo"
        /\ next = "read" => Kind(p) \notin {"append", "new"}
  BY GetSetGoes
<1>1. /\ pc[p] = "set" /\ pc' = [pc EXCEPT ![p] = pc'[p]] /\ pc'[p] = next
      /\ list' = [list EXCEPT ![At(p)] = Reloaded(At(p), view[p])]
      /\ view' = [view EXCEPT ![p] = <<>>] /\ hurt' = (hurt \/ p \in moved)
      /\ UNCHANGED <<row, snap, req, round, requests, faults, acked, stale, moved, met, last, cut, cleared>>
  BY <1>0 DEF GetSet, counters, IInv, Fields
<1>2. Has(<<>>) /\ Good(<<>>) /\ <<>> \in Lists
  BY EmptyIsGood DEF Has, Good, NoneIsApart
<1>3. Good(Reloaded(At(p), view[p])) /\ Has(Reloaded(At(p), view[p])) /\ At(p) \in Caches
  BY <1>1, <1>2, Itself DEF Reloaded, IInv, Shared, MaybeGood, Has
<1>4. Shared'
  BY <1>1, <1>3 DEF IInv, Shared, MaybeGood, Good, Once
<1>5. Counts'
  BY <1>1 DEF IInv, Counts
<1>6. \A c \in Caches : Has(list[c]) => Has(list'[c])
  BY <1>1, <1>3 DEF IInv, Shared
<1>7. Kind(p)' = Kind(p) /\ At(p)' = At(p) /\ Kind(p) \in AllKinds /\ req[p] \in Req
  BY <1>1, Itself DEF Kind, At
<1>8. round'[p] = 0 /\ view'[p] = <<>> /\ Has(list'[At(p)]) /\ pc'[p] \in {"user", "clear", "undo", "read"}
  BY <1>1, <1>3 DEF IInv, Knows, Before, Fields, Shared
<1>9. Knows(p)'
  BY <1>0, <1>1, <1>2, <1>7, <1>8 DEF Knows, MaybeGood, Before
<1>. QED BY <1>1, <1>2, <1>4, <1>5, <1>6, <1>8, <1>9, OneKnows DEF IInv, Fields, Steps

LEMMA AppendNamedStep == ASSUME NoneIsApart, IInv, NEW p \in Procs, AppendNamed(p) PROVE IInv'
<1>1. /\ pc[p] = "user" /\ pc' = [pc EXCEPT ![p] = pc'[p]] /\ AppendIfAbsent(p, Named(p))
      /\ pc'[p] = IF Kind(p) = "append" THEN "done" ELSE "read"
      /\ UNCHANGED <<req, round, view, met, last, cut, cleared>>
  BY DEF AppendNamed, Goto, locals, IInv, Fields
<1>2. /\ Shared' /\ Counts' /\ Has(list'[At(p)])
      /\ \A c \in Caches : Has(list[c]) => Has(list'[c])
  <2>1. CASE Named(p) \in Msgs(list[At(p)])
    <3>1. UNCHANGED <<row, list, snap, requests, faults, acked, stale, moved, hurt, met, last, cut, cleared>>
      BY <1>1, <2>1 DEF AppendIfAbsent, Found, session, counters
    <3>. QED BY <1>1, <3>1, Itself DEF IInv, Shared, Counts, MaybeGood, Good, Once
  <2>2. CASE Named(p) \notin Msgs(list[At(p)])
    <3>1. AppendMsg(p, Named(p))
      BY <1>1, <2>2 DEF AppendIfAbsent, Found
    <3>2. cut' \in BOOLEAN
      BY <1>1 DEF IInv, Counts
    <3>. QED BY <1>1, <2>2, <3>1, <3>2, AppendKeeps, NamedIsMessage
  <2>. QED BY <2>1, <2>2
<1>3. Kind(p)' = Kind(p) /\ At(p)' = At(p) /\ Kind(p) \in Turns \cup {"append"}
  BY <1>1 DEF Kind, At, IInv, Knows
<1>4. Knows(p)'
  BY <1>1, <1>2, <1>3, Itself DEF IInv, Knows, Before, MaybeGood, Good, Once, AllKinds, Turns
<1>. QED BY <1>1, <1>2, <1>4, OneKnows DEF IInv, Fields, Steps

LEMMA ReadStep == ASSUME NoneIsApart, IInv, NEW p \in Procs, Read(p) PROVE IInv'
<1>0. PICK next \in {"compact", "model", "drop", "retry"} :
        /\ pc' = [pc EXCEPT ![p] = next]
        /\ next = "drop" => Kind(p) = "undo"
        /\ next = "retry" => Kind(p) # "turn"
        /\ Kind(p) \in AllKinds
  BY ReadGoes
<1>1. /\ pc[p] = "read" /\ pc' = [pc EXCEPT ![p] = pc'[p]] /\ pc'[p] = next
      /\ view' = [view EXCEPT ![p] = list[At(p)]] /\ moved' \subseteq moved
      /\ UNCHANGED <<row, list, snap, req, round, requests, faults, acked, stale, hurt, met, last, cut, cleared>>
  BY <1>0 DEF Read, session, counters, IInv, Fields
<1>2. Shared' /\ Counts'
  BY <1>1 DEF IInv, Shared, Counts, MaybeGood, Good, Once
<1>3. Kind(p)' = Kind(p) /\ At(p)' = At(p) /\ Kind(p) \in AllKinds \ {"append", "new"}
  BY <1>1 DEF Kind, At, IInv, Knows
<1>4. pc'[p] \in {"compact", "model", "retry", "drop"} /\ round'[p] = 0 /\ 0 < MaxRounds
  BY <1>0, <1>1, BoundsAssumption DEF IInv, Knows, Before
<1>5. view'[p] = list[At(p)] /\ Has(list[At(p)]) /\ Good(list[At(p)]) /\ list[At(p)] \in Lists
  BY <1>1, Itself DEF IInv, Fields, Good
<1>6. Knows(p)'
  BY <1>1, <1>3, <1>4, <1>5, Itself DEF Knows, Before, MaybeGood, Good, Once, Has
<1>. QED BY <1>1, <1>2, <1>4, <1>5, <1>6, OneKnows DEF IInv, Fields, Steps

LEMMA CompactStep == ASSUME NoneIsApart, IInv, NEW p \in Procs, Compact(p) PROVE IInv'
<1>1. /\ pc[p] = "compact" /\ pc' = [pc EXCEPT ![p] = pc'[p]] /\ pc'[p] \in {"model", "done"}
      /\ Replace(p, view[p]) \/ UNCHANGED <<row, list, snap, requests, faults, acked, stale, moved, hurt>>
      /\ UNCHANGED <<req, round, view, met, last, cut, cleared>>
  BY DEF Compact, Goto, session, counters, locals, IInv, Fields
<1>2. /\ Shared' /\ Counts' /\ Has(list'[At(p)])
      /\ \A c \in Caches : Has(list[c]) => Has(list'[c])
  BY <1>1, ReplaceKeeps, Itself DEF IInv, Shared, Counts, MaybeGood, Good, Once
<1>3. round[p] = 0 /\ 0 < MaxRounds
  BY <1>1, BoundsAssumption DEF IInv, Knows, Before
<1>4. Knows(p)'
  BY <1>1, <1>2, <1>3, Itself DEF Knows, Before, At, MaybeGood, Good, Once, Has
<1>. QED BY <1>1, <1>2, <1>4, OneKnows DEF IInv, Fields, Steps

\* The model fails, replies, or calls a tool.
LEMMA ModelStep ==
  ASSUME NoneIsApart, IInv, NEW p \in Procs, ModelFails(p) \/ ModelReplies(p) \/ LoopDetected(p)
  PROVE  IInv'
<1>1. /\ pc[p] \in {"model", "tools"} /\ pc' = [pc EXCEPT ![p] = pc'[p]] /\ pc'[p] \in {"pad", "done"}
      /\ UNCHANGED <<req, round, view, met, last, cleared>> /\ cut' \in BOOLEAN
      /\ \/ AppendMsg(p, Tag(p, "reply")) \/ AppendMsg(p, Tag(p, "warn"))
         \/ UNCHANGED <<row, list, snap, requests, faults, acked, stale, moved, hurt>>
  BY DEF ModelFails, ModelReplies, LoopDetected, Model, End, Goto, locals, session, counters, history, IInv, Fields, Counts
<1>2. Tag(p, "reply") \in Message /\ Tag(p, "reply").role = "reply" /\ Tag(p, "warn") \in Message /\ Tag(p, "warn").role = "warn"
  BY <1>1, TagIsMessage DEF Roles
<1>3. /\ Shared' /\ Counts' /\ Has(list'[At(p)])
      /\ \A c \in Caches : Has(list[c]) => Has(list'[c])
  <2>1. CASE UNCHANGED <<row, list, snap, requests, faults, acked, stale, moved, hurt>>
    BY <1>1, <2>1, Itself DEF IInv, Shared, Counts, MaybeGood, Good, Once
  <2>2. CASE AppendMsg(p, Tag(p, "reply")) \/ AppendMsg(p, Tag(p, "warn"))
    BY <1>1, <1>2, <2>2, AppendKeeps
  <2>. QED BY <1>1, <2>1, <2>2
<1>4. Knows(p)'
  BY <1>1, <1>3, Itself DEF Knows, Before, At, MaybeGood, Good, Once, Has
<1>. QED BY <1>1, <1>3, <1>4, OneKnows DEF IInv, Fields, Steps

LEMMA ToolStep ==
  ASSUME NoneIsApart, IInv, NEW p \in Procs, ModelCalls(p) \/ ToolsAnswer(p)
  PROVE  IInv'
<1>1. PICK role \in {"call", "tool"} :
        /\ pc[p] \in {"model", "tools"} /\ pc' = [pc EXCEPT ![p] = pc'[p]]
        /\ AppendMsg(p, Tag(p, role)) /\ view' = [view EXCEPT ![p] = Append(view[p], Tag(p, role))]
        /\ UNCHANGED <<req, met, last, cut, cleared>>
        /\ \/ round' = round /\ pc'[p] = "tools"
           \/ /\ round' = [round EXCEPT ![p] = round[p] + 1]
              /\ (pc'[p] = "model" /\ RoundsLeft(p)) \/ pc'[p] \in {"pad", "done"}
  BY DEF ModelCalls, ToolsAnswer, Model, End, Goto, IInv, Fields
<1>2. Tag(p, role) \in Message /\ Tag(p, role).role = role
  BY <1>1, TagIsMessage DEF Roles
<1>3. /\ Shared' /\ Counts' /\ Has(list'[At(p)])
      /\ \A c \in Caches : Has(list[c]) => Has(list'[c])
  <2>1. cut' \in BOOLEAN
    BY <1>1 DEF IInv, Counts
  <2>. QED BY <1>1, <1>2, <2>1, AppendKeeps
<1>4. Good(view'[p]) /\ Has(view'[p]) /\ view'[p] \in Lists
  <2>1. Good(view[p]) /\ Has(view[p]) /\ view'[p] = Append(view[p], Tag(p, role))
    BY <1>1, Itself DEF IInv, Fields
  <2>. QED BY <1>2, <2>1, AppendIsGood, NoneIsNoAppend DEF Good
<1>5. round[p] \in Nat /\ round[p] < MaxRounds
  BY <1>1 DEF IInv, Knows, Fields
<1>6. round'[p] \in 0..MaxRounds /\ (pc'[p] \in {"model", "tools"} => round'[p] < MaxRounds)
  BY <1>1, <1>5, BoundsAssumption DEF RoundsLeft, IInv, Fields
<1>7. Knows(p)'
  BY <1>1, <1>3, <1>4, <1>6, Itself DEF Knows, Before, At, MaybeGood
<1>8. round' = [round EXCEPT ![p] = round'[p]] /\ view' = [view EXCEPT ![p] = view'[p]] /\ pc'[p] \in Steps
  BY <1>1 DEF IInv, Fields, Steps
<1>9. req' = [req EXCEPT ![p] = req'[p]] /\ req'[p] \in Req \cup {None}
  BY <1>1 DEF IInv, Fields
<1>. QED BY <1>1, <1>3, <1>4, <1>6, <1>7, <1>8, <1>9, OneKnows

LEMMA PadReadStep == ASSUME NoneIsApart, IInv, NEW p \in Procs, PadRead(p) PROVE IInv'
<1>1. /\ pc[p] = "pad" /\ pc' = [pc EXCEPT ![p] = "padWrite"]
      /\ view' = [view EXCEPT ![p] = list[At(p)]]
      /\ UNCHANGED <<row, list, snap, req, round, requests, faults, acked, stale, moved, hurt, met, last, cut, cleared>>
  BY DEF PadRead, Goto, session, counters, history
<1>2. Shared' /\ Counts'
  BY <1>1 DEF IInv, Shared, Counts, MaybeGood, Good, Once
<1>3. view'[p] = list[At(p)] /\ Has(list[At(p)]) /\ Good(list[At(p)]) /\ list[At(p)] \in Lists
  BY <1>1, Itself DEF IInv, Fields, Good
<1>4. Knows(p)'
  BY <1>1, <1>3, Itself DEF Knows, Before, At, MaybeGood, Good, Once, Has, IInv, Fields
<1>. QED BY <1>1, <1>2, <1>3, <1>4, OneKnows DEF IInv, Fields, Steps

\* What the padding appends is a message.
LEMMA PadIsMessage ==
  ASSUME IInv, NEW p \in Procs, pc[p] = "padWrite", NEW i \in Unanswered(view[p])
  PROVE  /\ view[p][i] \in Message
         /\ Result(view[p][i]) \in Message /\ Result(view[p][i]).role = "tool"
<1>1. i \in DOMAIN view[p] /\ view[p] \in Seq(Message)
  BY Itself DEF Unanswered, Orphans, Calls, Lists
<1>2. view[p][i] \in Message
  BY <1>1
<1>. QED BY <1>2 DEF Message, Roles, Result

LEMMA PadWriteStep == ASSUME NoneIsApart, IInv, NEW p \in Procs, PadWrite(p) PROVE IInv'
<1>1. /\ pc[p] = "padWrite" /\ pc' = [pc EXCEPT ![p] = "done"]
      /\ UNCHANGED <<req, round, view, met, last, cut, cleared>>
      /\ \/ UNCHANGED <<row, list, snap, requests, faults, acked, stale, moved, hurt>>
         \/ \E i \in Unanswered(view[p]) : AppendMsg(p, Result(view[p][i]))
  BY DEF PadWrite, Goto, locals, session, counters
<1>2. \A i \in Unanswered(view[p]) : Result(view[p][i]) \in Message /\ Result(view[p][i]).role = "tool"
  BY <1>1, PadIsMessage
<1>3. /\ Shared' /\ Counts' /\ Has(list'[At(p)])
      /\ \A c \in Caches : Has(list[c]) => Has(list'[c])
  <2>1. CASE UNCHANGED <<row, list, snap, requests, faults, acked, stale, moved, hurt>>
    BY <1>1, <2>1, Itself DEF IInv, Shared, Counts, MaybeGood, Good, Once
  <2>2. ASSUME NEW i \in Unanswered(view[p]), AppendMsg(p, Result(view[p][i]))
        PROVE  /\ Shared' /\ Counts' /\ Has(list'[At(p)])
               /\ \A c \in Caches : Has(list[c]) => Has(list'[c])
    <3>1. cut' \in BOOLEAN
      BY <1>1 DEF IInv, Counts
    <3>. QED BY <1>1, <1>2, <2>2, <3>1, AppendKeeps
  <2>. QED BY <1>1, <2>1, <2>2
<1>4. Knows(p)'
  BY <1>1, <1>3, Itself DEF Knows, Before, At, MaybeGood, Good, Once, Has, IInv, Fields
<1>. QED BY <1>1, <1>3, <1>4, OneKnows DEF IInv, Fields, Steps

\* /new, /retry and /undo.
LEMMA ClearStep == ASSUME NoneIsApart, IInv, NEW p \in Procs, Clear(p) PROVE IInv'
<1>1. /\ pc[p] = "clear" /\ pc' = [pc EXCEPT ![p] = "done"]
      /\ list' = [list EXCEPT ![At(p)] = <<>>] /\ row' \in {None, row} /\ snap' = snap
      /\ (faults' = faults \/ (faults < MaxFaults /\ faults' = faults + 1)) /\ acked' = {}
      /\ stale' = stale \cup {q \in Active : At(q) # At(p)} /\ moved' = (moved \cup Active) \ {p}
      /\ hurt' = (hurt \/ FALSE \/ p \in stale \/ faults' # faults)
      /\ cleared' \in {cleared, req[p].no}
      /\ UNCHANGED <<req, round, view, requests, met, last, cut>>
  BY DEF Clear, Goto, Note, MayFail, locals
<1>2. Has(<<>>) /\ Good(<<>>) /\ <<>> \in Lists /\ At(p) \in Caches /\ req[p].no \in 1..MaxRequests
  BY <1>1, EmptyIsGood, Itself DEF Has, Good, NoneIsApart, Req
<1>3. Shared' /\ \A c \in Caches : Has(list[c]) => Has(list'[c])
  BY <1>1, <1>2 DEF IInv, Shared, MaybeGood, Good, Once
<1>4. Counts'
  <2>1. Active \subseteq Procs
    BY DEF Active
  <2>. QED BY <1>1, <1>2, <2>1, BoundsAssumption DEF IInv, Counts
<1>5. Knows(p)'
  BY <1>1, <1>2, Itself DEF Knows, Before, At, MaybeGood, Good, Once, Has, IInv, Fields, Shared
<1>. QED BY <1>1, <1>3, <1>4, <1>5, OneKnows DEF IInv, Fields, Steps

LEMMA SnapshotStep == ASSUME NoneIsApart, IInv, NEW p \in Procs, Snapshot(p) PROVE IInv'
<1>1. /\ pc[p] = "retry" /\ pc' = [pc EXCEPT ![p] = pc'[p]] /\ pc'[p] \in {"done", "trim"}
      /\ pc'[p] = "trim" => UserTurns(view[p]) # {}
      /\ snap' = snap \/ snap' = [snap EXCEPT ![At(p)] = list[At(p)]]
      /\ UNCHANGED <<row, list, req, round, view, requests, faults, acked, stale, moved, hurt, met, last, cut, cleared>>
  BY DEF Snapshot, Goto, locals, counters, history, IInv, Fields
<1>2. Shared' /\ Counts'
  BY <1>1, Itself DEF IInv, Shared, Counts, MaybeGood, Good, Once
<1>3. Knows(p)'
  BY <1>1, Itself DEF Knows, Before, At, MaybeGood, Good, Once, Has, UserTurns
<1>. QED BY <1>1, <1>2, <1>3, OneKnows DEF IInv, Fields, Steps

LEMMA TrimStep == ASSUME NoneIsApart, IInv, NEW p \in Procs, Trim(p) PROVE IInv'
<1>. DEFINE l == SubSeq(view[p], 1, LastUser(view[p]) - 1)
<1>1. /\ pc[p] = "trim" /\ pc' = [pc EXCEPT ![p] = "done"] /\ Replace(p, l)
      /\ UNCHANGED <<req, round, view, met, last, cut, cleared>>
  BY DEF Trim, Goto, locals
<1>2. Good(view[p]) /\ Has(view[p]) /\ view[p] \in Lists /\ UserTurns(view[p]) # {}
  BY <1>1, Itself DEF IInv, Knows
<1>3. Len(view[p]) \in Nat
  BY <1>2 DEF Lists
<1>4. LastUser(view[p]) - 1 \in 0..Len(view[p])
  BY <1>2, <1>3, LastUserIsThere
<1>5. Good(l)
  BY <1>2, <1>4, PrefixIsGood
<1>6. Has(l)
  BY <1>5 DEF Good, Has, NoneIsApart
<1>. HIDE DEF l
<1>7. /\ Shared' /\ Counts' /\ Has(list'[At(p)])
      /\ \A c \in Caches : Has(list[c]) => Has(list'[c])
  <2>1. cut' \in BOOLEAN
    BY <1>1 DEF IInv, Counts
  <2>. QED BY <1>1, <1>5, <1>6, <2>1, ReplaceKeeps
<1>8. Knows(p)'
  BY <1>1, <1>7, Itself DEF Knows, Before, At, MaybeGood, Good, Once, Has, IInv, Fields
<1>. QED BY <1>1, <1>7, <1>8, OneKnows DEF IInv, Fields, Steps

LEMMA UndoStep == ASSUME NoneIsApart, IInv, NEW p \in Procs, Undo(p) PROVE IInv'
<1>1. /\ pc[p] = "undo" /\ pc' = [pc EXCEPT ![p] = pc'[p]] /\ pc'[p] \in {"restore", "read"} /\ Kind(p) = "undo"
      /\ UNCHANGED <<row, list, snap, req, round, view, requests, faults, acked, stale, moved, hurt, met, last, cut, cleared>>
  BY DEF Undo, Goto, session, locals, counters, history, IInv, Fields, Knows
<1>2. Shared' /\ Counts'
  BY <1>1 DEF IInv, Shared, Counts, MaybeGood, Good, Once
<1>3. round[p] = 0 /\ Kind(p) \in AllKinds
  BY <1>1, Itself DEF IInv, Knows, Before
<1>4. Knows(p)'
  BY <1>1, <1>3, Itself DEF Knows, Before, At, Kind, MaybeGood, Good, Once, Has
<1>. QED BY <1>1, <1>2, <1>4, OneKnows DEF IInv, Fields, Steps

LEMMA RestoreStep == ASSUME NoneIsApart, IInv, NEW p \in Procs, Restore(p) PROVE IInv'
<1>1. /\ pc[p] = "restore" /\ pc' = [pc EXCEPT ![p] = "done"]
      /\ UNCHANGED <<req, round, view, met, last, cut, cleared>>
  BY DEF Restore, Goto, locals
<1>2. /\ Shared' /\ Counts' /\ Has(list'[At(p)])
      /\ \A c \in Caches : Has(list[c]) => Has(list'[c])
  <2>1. CASE Has(snap[At(p)])
    <3>1. /\ list' = [list EXCEPT ![At(p)] = snap[At(p)]]
          /\ snap' = [snap EXCEPT ![At(p)] = None]
          /\ acked' = acked \cap Msgs(snap[At(p)]) /\ UNCHANGED <<row, requests, faults>>
          /\ stale' = stale \cup {q \in Active : At(q) # At(p)} /\ moved' = (moved \cup Active) \ {p}
          /\ hurt' = (hurt \/ p \in moved \/ p \in stale \/ faults' # faults)
      BY <2>1 DEF Restore, Note, counters
    <3>2. At(p) \in Caches /\ Good(snap[At(p)]) /\ snap[At(p)] \in Lists
      BY <1>1, <2>1, Itself DEF IInv, Shared, MaybeGood, Has, Good
    <3>3. Shared'
      BY <3>1, <3>2 DEF IInv, Shared, MaybeGood, Good, Once
    <3>4. Counts'
      <4>1. Active \subseteq Procs
        BY DEF Active
      <4>. QED BY <1>1, <3>1, <4>1 DEF IInv, Counts
    <3>5. Has(list'[At(p)]) /\ \A c \in Caches : Has(list[c]) => Has(list'[c])
      BY <2>1, <3>1, <3>2 DEF IInv, Shared
    <3>. QED BY <3>3, <3>4, <3>5
  <2>2. CASE ~Has(snap[At(p)])
    <3>1. UNCHANGED <<row, list, snap, requests, faults, acked, stale, moved, hurt>>
      BY <2>2 DEF Restore, session, counters
    <3>. QED BY <1>1, <3>1, Itself DEF IInv, Shared, Counts, MaybeGood, Good, Once
  <2>. QED BY <2>1, <2>2
<1>3. Knows(p)'
  BY <1>1, <1>2, Itself DEF Knows, Before, At, MaybeGood, Good, Once, Has, IInv, Fields
<1>. QED BY <1>1, <1>2, <1>3, OneKnows DEF IInv, Fields, Steps

LEMMA DropTurnStep == ASSUME NoneIsApart, IInv, NEW p \in Procs, DropTurn(p) PROVE IInv'
<1>. DEFINE l == SubSeq(view[p], 1, LastTurn(view[p]))
<1>1. /\ pc[p] = "drop" /\ pc' = [pc EXCEPT ![p] = "done"]
      /\ UNCHANGED <<req, round, view, met, last, cut, cleared>>
  BY DEF DropTurn, Goto, locals
<1>2. /\ Shared' /\ Counts' /\ Has(list'[At(p)])
      /\ \A c \in Caches : Has(list[c]) => Has(list'[c])
  <2>1. CASE Len(view[p]) < 2
    <3>1. UNCHANGED <<row, list, snap, requests, faults, acked, stale, moved, hurt>>
      BY <2>1 DEF DropTurn, session, counters
    <3>. QED BY <1>1, <3>1, Itself DEF IInv, Shared, Counts, MaybeGood, Good, Once
  <2>2. CASE ~(Len(view[p]) < 2)
    <3>1. Replace(p, l)
      BY <2>2 DEF DropTurn
    <3>2. Good(view[p]) /\ Has(view[p]) /\ view[p] \in Lists
      BY <1>1, Itself
    <3>3. Good(l)
      BY <3>2, LastTurnIsThere, PrefixIsGood
    <3>4. Has(l)
      BY <3>3 DEF Good, Has, NoneIsApart
    <3>. HIDE DEF l
    <3>. QED BY <1>1, <3>1, <3>3, <3>4, ReplaceKeeps DEF IInv, Counts
  <2>. QED BY <2>1, <2>2
<1>3. Knows(p)'
  BY <1>1, <1>2, Itself DEF Knows, Before, At, MaybeGood, Good, Once, Has, IInv, Fields
<1>. QED BY <1>1, <1>2, <1>3, OneKnows DEF IInv, Fields, Steps

\* Processes that leave, of their own or with their replica.
LEMMA LeaveKeeps ==
  ASSUME NoneIsApart, IInv, NEW ps \in SUBSET Procs, Leave(ps),
         \A q \in Procs \ ps : pc[q] # "idle" => list'[At(q)] = list[At(q)]
  PROVE  Fields' /\ \A q \in Procs : Knows(q)'
<1>1. /\ pc' = [q \in Procs |-> IF q \in ps THEN "idle" ELSE pc[q]]
      /\ req' = [q \in Procs |-> IF q \in ps THEN None ELSE req[q]]
      /\ round' = [q \in Procs |-> IF q \in ps THEN 0 ELSE round[q]]
      /\ view' = [q \in Procs |-> IF q \in ps THEN <<>> ELSE view[q]]
  BY DEF Leave
<1>2. Has(<<>>) /\ Good(<<>>) /\ <<>> \in Lists
  BY EmptyIsGood DEF Has, Good, NoneIsApart
<1>3. Fields'
  BY <1>1, <1>2, BoundsAssumption DEF IInv, Fields, Steps
<1>4. ASSUME NEW q \in Procs PROVE Knows(q)'
  <2>1. CASE q \in ps
    <3>1. pc'[q] = "idle" /\ view'[q] = <<>> /\ round'[q] = 0
      BY <1>1, <2>1
    <3>. QED BY <1>2, <3>1 DEF Knows, MaybeGood
  <2>2. CASE q \notin ps
    <3>1. pc'[q] = pc[q] /\ req'[q] = req[q] /\ round'[q] = round[q] /\ view'[q] = view[q]
      BY <1>1, <2>2
    <3>2. Knows(q) /\ (pc[q] # "idle" => list'[At(q)] = list[At(q)])
      BY <2>2 DEF IInv
    <3>. QED BY <3>1, <3>2 DEF Knows, At, Kind, Req, Has, MaybeGood, Good, Once, UserTurns
  <2>. QED BY <2>1, <2>2
<1>. QED BY <1>3, <1>4

LEMMA FinishStep == ASSUME NoneIsApart, IInv, NEW p \in Procs, Finish(p) PROVE IInv'
<1>1. /\ pc[p] = "done" /\ last' = Kind(p) /\ Leave({p}) /\ stale' \subseteq stale /\ moved' \subseteq moved
      /\ UNCHANGED <<row, list, snap, requests, faults, acked, hurt, met, cut, cleared>>
  BY DEF Finish, Leave, session, counters
<1>2. Shared' /\ Counts'
  BY <1>1, Itself DEF IInv, Shared, Counts, MaybeGood, Good, Once
<1>. QED BY <1>1, <1>2, LeaveKeeps DEF IInv

LEMMA CrashStep == ASSUME NoneIsApart, IInv, NEW c \in Caches, Crash(c) PROVE IInv'
<1>. DEFINE ps == {p \in Active : At(p) = c}
<1>1. /\ faults < MaxFaults /\ faults' = faults + 1 /\ last' = "none" /\ Leave(ps)
      /\ stale' \subseteq stale /\ moved' \subseteq moved
      /\ list' = [list EXCEPT ![c] = None] /\ snap' = [snap EXCEPT ![c] = None]
      /\ UNCHANGED <<row, requests, acked, hurt, met, cleared>> /\ cut' \in BOOLEAN
  BY DEF Crash, Leave, MayFail, IInv, Counts
<1>2. Shared'
  BY <1>1 DEF IInv, Shared, MaybeGood, Good, Once
<1>3. Counts'
  BY <1>1, BoundsAssumption DEF IInv, Counts
<1>4. ps \in SUBSET Procs
  BY DEF Active
<1>5. ASSUME NEW q \in Procs \ ps, pc[q] # "idle" PROVE list'[At(q)] = list[At(q)]
  <2>1. At(q) # c /\ At(q) \in Caches
    BY <1>5, Itself DEF Active
  <2>. QED BY <1>1, <2>1 DEF IInv, Shared
<1>. HIDE DEF ps
<1>. QED BY <1>1, <1>2, <1>3, <1>4, <1>5, LeaveKeeps DEF IInv

LEMMA StutterStep == ASSUME IInv, UNCHANGED vars PROVE IInv'
<1>1. UNCHANGED <<row, list, snap, pc, req, round, view, requests, faults>>
  BY DEF vars, session, locals, counters
<1>2. UNCHANGED <<acked, stale, moved, hurt, met, last, cut, cleared>>
  BY DEF vars, history
<1>3. Shared' /\ Counts' /\ Fields'
  BY <1>1, <1>2 DEF IInv, Shared, Counts, Fields, MaybeGood, Good, Once
<1>4. \A p \in Procs : Knows(p)'
  BY <1>1 DEF IInv, Knows, At, Kind, Req, Has, MaybeGood, Good, Once, UserTurns
<1>. QED BY <1>3, <1>4 DEF IInv

LEMMA NextKeeps == ASSUME NoneIsApart PROVE IInv /\ [Next]_vars => IInv'
<1>. SUFFICES ASSUME IInv, [Next]_vars PROVE IInv'
  OBVIOUS
<1>1. ASSUME NEW p \in Procs, Step(p) PROVE IInv'
  BY <1>1, RequestStep, GetReadStep, GetSetStep, AppendNamedStep, ReadStep, CompactStep, ModelStep, ToolStep,
     PadReadStep, PadWriteStep, ClearStep, SnapshotStep, TrimStep, UndoStep, RestoreStep,
     DropTurnStep, FinishStep, Zenon DEF Step
<1>2. ASSUME NEW c \in Caches, Crash(c) PROVE IInv'
  BY <1>2, CrashStep
<1>. QED BY <1>1, <1>2, StutterStep DEF Next

-----------------------------------------------------------------------------
(* The theorems.                                                           *)

\* The requests of a session keep every field in its range: a request is there
\* as long as its process works on it, and the rounds of the loop stay below
\* maxToolIterations.
THEOREM SessionTypeOK == ASSUME NoneIsApart PROVE Spec => []TypeOK
<1>1. IInv => TypeOK
  <2>. SUFFICES ASSUME IInv PROVE TypeOK
    OBVIOUS
  <2>1. row \in Lists \cup {None}
    BY DEF IInv, Shared, MaybeGood, Good
  <2>2. \A p \in Active : req[p] # None
    BY DEF IInv, Knows, Active, NoneIsApart
  <2>. QED BY <2>1, <2>2 DEF IInv, Shared, Counts, Fields, TypeOK, Steps, Req
<1>. QED BY <1>1, InitIInv, NextKeeps, PTL DEF Spec

\* AppendIfAbsent, GetMessages and ReplaceMessages, whatever requests, replicas
\* and commands meet: no named message is ever stored or cached twice.
THEOREM SessionIdsUnique == ASSUME NoneIsApart PROVE Spec => []IdsUnique
<1>1. IInv => IdsUnique
  BY DEF IInv, Shared, MaybeGood, Good, IdsUnique, Once, Has
<1>. QED BY <1>1, InitIInv, NextKeeps, PTL DEF Spec

-----------------------------------------------------------------------------
(* NothingLost.  While nothing hurts, a process that is not stale works on *)
(* a cache that has what was acknowledged, and so has what it read to      *)
(* replace, unless another request wrote since.                            *)

Stored == IF Has(row) THEN Msgs(row) ELSE {}
Working(p) == pc[p] \notin {"idle", "get", "set"}
Replacing == {"compact", "retry", "trim", "drop"}

ReadsRow == \A p \in Procs : pc[p] = "set" /\ p \notin moved => view[p] = row
CachesKeep == \A p \in Procs : Working(p) /\ p \notin stale => acked \subseteq Msgs(list[At(p)])
ViewsKeep == \A p \in Procs : pc[p] \in Replacing /\ p \notin stale \cup moved => acked \subseteq Msgs(view[p])

KeptInv == ~hurt => acked \subseteq Stored /\ ReadsRow /\ CachesKeep /\ ViewsKeep

\* A write by p, of the row or not, that leaves what is acknowledged where it was.
LEMMA WriteKept ==
  ASSUME IInv, NEW p \in Procs, Working(p), NEW l, req' = req,
         pc' = [pc EXCEPT ![p] = pc'[p]], pc'[p] \notin Replacing \cup {"set"},
         list' = [list EXCEPT ![At(p)] = l], acked' \subseteq Msgs(l), acked' \subseteq Stored',
         stale' = stale \cup {q \in Active : At(q) # At(p)}, moved' = (moved \cup Active) \ {p}
  PROVE  KeptInv'
<1>1. /\ At(p) \in Caches /\ \A q \in Procs : At(q)' = At(q)
      /\ \A q \in Procs \ {p} : pc'[q] = pc[q]
      /\ \A q \in Procs : pc[q] # "idle" <=> q \in Active
      /\ \A q \in Procs : pc[q] # "idle" => At(q) \in Caches
  BY Itself DEF IInv, Fields, Working, Active, At
<1>2. ReadsRow'
  BY <1>1 DEF ReadsRow
<1>3. CachesKeep'
  <2>1. ASSUME NEW q \in Procs, Working(q)', q \notin stale' PROVE acked' \subseteq Msgs(list'[At(q)])
    <3>1. CASE At(q) = At(p)
      BY <1>1, <3>1 DEF IInv, Shared
    <3>2. CASE At(q) # At(p)
      BY <1>1, <2>1, <3>2 DEF Working
    <3>. QED BY <3>1, <3>2
  <2>2. \A q \in Procs : Msgs(list[At(q)])' = Msgs(list'[At(q)])
    BY <1>1 DEF Msgs
  <2>. QED BY <2>1, <2>2 DEF CachesKeep
<1>4. ViewsKeep'
  BY <1>1 DEF ViewsKeep, Replacing
<1>. QED BY <1>2, <1>3, <1>4 DEF KeptInv

\* What is appended joins what the cache has; what is replaced is acknowledged no more.
LEMMA AppendKept ==
  ASSUME NoneIsApart, IInv, KeptInv, NEW p \in Procs, Working(p), NEW m \in Message, AppendMsg(p, m),
         ~hurt', req' = req, pc' = [pc EXCEPT ![p] = pc'[p]], pc'[p] \notin Replacing \cup {"set"}
  PROVE  KeptInv'
<1>. DEFINE l == list[At(p)]
<1>1. /\ list' = [list EXCEPT ![At(p)] = Append(l, m)] /\ row' = Append(l, m) /\ acked' = acked \cup {m}
      /\ stale' = stale \cup {q \in Active : At(q) # At(p)} /\ moved' = (moved \cup Active) \ {p}
      /\ ~hurt /\ p \notin stale
  <2>1. faults' = faults /\ p \notin stale /\ ~hurt
    BY DEF AppendMsg, Save, Note
  <2>2. faults \in Nat
    BY BoundsAssumption DEF IInv, Counts
  <2>. QED BY <2>1, <2>2 DEF AppendMsg, Save, Note
<1>2. Good(l) /\ Has(l) /\ acked \subseteq Msgs(l)
  BY <1>1, Itself DEF KeptInv, CachesKeep, Working
<1>3. Msgs(Append(l, m)) = Msgs(l) \cup {m} /\ Has(Append(l, m))
  <2>1. l \in Seq(Message)
    BY <1>2 DEF Good, Lists
  <2>2. /\ Len(l) \in Nat /\ DOMAIN l = 1..Len(l) /\ DOMAIN Append(l, m) = 1..(Len(l) + 1)
        /\ Append(l, m)[Len(l) + 1] = m /\ \A i \in 1..Len(l) : Append(l, m)[i] = l[i]
    BY <2>1
  <2>3. 1..(Len(l) + 1) = (1..Len(l)) \cup {Len(l) + 1}
    BY <2>2
  <2>4. Msgs(Append(l, m)) = Msgs(l) \cup {m}
    BY <2>2, <2>3 DEF Msgs
  <2>. QED BY <1>2, <2>4, NoneIsNoAppend
<1>. HIDE DEF l
<1>4. acked' \subseteq Msgs(Append(l, m)) /\ acked' \subseteq Stored'
  BY <1>1, <1>2, <1>3 DEF Stored, Has, Msgs
<1>. QED BY <1>1, <1>4, WriteKept

LEMMA ReplaceKept ==
  ASSUME IInv, KeptInv, NEW p \in Procs, pc[p] \in Replacing, NEW l, Has(l), Replace(p, l),
         ~hurt', req' = req, pc' = [pc EXCEPT ![p] = pc'[p]], pc'[p] \notin Replacing \cup {"set"}
  PROVE  KeptInv'
<1>1. /\ list' = [list EXCEPT ![At(p)] = l] /\ row' = l /\ acked' = acked \ (Msgs(view[p]) \ Msgs(l))
      /\ stale' = stale \cup {q \in Active : At(q) # At(p)} /\ moved' = (moved \cup Active) \ {p}
      /\ ~hurt /\ p \notin stale \cup moved
  <2>1. faults' = faults /\ p \notin stale \cup moved /\ ~hurt
    BY DEF Replace, Save, Note
  <2>2. faults \in Nat
    BY BoundsAssumption DEF IInv, Counts
  <2>. QED BY <2>1, <2>2 DEF Replace, Save, Note
<1>2. acked' \subseteq Msgs(l)
  BY <1>1 DEF KeptInv, ViewsKeep
<1>3. acked' \subseteq Stored'
  BY <1>1, <1>2 DEF Stored, Has, Msgs
<1>. QED BY <1>1, <1>2, <1>3, WriteKept DEF Working, Replacing

\* A step that writes nothing, and gives p nothing new to rely on.
LEMMA MoveKept ==
  ASSUME IInv, KeptInv, NEW p \in Procs, hurt => hurt', UNCHANGED <<row, list, req, acked>>,
         stale' = stale, moved' = moved,
         pc' = [pc EXCEPT ![p] = pc'[p]], pc'[p] # "set", Working(p),
         pc'[p] \in Replacing => pc[p] \in Replacing /\ view'[p] = view[p],
         \A q \in Procs \ {p} : view'[q] = view[q]
  PROVE  KeptInv'
<1>. SUFFICES ASSUME ~hurt' PROVE (acked \subseteq Stored /\ ReadsRow /\ CachesKeep /\ ViewsKeep)'
  BY DEF KeptInv
<1>1. \A q \in Procs \ {p} : pc'[q] = pc[q]
  BY DEF IInv, Fields
<1>. QED BY <1>1 DEF KeptInv, Stored, Has, Msgs, ReadsRow, CachesKeep, ViewsKeep, Working, At

LEMMA RequestKept == ASSUME IInv, KeptInv, NEW p \in Procs, Request(p) PROVE KeptInv'
<1>1. /\ pc[p] = "idle" /\ pc' = [pc EXCEPT ![p] = "get"]
      /\ \A q \in Procs \ {p} : req'[q] = req[q]
      /\ UNCHANGED <<row, list, view, acked, stale, moved, hurt>>
  BY DEF Request, Goto, session, locals, IInv, Fields
<1>2. pc'[p] = "get" /\ \A q \in Procs \ {p} : pc'[q] = pc[q]
  BY <1>1 DEF IInv, Fields
<1>. SUFFICES ASSUME ~hurt PROVE (acked \subseteq Stored /\ ReadsRow /\ CachesKeep /\ ViewsKeep)'
  BY <1>1 DEF KeptInv
<1>. QED BY <1>1, <1>2 DEF KeptInv, Stored, Has, Msgs, ReadsRow, CachesKeep, ViewsKeep, Working, Replacing, At

LEMMA GetReadKept == ASSUME IInv, KeptInv, NEW p \in Procs, GetRead(p) PROVE KeptInv'
<1>. SUFFICES ASSUME ~hurt' PROVE (acked \subseteq Stored /\ ReadsRow /\ CachesKeep /\ ViewsKeep)'
  BY DEF KeptInv
<1>1. /\ pc[p] = "get" /\ pc' = [pc EXCEPT ![p] = "set"] /\ view' = [view EXCEPT ![p] = row]
      /\ stale' = stale \ {p} /\ moved' = moved \ {p} /\ ~hurt
      /\ UNCHANGED <<row, list, req, acked>>
  BY DEF GetRead, Goto, session
<1>2. /\ \A q \in Procs \ {p} : pc'[q] = pc[q] /\ view'[q] = view[q]
      /\ pc'[p] = "set" /\ view'[p] = row
  BY <1>1 DEF IInv, Fields
<1>. QED BY <1>1, <1>2 DEF KeptInv, Stored, Has, Msgs, ReadsRow, CachesKeep, ViewsKeep, Working, Replacing, At

\* Get puts the row it read into the cache: nobody wrote the row meanwhile.
LEMMA GetSetKept == ASSUME IInv, KeptInv, NEW p \in Procs, GetSet(p) PROVE KeptInv'
<1>. SUFFICES ASSUME ~hurt' PROVE (acked \subseteq Stored /\ ReadsRow /\ CachesKeep /\ ViewsKeep)'
  BY DEF KeptInv
<1>0. PICK next \in {"user", "clear", "undo", "read"} : pc' = [pc EXCEPT ![p] = next]
  BY GetSetGoes
<1>1. /\ pc[p] = "set" /\ pc' = [pc EXCEPT ![p] = pc'[p]] /\ pc'[p] \notin Replacing \cup {"set"}
      /\ list' = [list EXCEPT ![At(p)] = Reloaded(At(p), view[p])]
      /\ view' = [view EXCEPT ![p] = <<>>] /\ ~hurt /\ p \notin moved
      /\ UNCHANGED <<row, req, acked, stale, moved>>
  BY <1>0 DEF GetSet, IInv, Fields, Replacing
<1>2. /\ \A q \in Procs \ {p} : pc'[q] = pc[q] /\ view'[q] = view[q]
      /\ \A q \in Procs : pc[q] # "idle" => At(q) \in Caches
  BY <1>1, Itself DEF IInv, Fields
<1>3. acked \subseteq Msgs(Reloaded(At(p), view[p]))
  <2>1. view[p] = row /\ acked \subseteq Stored
    BY <1>1 DEF KeptInv, ReadsRow
  <2>. QED BY <2>1 DEF Stored, Reloaded
<1>4. CachesKeep'
  <2>1. ASSUME NEW q \in Procs, Working(q)', q \notin stale' PROVE acked \subseteq Msgs(list'[At(q)])
    <3>1. CASE q = p \/ At(q) = At(p)
      BY <1>1, <1>2, <1>3, <2>1, <3>1 DEF IInv, Shared, Working
    <3>2. CASE q # p /\ At(q) # At(p)
      <4>1. Working(q) /\ q \notin stale /\ list'[At(q)] = list[At(q)]
        BY <1>1, <1>2, <2>1, <3>2 DEF Working, IInv, Shared
      <4>. QED BY <1>1, <4>1 DEF KeptInv, CachesKeep
    <3>. QED BY <3>1, <3>2
  <2>2. \A q \in Procs : At(q)' = At(q) /\ Msgs(list[At(q)])' = Msgs(list'[At(q)])
    BY <1>1 DEF Msgs, At
  <2>. QED BY <1>1, <2>1, <2>2 DEF CachesKeep
<1>5. (acked \subseteq Stored)' /\ ReadsRow' /\ ViewsKeep'
  BY <1>1, <1>2 DEF KeptInv, Stored, Has, Msgs, ReadsRow, ViewsKeep, Replacing
<1>. QED BY <1>4, <1>5

LEMMA AppendNamedKept == ASSUME NoneIsApart, IInv, KeptInv, NEW p \in Procs, AppendNamed(p) PROVE KeptInv'
<1>. SUFFICES ASSUME ~hurt' PROVE KeptInv'
  BY DEF KeptInv
<1>1. /\ pc[p] = "user" /\ pc' = [pc EXCEPT ![p] = pc'[p]] /\ pc'[p] \in {"done", "read"}
      /\ UNCHANGED <<req, view>>
      /\ \/ AppendMsg(p, Named(p))
         \/ UNCHANGED <<row, list, acked, stale, moved, hurt>>
  BY DEF AppendNamed, AppendIfAbsent, Goto, locals, session, IInv, Fields
<1>2. Named(p) \in Message
  BY <1>1, NamedIsMessage
<1>3. CASE AppendMsg(p, Named(p))
  BY <1>1, <1>2, <1>3, AppendKept DEF Working, Replacing
<1>4. CASE UNCHANGED <<row, list, acked, stale, moved, hurt>>
  BY <1>1, <1>4, MoveKept DEF Working, Replacing
<1>. QED BY <1>1, <1>3, <1>4

LEMMA ReadKept == ASSUME IInv, KeptInv, NEW p \in Procs, Read(p) PROVE KeptInv'
<1>. SUFFICES ASSUME ~hurt' PROVE (acked \subseteq Stored /\ ReadsRow /\ CachesKeep /\ ViewsKeep)'
  BY DEF KeptInv
<1>1. /\ pc[p] = "read" /\ view' = [view EXCEPT ![p] = list[At(p)]] /\ moved' = moved \ {p} /\ ~hurt
      /\ UNCHANGED <<row, list, req, acked, stale>>
  BY DEF Read, session
<1>2. pc' = [pc EXCEPT ![p] = pc'[p]] /\ pc'[p] # "set"
  BY ReadGoes DEF IInv, Fields
<1>3. /\ \A q \in Procs \ {p} : pc'[q] = pc[q] /\ view'[q] = view[q]
      /\ view'[p] = list[At(p)]
  BY <1>1, <1>2 DEF IInv, Fields
<1>4. p \notin stale => acked \subseteq Msgs(list[At(p)])
  BY <1>1 DEF KeptInv, CachesKeep, Working
<1>. QED BY <1>1, <1>2, <1>3, <1>4 DEF KeptInv, Stored, Has, Msgs, ReadsRow, CachesKeep, ViewsKeep, Working, Replacing, At

LEMMA CompactKept == ASSUME IInv, KeptInv, NEW p \in Procs, Compact(p) PROVE KeptInv'
<1>. SUFFICES ASSUME ~hurt' PROVE KeptInv'
  BY DEF KeptInv
<1>1. /\ pc[p] = "compact" /\ pc' = [pc EXCEPT ![p] = pc'[p]] /\ pc'[p] \in {"model", "done"}
      /\ UNCHANGED <<req, view>>
      /\ \/ Replace(p, view[p])
         \/ UNCHANGED <<row, list, acked, stale, moved, hurt>>
  BY DEF Compact, Goto, locals, session, IInv, Fields
<1>2. Has(view[p])
  BY <1>1, Itself
<1>3. CASE Replace(p, view[p])
  BY <1>1, <1>2, <1>3, ReplaceKept DEF Replacing
<1>4. CASE UNCHANGED <<row, list, acked, stale, moved, hurt>>
  BY <1>1, <1>4, MoveKept DEF Working, Replacing
<1>. QED BY <1>1, <1>3, <1>4

\* The loop of a turn, and its padding.
LEMMA LoopKept ==
  ASSUME NoneIsApart, IInv, KeptInv, NEW p \in Procs,
         ModelFails(p) \/ ModelReplies(p) \/ ModelCalls(p) \/ ToolsAnswer(p) \/ LoopDetected(p) \/ PadRead(p)
  PROVE  KeptInv'
<1>. SUFFICES ASSUME ~hurt' PROVE KeptInv'
  BY DEF KeptInv
<1>1. /\ pc[p] \in {"model", "tools", "pad"} /\ pc' = [pc EXCEPT ![p] = pc'[p]]
      /\ pc'[p] \in {"model", "tools", "pad", "padWrite", "done"}
  BY DEF ModelFails, ModelReplies, ModelCalls, ToolsAnswer, LoopDetected, PadRead, Model, End, Goto, IInv, Fields
<1>2. /\ req' = req /\ view' = [view EXCEPT ![p] = view'[p]]
      /\ \/ \E role \in {"reply", "call", "tool", "warn"} : AppendMsg(p, Tag(p, role))
         \/ UNCHANGED <<row, list, acked, stale, moved, hurt>>
  BY DEF ModelFails, ModelReplies, ModelCalls, ToolsAnswer, LoopDetected, PadRead, locals, session, counters, history,
     IInv, Fields
<1>3. ASSUME NEW role \in {"reply", "call", "tool", "warn"}, AppendMsg(p, Tag(p, role)) PROVE KeptInv'
  <2>1. Tag(p, role) \in Message
    BY <1>1, TagIsMessage DEF Roles
  <2>. QED BY <1>1, <1>2, <1>3, <2>1, AppendKept DEF Working, Replacing
<1>4. CASE UNCHANGED <<row, list, acked, stale, moved, hurt>>
  <2>1. \A q \in Procs \ {p} : view'[q] = view[q]
    BY <1>2 DEF IInv, Fields
  <2>. QED BY <1>1, <1>2, <1>4, <2>1, MoveKept DEF Working, Replacing
<1>. QED BY <1>2, <1>3, <1>4

LEMMA PadWriteKept == ASSUME NoneIsApart, IInv, KeptInv, NEW p \in Procs, PadWrite(p) PROVE KeptInv'
<1>. SUFFICES ASSUME ~hurt' PROVE KeptInv'
  BY DEF KeptInv
<1>1. /\ pc[p] = "padWrite" /\ pc' = [pc EXCEPT ![p] = "done"] /\ UNCHANGED <<req, view>>
      /\ \/ UNCHANGED <<row, list, acked, stale, moved, hurt>>
         \/ \E i \in Unanswered(view[p]) : AppendMsg(p, Result(view[p][i]))
  BY DEF PadWrite, Goto, locals, session
<1>2. pc' = [pc EXCEPT ![p] = pc'[p]] /\ pc'[p] = "done"
  BY <1>1 DEF IInv, Fields
<1>3. CASE UNCHANGED <<row, list, acked, stale, moved, hurt>>
  BY <1>1, <1>2, <1>3, MoveKept DEF Working, Replacing
<1>4. ASSUME NEW i \in Unanswered(view[p]), AppendMsg(p, Result(view[p][i])) PROVE KeptInv'
  BY <1>1, <1>2, <1>4, PadIsMessage, AppendKept DEF Working, Replacing
<1>. QED BY <1>1, <1>3, <1>4

\* /new acknowledges nothing any more, /undo what the snapshot has.
LEMMA ClearKept == ASSUME IInv, KeptInv, NEW p \in Procs, Clear(p) PROVE KeptInv'
<1>1. /\ pc[p] = "clear" /\ pc' = [pc EXCEPT ![p] = "done"] /\ list' = [list EXCEPT ![At(p)] = <<>>]
      /\ acked' = {} /\ req' = req
      /\ stale' = stale \cup {q \in Active : At(q) # At(p)} /\ moved' = (moved \cup Active) \ {p}
  BY DEF Clear, Goto, Note
<1>2. pc' = [pc EXCEPT ![p] = pc'[p]] /\ pc'[p] = "done"
  BY <1>1 DEF IInv, Fields
<1>. QED BY <1>1, <1>2, WriteKept DEF Working, Replacing

LEMMA SnapshotKept == ASSUME IInv, KeptInv, NEW p \in Procs, Snapshot(p) PROVE KeptInv'
<1>1. /\ pc[p] = "retry" /\ pc' = [pc EXCEPT ![p] = pc'[p]] /\ pc'[p] \in {"done", "trim"}
      /\ UNCHANGED <<row, list, req, view, acked, stale, moved, hurt>>
  BY DEF Snapshot, Goto, locals, counters, history, IInv, Fields
<1>. QED BY <1>1, MoveKept DEF Working, Replacing

LEMMA TrimKept == ASSUME NoneIsApart, IInv, KeptInv, NEW p \in Procs, Trim(p) PROVE KeptInv'
<1>. DEFINE l == SubSeq(view[p], 1, LastUser(view[p]) - 1)
<1>. SUFFICES ASSUME ~hurt' PROVE KeptInv'
  BY DEF KeptInv
<1>1. /\ pc[p] = "trim" /\ pc' = [pc EXCEPT ![p] = "done"] /\ Replace(p, l) /\ req' = req
  BY DEF Trim, Goto
<1>2. Good(view[p]) /\ Has(view[p]) /\ view[p] \in Lists /\ UserTurns(view[p]) # {}
  BY <1>1, Itself DEF IInv, Knows
<1>3. Len(view[p]) \in Nat /\ LastUser(view[p]) \in 1..Len(view[p])
  BY <1>2, LastUserIsThere DEF Lists
<1>4. LastUser(view[p]) - 1 \in 0..Len(view[p])
  BY <1>3
<1>5. Good(l)
  BY <1>2, <1>4, PrefixIsGood
<1>6. Has(l)
  BY <1>5 DEF Good, Has, NoneIsApart
<1>. HIDE DEF l
<1>7. pc' = [pc EXCEPT ![p] = pc'[p]] /\ pc'[p] = "done"
  BY <1>1 DEF IInv, Fields
<1>. QED BY <1>1, <1>6, <1>7, ReplaceKept DEF Replacing

LEMMA UndoKept == ASSUME IInv, KeptInv, NEW p \in Procs, Undo(p) PROVE KeptInv'
<1>1. /\ pc[p] = "undo" /\ pc' = [pc EXCEPT ![p] = pc'[p]] /\ pc'[p] \in {"restore", "read"}
      /\ UNCHANGED <<row, list, req, view, acked, stale, moved, hurt>>
  BY DEF Undo, Goto, session, locals, counters, history, IInv, Fields
<1>. QED BY <1>1, MoveKept DEF Working, Replacing

LEMMA RestoreKept == ASSUME NoneIsApart, IInv, KeptInv, NEW p \in Procs, Restore(p) PROVE KeptInv'
<1>. SUFFICES ASSUME ~hurt' PROVE KeptInv'
  BY DEF KeptInv
<1>1. pc[p] = "restore" /\ pc' = [pc EXCEPT ![p] = "done"] /\ UNCHANGED <<req, view>>
  BY DEF Restore, Goto, locals
<1>2. pc' = [pc EXCEPT ![p] = pc'[p]] /\ pc'[p] = "done"
  BY <1>1 DEF IInv, Fields
<1>3. CASE Has(snap[At(p)])
  <2>1. /\ list' = [list EXCEPT ![At(p)] = snap[At(p)]] /\ acked' = acked \cap Msgs(snap[At(p)]) /\ row' = row
        /\ stale' = stale \cup {q \in Active : At(q) # At(p)} /\ moved' = (moved \cup Active) \ {p} /\ ~hurt
    BY <1>3 DEF Restore, Note
  <2>2. acked' \subseteq Msgs(snap[At(p)]) /\ acked' \subseteq Stored'
    BY <2>1 DEF KeptInv, Stored, Has, Msgs
  <2>. QED BY <1>1, <1>2, <2>1, <2>2, WriteKept DEF Working, Replacing
<1>4. CASE ~Has(snap[At(p)])
  <2>1. UNCHANGED <<row, list, acked, stale, moved, hurt>>
    BY <1>4 DEF Restore, session
  <2>. QED BY <1>1, <1>2, <2>1, MoveKept DEF Working, Replacing
<1>. QED BY <1>3, <1>4

LEMMA DropTurnKept == ASSUME NoneIsApart, IInv, KeptInv, NEW p \in Procs, DropTurn(p) PROVE KeptInv'
<1>. DEFINE l == SubSeq(view[p], 1, LastTurn(view[p]))
<1>. SUFFICES ASSUME ~hurt' PROVE KeptInv'
  BY DEF KeptInv
<1>1. pc[p] = "drop" /\ pc' = [pc EXCEPT ![p] = "done"] /\ UNCHANGED <<req, view>>
  BY DEF DropTurn, Goto, locals
<1>2. pc' = [pc EXCEPT ![p] = pc'[p]] /\ pc'[p] = "done"
  BY <1>1 DEF IInv, Fields
<1>3. CASE Len(view[p]) < 2
  <2>1. UNCHANGED <<row, list, acked, stale, moved, hurt>>
    BY <1>3 DEF DropTurn, session
  <2>. QED BY <1>1, <1>2, <2>1, MoveKept DEF Working, Replacing
<1>4. CASE ~(Len(view[p]) < 2)
  <2>1. Replace(p, l)
    BY <1>4 DEF DropTurn
  <2>2. Good(view[p]) /\ Has(view[p]) /\ view[p] \in Lists
    BY <1>1, Itself
  <2>3. Good(l)
    BY <2>2, LastTurnIsThere, PrefixIsGood
  <2>4. Has(l)
    BY <2>3 DEF Good, Has, NoneIsApart
  <2>. HIDE DEF l
  <2>. QED BY <1>1, <1>2, <2>1, <2>4, ReplaceKept DEF Replacing
<1>. QED BY <1>3, <1>4

\* Who leaves relies on nothing.
LEMMA LeaveKept ==
  ASSUME IInv, KeptInv, NEW ps \in SUBSET Procs, Leave(ps), UNCHANGED <<row, acked, hurt>>,
         \A q \in Procs \ ps : pc[q] # "idle" => list'[At(q)] = list[At(q)]
  PROVE  KeptInv'
<1>. SUFFICES ASSUME ~hurt PROVE (acked \subseteq Stored /\ ReadsRow /\ CachesKeep /\ ViewsKeep)'
  BY DEF KeptInv
<1>1. /\ \A q \in ps : pc'[q] = "idle"
      /\ \A q \in Procs \ ps : pc'[q] = pc[q] /\ req'[q] = req[q] /\ view'[q] = view[q]
      /\ stale' = stale \ ps /\ moved' = moved \ ps
  BY DEF Leave
<1>. QED BY <1>1 DEF KeptInv, Stored, Has, Msgs, ReadsRow, CachesKeep, ViewsKeep, Working, Replacing, At

LEMMA EndKept ==
  ASSUME IInv, KeptInv, (\E p \in Procs : Finish(p)) \/ (\E c \in Caches : Crash(c))
  PROVE  KeptInv'
<1>1. ASSUME NEW p \in Procs, Finish(p) PROVE KeptInv'
  BY <1>1, LeaveKept DEF Finish, session
<1>2. ASSUME NEW c \in Caches, Crash(c) PROVE KeptInv'
  <2>. DEFINE ps == {p \in Active : At(p) = c}
  <2>1. Leave(ps) /\ list' = [list EXCEPT ![c] = None] /\ UNCHANGED <<row, acked, hurt>>
    BY <1>2 DEF Crash
  <2>2. ps \in SUBSET Procs
    BY DEF Active
  <2>3. ASSUME NEW q \in Procs \ ps, pc[q] # "idle" PROVE list'[At(q)] = list[At(q)]
    BY <2>1, <2>3, Itself DEF Active, IInv, Shared
  <2>. HIDE DEF ps
  <2>. QED BY <2>1, <2>2, <2>3, LeaveKept
<1>. QED BY <1>1, <1>2

LEMMA NextKept == ASSUME NoneIsApart PROVE IInv /\ KeptInv /\ [Next]_vars => KeptInv'
<1>. SUFFICES ASSUME IInv, KeptInv, [Next]_vars PROVE KeptInv'
  OBVIOUS
<1>1. ASSUME NEW p \in Procs, Step(p) PROVE KeptInv'
  BY <1>1, RequestKept, GetReadKept, GetSetKept, AppendNamedKept, ReadKept, CompactKept, LoopKept, PadWriteKept,
     ClearKept, SnapshotKept, TrimKept, UndoKept, RestoreKept, DropTurnKept, EndKept, Zenon DEF Step
<1>2. ASSUME NEW c \in Caches, Crash(c) PROVE KeptInv'
  BY <1>2, EndKept
<1>3. CASE UNCHANGED vars
  BY <1>3 DEF vars, session, locals, counters, history, KeptInv, Stored, Has, Msgs, ReadsRow, CachesKeep, ViewsKeep,
     Working, At
<1>. QED BY <1>1, <1>2, <1>3 DEF Next

\* An acknowledged message is in the row, whatever requests meet, as long as no
\* write is lost: NothingLost, for any processes, replicas and requests.
THEOREM SessionNothingLost == ASSUME NoneIsApart PROVE Spec => []NothingLost
<1>1. Init => KeptInv
  BY DEF Init, KeptInv, Stored, ReadsRow, CachesKeep, ViewsKeep, Working, Replacing
<1>2. KeptInv => NothingLost
  BY DEF KeptInv, Stored, NothingLost
<1>. QED BY <1>1, <1>2, InitIInv, NextKeeps, NextKept, PTL DEF Spec


-----------------------------------------------------------------------------
(* CallsAnswered.  In every list a call is answered before the next one;   *)
(* cutting the end off keeps that, and only the latest call can want an    *)
(* answer.  As long as no call was left behind, the results come next to   *)
(* their calls too, the last one's aside while a process is in its round.  *)

Ordered(l) == \A i, j \in Calls(l) : i < j => \E k \in DOMAIN l : i < k /\ k < j /\ l[k] = Result(l[i])
MaybeOrdered(l) == Has(l) => Ordered(l)

OnlyWarned(l, i) == \A k \in DOMAIN l : i < k => l[k].role = "warn"
Open(l) == \A i \in Calls(l) : (\E j \in DOMAIN l : Follows(l, i, j)) \/ OnlyWarned(l, i)
MaybeAccepted(l) == Has(l) => Accepted(l)

LEMMA EmptyIsOrdered == Ordered(<<>>) /\ Accepted(<<>>)
  BY DEF Ordered, Accepted, Calls

LEMMA AcceptedIsOpen == ASSUME NEW l, Accepted(l) PROVE Open(l)
  BY DEF Accepted, Open

LEMMA AcceptedIsAnswered == ASSUME NEW l, Accepted(l) PROVE Orphans(l) = {}
  BY DEF Accepted, Orphans, Resolved, Follows

\* What holds of the places of a list that is cut off.
LEMMA PrefixPlaces ==
  ASSUME NEW l \in Lists, NEW n \in 0..Len(l)
  PROVE  /\ SubSeq(l, 1, n) \in Lists /\ DOMAIN SubSeq(l, 1, n) = 1..n /\ \A i \in 1..n : SubSeq(l, 1, n)[i] = l[i]
         /\ DOMAIN l \subseteq Nat /\ n \in Nat /\ Len(l) \in Nat
         /\ \A i \in 1..n : i \in DOMAIN l /\ \A k \in DOMAIN l : k <= i => k \in 1..n
<1>1. l \in Seq(Message) /\ Len(l) \in Nat /\ DOMAIN l = 1..Len(l) /\ n \in Nat /\ n <= Len(l)
  BY DEF Lists
<1>2. SubSeq(l, 1, n) \in Seq(Message) /\ DOMAIN SubSeq(l, 1, n) = 1..n /\ \A i \in 1..n : SubSeq(l, 1, n)[i] = l[i]
  BY <1>1, SubSeqProperties
<1>. QED BY <1>1, <1>2 DEF Lists

LEMMA PrefixIsOrdered ==
  ASSUME NEW l \in Lists, Ordered(l), NEW n \in 0..Len(l)
  PROVE  Ordered(SubSeq(l, 1, n))
<1>. DEFINE s == SubSeq(l, 1, n)
<1>1. /\ DOMAIN s = 1..n /\ \A i \in 1..n : s[i] = l[i]
      /\ DOMAIN l \subseteq Nat /\ n \in Nat
      /\ \A i \in 1..n : i \in DOMAIN l /\ \A k \in DOMAIN l : k <= i => k \in 1..n
  BY PrefixPlaces
<1>. HIDE DEF s
<1>2. ASSUME NEW i \in Calls(s), NEW j \in Calls(s), i < j
      PROVE  \E k \in DOMAIN s : i < k /\ k < j /\ s[k] = Result(s[i])
  <2>1. i \in 1..n /\ j \in 1..n /\ i \in Calls(l) /\ j \in Calls(l) /\ s[i] = l[i]
    BY <1>1 DEF Calls
  <2>2. PICK k \in DOMAIN l : i < k /\ k < j /\ l[k] = Result(l[i])
    BY <1>2, <2>1 DEF Ordered
  <2>3. k \in Nat /\ j \in Nat
    BY <1>1, <2>1
  <2>4. k \in 1..n
    BY <1>1, <2>1, <2>2, <2>3
  <2>. QED BY <1>1, <2>1, <2>2, <2>4
<1>3. Ordered(s)
  BY <1>2 DEF Ordered
<1>. QED BY <1>3 DEF s

\* A cut between the rounds leaves each call its result.
LEMMA PrefixIsAccepted ==
  ASSUME NEW l \in Lists, Accepted(l), NEW n \in 0..Len(l),
         \A i, j \in DOMAIN l : Follows(l, i, j) /\ i <= n => j <= n
  PROVE  Accepted(SubSeq(l, 1, n))
<1>. DEFINE s == SubSeq(l, 1, n)
<1>1. /\ DOMAIN s = 1..n /\ \A i \in 1..n : s[i] = l[i]
      /\ DOMAIN l \subseteq Nat /\ n \in Nat /\ DOMAIN l = 1..Len(l) /\ Len(l) \in Nat
      /\ \A i \in 1..n : i \in DOMAIN l /\ \A k \in DOMAIN l : k <= i => k \in 1..n
  BY PrefixPlaces DEF Lists
<1>. HIDE DEF s
<1>2. ASSUME NEW i \in Calls(s) PROVE \E j \in DOMAIN s : Follows(s, i, j)
  <2>1. i \in 1..n /\ i \in Calls(l) /\ i \in DOMAIN l /\ i <= n
    BY <1>1 DEF Calls
  <2>2. PICK j \in DOMAIN l : Follows(l, i, j)
    BY <2>1 DEF Accepted
  <2>3. j <= n
    BY <2>1, <2>2
  <2>4. j \in 1..n
    BY <1>1, <2>3
  <2>5. Follows(s, i, j)
    BY <1>1, <2>1, <2>2, <2>4 DEF Follows
  <2>. QED BY <1>1, <2>4, <2>5
<1>3. Accepted(s)
  BY <1>2 DEF Accepted
<1>. QED BY <1>3 DEF s

\* /retry cuts before a user message, which comes between no call and its result,
LEMMA TrimCuts ==
  ASSUME NEW l \in Lists, UserTurns(l) # {}, NEW i \in DOMAIN l, NEW j \in DOMAIN l,
         Follows(l, i, j), i <= LastUser(l) - 1
  PROVE  j <= LastUser(l) - 1
<1>. DEFINE n == LastUser(l)
<1>1. DOMAIN l = 1..Len(l) /\ Len(l) \in Nat /\ n \in 1..Len(l) /\ \A k \in DOMAIN l : l[k] \in Message
  BY LastUserIsThere DEF Lists
<1>2. l[n].role = "user"
  <2>1. PICK k \in UserTurns(l) : \A h \in UserTurns(l) : h <= k
    BY <1>1, LastPlace DEF UserTurns
  <2>. QED BY <2>1 DEF LastUser, UserTurns
<1>. HIDE DEF n
<1>3. j # n
  <2>1. l[j].role = "tool"
    BY <1>1 DEF Follows, Result, Message
  <2>. QED BY <1>2, <2>1
<1>4. ~(i < n /\ n < j)
  BY <1>1, <1>2 DEF Follows
<1>5. i < n
  BY <1>1 DEF n
<1>6. j <= n - 1
  BY <1>1, <1>3, <1>4, <1>5
<1>. QED BY <1>6 DEF n

\* and /undo after a result or before a user message.
LEMMA LastTurnEnds ==
  ASSUME NEW l \in Lists
  PROVE  \E n \in 0..Len(l) : /\ \A i \in DOMAIN l : i > n => l[i].role \in {"reply", "return", "call"}
                              /\ LastTurn(l) = n \/ (n > 0 /\ l[n].role = "user" /\ LastTurn(l) = n - 1)
<1>. DEFINE S == {n \in 0..Len(l) : Replied(l, n)}
<1>1. Len(l) \in Nat /\ DOMAIN l = 1..Len(l)
  BY DEF Lists
<1>2. S \in SUBSET Nat /\ Len(l) \in S
  BY <1>1 DEF Replied
<1>3. PICK n \in S : \A k \in S : n <= k
  BY <1>2, LeastExists
<1>4. WithoutReplies(l) \in 0..Len(l) /\ Replied(l, WithoutReplies(l))
  BY <1>1, <1>3 DEF WithoutReplies
<1>. QED BY <1>4 DEF LastTurn, Replied

LEMMA DropCuts ==
  ASSUME NEW l \in Lists, NEW i \in DOMAIN l, NEW j \in DOMAIN l, Follows(l, i, j), i <= LastTurn(l)
  PROVE  j <= LastTurn(l)
<1>1. DOMAIN l = 1..Len(l) /\ Len(l) \in Nat /\ \A k \in DOMAIN l : l[k] \in Message
  BY DEF Lists
<1>2. l[j].role = "tool" /\ i < j /\ \A k \in DOMAIN l : i < k /\ k < j => l[k].role = "warn"
  BY <1>1 DEF Follows, Result, Message
<1>3. PICK n \in 0..Len(l) : /\ \A k \in DOMAIN l : k > n => l[k].role \in {"reply", "return", "call"}
                             /\ LastTurn(l) = n \/ (n > 0 /\ l[n].role = "user" /\ LastTurn(l) = n - 1)
  BY LastTurnEnds
<1>4. ~(j > n)
  BY <1>2, <1>3
<1>5. j <= n /\ n \in Nat /\ j \in Nat /\ i \in Nat
  BY <1>1, <1>4
<1>6. CASE LastTurn(l) = n
  BY <1>5, <1>6
<1>7. CASE n > 0 /\ l[n].role = "user" /\ LastTurn(l) = n - 1
  <2>1. j # n
    BY <1>2, <1>7
  <2>. QED BY <1>5, <1>7, <2>1
<1>. QED BY <1>3, <1>6, <1>7

\* What holds of the places of a list with one message more.
LEMMA AppendPlaces ==
  ASSUME NEW l \in Lists, NEW m \in Message
  PROVE  /\ Len(l) \in Nat /\ DOMAIN l = 1..Len(l) /\ DOMAIN Append(l, m) = (1..Len(l)) \cup {Len(l) + 1}
         /\ Append(l, m)[Len(l) + 1] = m /\ \A i \in 1..Len(l) : Append(l, m)[i] = l[i]
         /\ \A i \in 1..Len(l) : i < Len(l) + 1 /\ l[i] \in Message
<1>1. l \in Seq(Message)
  BY DEF Lists
<1>2. 1..(Len(l) + 1) = (1..Len(l)) \cup {Len(l) + 1}
  BY <1>1
<1>. QED BY <1>1, <1>2

\* The same, with the calls there were and their results.
LEMMA AppendCallPlaces ==
  ASSUME NEW l \in Lists, NEW m \in Message
  PROVE  /\ Len(l) + 1 \in Nat /\ DOMAIN Append(l, m) = DOMAIN l \cup {Len(l) + 1} /\ Append(l, m)[Len(l) + 1] = m
         /\ \A i \in DOMAIN l : Append(l, m)[i] = l[i] /\ i < Len(l) + 1 /\ i \in Nat /\ l[i] \in Message
         /\ Calls(Append(l, m)) = Calls(l) \cup (IF m.role = "call" THEN {Len(l) + 1} ELSE {})
         /\ \A i, j \in DOMAIN l : Follows(l, i, j) => Follows(Append(l, m), i, j)
<1>. DEFINE s == Append(l, m)
           n == Len(l) + 1
<1>1. /\ n \in Nat /\ DOMAIN s = DOMAIN l \cup {n} /\ s[n] = m
      /\ \A i \in DOMAIN l : s[i] = l[i] /\ i < n /\ i \in Nat /\ l[i] \in Message
  BY AppendPlaces
<1>. HIDE DEF s, n
<1>2. Calls(s) = Calls(l) \cup (IF m.role = "call" THEN {n} ELSE {})
  BY <1>1 DEF Calls
<1>3. ASSUME NEW i \in DOMAIN l, NEW j \in DOMAIN l, Follows(l, i, j) PROVE Follows(s, i, j)
  <2>1. i < j /\ s[j] = Result(s[i])
    BY <1>1, <1>3 DEF Follows
  <2>2. ASSUME NEW k \in DOMAIN s, i < k, k < j PROVE s[k].role = "warn"
    <3>1. k \in DOMAIN l
      BY <1>1, <2>2
    <3>. QED BY <1>1, <1>3, <2>2, <3>1 DEF Follows
  <2>. QED BY <2>1, <2>2 DEF Follows
<1>. QED BY <1>1, <1>2, <1>3 DEF s, n

LEMMA AppendIsOrdered ==
  ASSUME NEW l \in Lists, Ordered(l), NEW m \in Message, m.role = "call" => Orphans(l) = {}
  PROVE  Ordered(Append(l, m))
<1>. DEFINE n == Len(l) + 1
           s == Append(l, m)
<1>1. /\ n \in Nat /\ DOMAIN s = DOMAIN l \cup {n} /\ s[n] = m
      /\ \A i \in DOMAIN l : s[i] = l[i] /\ i < n /\ i \in Nat
      /\ Calls(s) = Calls(l) \cup (IF m.role = "call" THEN {n} ELSE {})
  BY AppendCallPlaces
<1>. HIDE DEF n, s
<1>2. ASSUME NEW i \in Calls(s), NEW j \in Calls(s), i < j
      PROVE  \E k \in DOMAIN s : i < k /\ k < j /\ s[k] = Result(s[i])
  <2>1. i \in Calls(l) /\ i \in DOMAIN l
    <3>1. j = n \/ j \in DOMAIN l
      BY <1>1 DEF Calls
    <3>2. i # n
      BY <1>1, <1>2, <3>1
    <3>. QED BY <1>1, <3>2 DEF Calls
  <2>2. CASE j \in Calls(l)
    <3>1. \E k \in DOMAIN l : i < k /\ k < j /\ l[k] = Result(l[i])
      BY <1>2, <2>1, <2>2 DEF Ordered
    <3>. QED BY <1>1, <2>1, <3>1
  <2>3. CASE j \notin Calls(l)
    <3>1. j = n /\ m.role = "call"
      BY <1>1, <2>3
    <3>2. \E k \in DOMAIN l : i < k /\ l[k] = Result(l[i])
      BY <2>1, <3>1 DEF Orphans, Resolved
    <3>. QED BY <1>1, <2>1, <3>1, <3>2
  <2>. QED BY <2>2, <2>3
<1>3. Ordered(s)
  BY <1>2 DEF Ordered
<1>. QED BY <1>3 DEF s

\* What else is appended to an accepted history leaves it accepted,
LEMMA AppendIsAccepted ==
  ASSUME NEW l \in Lists, Accepted(l), NEW m \in Message, m.role # "call"
  PROVE  Accepted(Append(l, m))
<1>. DEFINE n == Len(l) + 1
           s == Append(l, m)
<1>1. /\ DOMAIN s = DOMAIN l \cup {n} /\ Calls(s) = Calls(l) \cup (IF m.role = "call" THEN {n} ELSE {})
      /\ \A i, j \in DOMAIN l : Follows(l, i, j) => Follows(s, i, j)
  BY AppendCallPlaces
<1>. HIDE DEF n, s
<1>2. Calls(s) = Calls(l)
  BY <1>1
<1>3. Accepted(s)
  BY <1>1, <1>2 DEF Accepted, Calls
<1>. QED BY <1>3 DEF s

\* a call opens a round, a warning does not close it,
LEMMA AppendIsOpen ==
  ASSUME NEW l \in Lists, NEW m \in Message, (Accepted(l) /\ m.role = "call") \/ (Open(l) /\ m.role = "warn")
  PROVE  Open(Append(l, m))
<1>. DEFINE n == Len(l) + 1
           s == Append(l, m)
<1>1. /\ n \in Nat /\ DOMAIN s = DOMAIN l \cup {n} /\ s[n] = m
      /\ \A i \in DOMAIN l : s[i] = l[i] /\ i < n /\ i \in Nat
      /\ Calls(s) = Calls(l) \cup (IF m.role = "call" THEN {n} ELSE {})
      /\ \A i, j \in DOMAIN l : Follows(l, i, j) => Follows(s, i, j)
  BY AppendCallPlaces
<1>. HIDE DEF n, s
<1>2. Calls(l) \subseteq DOMAIN l
  BY DEF Calls
<1>3. OnlyWarned(s, n)
  BY <1>1 DEF OnlyWarned
<1>4. ASSUME NEW i \in Calls(l) PROVE (\E j \in DOMAIN s : Follows(s, i, j)) \/ OnlyWarned(s, i)
  <2>1. CASE \E j \in DOMAIN l : Follows(l, i, j)
    BY <1>1, <1>2, <2>1
  <2>2. CASE ~\E j \in DOMAIN l : Follows(l, i, j)
    <3>1. m.role = "warn" /\ OnlyWarned(l, i)
      BY <2>2 DEF Accepted, Open
    <3>. QED BY <1>1, <3>1 DEF OnlyWarned
  <2>. QED BY <2>1, <2>2
<1>5. Open(s)
  BY <1>1, <1>3, <1>4 DEF Open
<1>. QED BY <1>5 DEF s

\* and the result of the last call does.
LEMMA ResultCloses ==
  ASSUME NEW l \in Lists, Open(l), NEW i \in Calls(l), OnlyWarned(l, i), Result(l[i]) \in Message
  PROVE  Accepted(Append(l, Result(l[i])))
<1>. DEFINE m == Result(l[i])
           n == Len(l) + 1
           s == Append(l, m)
<1>0. m.role = "tool"
  BY DEF Result, Calls, Lists, Message
<1>1. /\ n \in Nat /\ DOMAIN s = DOMAIN l \cup {n} /\ s[n] = m
      /\ \A k \in DOMAIN l : s[k] = l[k] /\ k < n /\ k \in Nat
      /\ Calls(s) = Calls(l) \cup (IF m.role = "call" THEN {n} ELSE {})
      /\ \A k, j \in DOMAIN l : Follows(l, k, j) => Follows(s, k, j)
  <2>1. m \in Message
    OBVIOUS
  <2>. HIDE DEF m
  <2>. QED BY <2>1, AppendCallPlaces
<1>. HIDE DEF n, s
<1>2. Calls(l) \subseteq DOMAIN l /\ Calls(s) = Calls(l)
  BY <1>0, <1>1 DEF Calls
<1>3. Follows(s, i, n)
  <2>1. ASSUME NEW k \in DOMAIN s, i < k, k < n PROVE s[k].role = "warn"
    <3>1. k \in DOMAIN l
      BY <1>1, <2>1
    <3>. QED BY <1>1, <2>1, <3>1 DEF OnlyWarned
  <2>2. i < n /\ s[n] = Result(s[i])
    BY <1>1, <1>2
  <2>. QED BY <2>1, <2>2 DEF Follows
<1>4. ASSUME NEW k \in Calls(l) PROVE \E j \in DOMAIN s : Follows(s, k, j)
  <2>1. CASE k = i
    BY <1>1, <1>3, <2>1
  <2>2. CASE k # i
    <3>1. ~OnlyWarned(l, k)
      <4>1. i < k \/ k < i
        BY <1>1, <1>2, <2>2
      <4>2. l[i].role = "call" /\ l[k].role = "call"
        BY DEF Calls
      <4>. QED BY <1>2, <4>1, <4>2 DEF OnlyWarned
    <3>. QED BY <1>1, <1>2, <3>1 DEF Open
  <2>. QED BY <2>1, <2>2
<1>5. Accepted(s)
  BY <1>2, <1>4 DEF Accepted
<1>. QED BY <1>5 DEF s

LEMMA OrphansAreLatest ==
  ASSUME NEW l \in Lists, Ordered(l)
  PROVE  Orphans(l) \subseteq LatestCall(l)
<1>1. DOMAIN l \subseteq Nat
  BY DEF Lists
<1>2. ASSUME NEW i \in Orphans(l), NEW j \in Calls(l) PROVE j <= i
  <2>1. i \in Calls(l) /\ i \in Nat /\ j \in Nat
    BY <1>1 DEF Orphans, Calls
  <2>2. ~(i < j)
    BY <2>1 DEF Ordered, Orphans, Resolved
  <2>. QED BY <2>1, <2>2
<1>. QED BY <1>2 DEF LatestCall, Orphans

LEMMA NothingToPad ==
  ASSUME NEW l \in Lists, Ordered(l), Unanswered(l) = {}
  PROVE  Orphans(l) = {}
  BY OrphansAreLatest DEF Unanswered

\* Padding the call found unanswered leaves none unanswered,
LEMMA PaddedIsAnswered ==
  ASSUME NEW l \in Lists, Ordered(l), NEW i \in Unanswered(l), Result(l[i]) \in Message, Result(l[i]).role = "tool"
  PROVE  Orphans(Append(l, Result(l[i]))) = {}
<1>. DEFINE m == Result(l[i])
           n == Len(l) + 1
           s == Append(l, m)
<1>1. /\ n \in Nat /\ DOMAIN s = DOMAIN l \cup {n} /\ s[n] = m
      /\ \A k \in DOMAIN l : s[k] = l[k] /\ k < n /\ k \in Nat
      /\ Calls(s) = Calls(l) /\ Calls(l) \subseteq DOMAIN l
  BY AppendCallPlaces DEF Calls
<1>. HIDE DEF n, s
<1>2. i \in Calls(l)
  BY DEF Unanswered, Orphans
<1>3. ASSUME NEW k \in Calls(l) PROVE Resolved(s, k)
  <2>1. CASE k = i
    BY <1>1, <1>2, <2>1 DEF Resolved
  <2>2. CASE k # i
    <3>1. k \notin Orphans(l)
      <4>1. k \in Orphans(l) => k \in LatestCall(l)
        BY OrphansAreLatest
      <4>2. k \in LatestCall(l) => k = i
        <5>1. i \in LatestCall(l)
          BY DEF Unanswered
        <5>. QED BY <1>1, <1>2, <5>1 DEF LatestCall
      <4>. QED BY <2>2, <4>1, <4>2
    <3>2. Resolved(l, k)
      BY <3>1 DEF Orphans
    <3>. QED BY <1>1, <3>2 DEF Resolved
  <2>. QED BY <2>1, <2>2
<1>4. Orphans(s) = {}
  BY <1>1, <1>3 DEF Orphans
<1>. QED BY <1>4 DEF s

\* and, where a round is open, closes it.
LEMMA OpenIsClosed ==
  ASSUME NEW l, Open(l)
  PROVE  /\ Orphans(l) = {} => Accepted(l)
         /\ \A i \in Orphans(l) : i \in Calls(l) /\ OnlyWarned(l, i)
<1>1. ASSUME NEW i \in Calls(l), OnlyWarned(l, i), i \notin Orphans(l) PROVE \E j \in DOMAIN l : Follows(l, i, j)
  <2>1. PICK j \in DOMAIN l : i < j /\ l[j] = Result(l[i])
    BY <1>1 DEF Orphans, Resolved
  <2>2. Follows(l, i, j)
    BY <1>1, <2>1 DEF Follows, OnlyWarned
  <2>. QED BY <2>2
<1>2. ASSUME NEW i \in Orphans(l) PROVE i \in Calls(l) /\ OnlyWarned(l, i)
  <2>1. i \in Calls(l) /\ ~\E j \in DOMAIN l : Follows(l, i, j)
    BY DEF Orphans, Resolved, Follows
  <2>. QED BY <2>1 DEF Open
<1>. QED BY <1>1, <1>2 DEF Open, Accepted


(* While requests do not meet, the one that is active reads what its cache *)
(* has, and its cache has the row, unless there is none or an /undo        *)
(* restored the cache alone.                                               *)
Synced == {"compact", "model", "tools", "padWrite", "retry", "trim", "drop"}
Restored(p) == pc[p] = "done" /\ Kind(p) = "undo"

\* The list of a process at a step: in a round it ends with its call.
CallOf(no, n) == [role |-> "call", id |-> no, round |-> n]
Fits(step, m, l) ==
  /\ Open(l) /\ (step \notin InRound => Accepted(l))
  /\ step = "tools" => Len(l) \in DOMAIN l /\ l[Len(l)] = m
MaybeFits(step, m, l) == Has(l) => Fits(step, m, l)

Alone == (\A p, q \in Active : p = q) /\ (last # "none" => Active = {})
AllOrdered == MaybeOrdered(row) /\ \A c \in Caches : MaybeOrdered(list[c]) /\ MaybeOrdered(snap[c])
ViewsSync == \A p \in Procs : pc[p] \in Synced => view[p] = list[At(p)]
CachesSync == \A p \in Procs : Working(p) /\ ~Restored(p) /\ Has(row) => list[At(p)] = row
TurnsAnswer == \A p \in Procs : pc[p] = "done" /\ Kind(p) = "turn" /\ Has(row) => Orphans(row) = {}
Commands == \A p \in Procs : /\ pc[p] \in {"restore", "drop"} => Kind(p) = "undo"
                             /\ pc[p] \in {"clear", "retry", "trim"} => Kind(p) # "turn"
                             /\ pc[p] = "tools" => Kind(p) \in Turns
TurnEnded == last = "turn" /\ Has(row) => Orphans(row) = {}
ClosedBy(p) ==
  ~cut => /\ \A c \in Caches : MaybeAccepted(snap[c]) /\ (c # At(p) => MaybeAccepted(list[c]))
          /\ MaybeFits(pc[p], CallOf(req[p].no, round[p]), list[At(p)])
          /\ MaybeFits(pc[p], CallOf(req[p].no, round[p]), row)
ClosedAtRest ==
  Active = {} /\ ~cut => MaybeAccepted(row) /\ \A c \in Caches : MaybeAccepted(snap[c]) /\ MaybeAccepted(list[c])
Closed == ClosedAtRest /\ \A p \in Active : ClosedBy(p)

CallParts == Alone /\ AllOrdered /\ ViewsSync /\ CachesSync /\ TurnsAnswer /\ Commands /\ TurnEnded /\ Closed
CallInv == ~met /\ ~hurt => CallParts

\* It is enough to look at the active process, and at the lists.
LEMMA OneCalls ==
  ASSUME IInv, CallParts, NEW p \in Procs, pc[p] # "idle", UNCHANGED <<req, last>>,
         pc' = [pc EXCEPT ![p] = pc'[p]], pc'[p] # "idle", AllOrdered',
         pc'[p] \in Synced => view'[p] = list'[At(p)],
         Working(p)' /\ ~Restored(p)' /\ Has(row') => list'[At(p)] = row',
         pc'[p] = "done" /\ Kind(p) = "turn" /\ Has(row') => Orphans(row') = {},
         pc'[p] \in {"restore", "drop"} => Kind(p) = "undo",
         pc'[p] \in {"clear", "retry", "trim"} => Kind(p) # "turn",
         pc'[p] = "tools" => Kind(p) \in Turns,
         ~cut' => /\ \A c \in Caches : MaybeAccepted(snap'[c]) /\ (c # At(p) => MaybeAccepted(list'[c]))
                  /\ MaybeFits(pc'[p], CallOf(req[p].no, round'[p]), list'[At(p)])
                  /\ MaybeFits(pc'[p], CallOf(req[p].no, round'[p]), row')
  PROVE  CallInv'
<1>1. /\ \A q \in Procs \ {p} : pc[q] = "idle" /\ pc'[q] = "idle"
      /\ last = "none" /\ Kind(p)' = Kind(p) /\ At(p)' = At(p)
  BY DEF CallParts, Alone, Active, IInv, Fields, Kind, At
<1>2. Alone' /\ Active' = {p}
  BY <1>1 DEF Alone, Active
<1>3. ViewsSync'
  BY <1>1 DEF ViewsSync, Synced
<1>4. CachesSync'
  BY <1>1 DEF CachesSync, Working, Has
<1>5. TurnsAnswer'
  <2>1. ASSUME NEW q \in Procs, pc'[q] = "done", Kind(q)' = "turn", Has(row') PROVE Orphans(row') = {}
    BY <1>1, <2>1
  <2>. QED BY <2>1 DEF TurnsAnswer, Has, Orphans, Calls, Resolved, Result
<1>6. Commands' /\ TurnEnded'
  BY <1>1 DEF Commands, TurnEnded
<1>7. Closed'
  <2>1. ClosedBy(p)'
    BY <1>1 DEF ClosedBy
  <2>2. \A q \in Active' : q = p
    BY <1>2
  <2>. QED BY <1>2, <2>1, <2>2 DEF Closed, ClosedAtRest
<1>. QED BY <1>2, <1>3, <1>4, <1>5, <1>6, <1>7 DEF CallInv, CallParts

\* What can be said of the lists when the active process is known,
LEMMA OneIsClosed ==
  ASSUME CallParts, NEW p \in Procs, pc[p] # "idle", ~cut
  PROVE  /\ \A c \in Caches : MaybeAccepted(snap[c]) /\ (c # At(p) => MaybeAccepted(list[c]))
         /\ MaybeFits(pc[p], CallOf(req[p].no, round[p]), list[At(p)])
         /\ MaybeFits(pc[p], CallOf(req[p].no, round[p]), row)
  BY DEF CallParts, Closed, ClosedBy, Active

\* and in particular of what it works on.
LEMMA ActiveCalls ==
  ASSUME NoneIsApart, IInv, CallParts, NEW p \in Procs, Working(p)
  PROVE  /\ Has(list[At(p)]) /\ Good(list[At(p)]) /\ list[At(p)] \in Lists /\ Ordered(list[At(p)])
         /\ pc[p] \in Synced => view[p] = list[At(p)]
         /\ At(p) \in Caches
         /\ ~cut => Fits(pc[p], CallOf(req[p].no, round[p]), list[At(p)])
<1>1. At(p) \in Caches /\ Has(list[At(p)]) /\ Good(list[At(p)])
  BY Itself DEF Working
<1>2. ~cut => Fits(pc[p], CallOf(req[p].no, round[p]), list[At(p)])
  BY <1>1, OneIsClosed DEF MaybeFits, Working
<1>. QED BY <1>1, <1>2 DEF Good, CallParts, AllOrdered, MaybeOrdered, ViewsSync

\* It writes a list.
LEMMA WriteCalls ==
  ASSUME NoneIsApart, IInv, CallParts, NEW p \in Procs, Working(p), NEW l, Ordered(l), Has(l), NEW raced \in BOOLEAN,
         Save(p, l, raced), ~hurt', UNCHANGED <<req, last>>,
         pc' = [pc EXCEPT ![p] = pc'[p]], pc'[p] \notin {"idle", "get", "set", "clear", "retry", "trim", "restore", "drop"},
         pc'[p] \in Synced => view'[p] = l,
         pc'[p] = "done" /\ Kind(p) = "turn" => Orphans(l) = {},
         pc'[p] = "tools" => Kind(p) \in Turns,
         ~cut' => ~cut /\ Fits(pc'[p], CallOf(req[p].no, round'[p]), l)
  PROVE  CallInv'
<1>1. list' = [list EXCEPT ![At(p)] = l] /\ row' = l /\ snap' = snap
  <2>1. faults' = faults
    BY DEF Save, Note
  <2>2. faults \in Nat
    BY BoundsAssumption DEF IInv, Counts
  <2>. QED BY <2>1, <2>2 DEF Save
<1>2. At(p) \in Caches /\ list'[At(p)] = l
  BY <1>1, ActiveCalls DEF IInv, Shared
<1>3. AllOrdered'
  <2>1. /\ \A c \in Caches : list'[c] = l \/ list'[c] = list[c]
        /\ \A c \in Caches : MaybeOrdered(list[c]) /\ MaybeOrdered(snap[c])
    BY <1>1 DEF IInv, Shared, CallParts, AllOrdered
  <2>. QED BY <1>1, <2>1 DEF AllOrdered, MaybeOrdered, Ordered, Calls, Result, Has
<1>4. row' = l /\ Orphans(row') = Orphans(l)
  BY <1>1
<1>5. ASSUME ~cut'
      PROVE  /\ \A c \in Caches : MaybeAccepted(snap'[c]) /\ (c # At(p) => MaybeAccepted(list'[c]))
             /\ MaybeFits(pc'[p], CallOf(req[p].no, round'[p]), list'[At(p)])
             /\ MaybeFits(pc'[p], CallOf(req[p].no, round'[p]), row')
  <2>1. \A c \in Caches : MaybeAccepted(snap[c]) /\ (c # At(p) => MaybeAccepted(list[c]))
    BY <1>5, OneIsClosed DEF Working
  <2>2. \A c \in Caches : snap'[c] = snap[c] /\ (c # At(p) => list'[c] = list[c])
    BY <1>1 DEF IInv, Shared
  <2>. QED BY <1>1, <1>2, <1>5, <2>1, <2>2 DEF MaybeFits
<1>. QED BY <1>2, <1>3, <1>4, <1>5, OneCalls DEF Working

LEMMA AppendCalls ==
  ASSUME NoneIsApart, IInv, CallParts, NEW p \in Procs, Working(p), NEW m \in Message,
         m.role = "call" => Orphans(list[At(p)]) = {},
         AppendMsg(p, m), ~hurt', UNCHANGED <<req, last>>,
         pc' = [pc EXCEPT ![p] = pc'[p]], pc'[p] \notin {"idle", "get", "set", "clear", "retry", "trim", "restore", "drop"},
         pc'[p] \in Synced => view'[p] = Append(list[At(p)], m),
         pc'[p] = "done" /\ Kind(p) = "turn" => Orphans(Append(list[At(p)], m)) = {},
         pc'[p] = "tools" => Kind(p) \in Turns,
         ~cut' => ~cut /\ Fits(pc'[p], CallOf(req[p].no, round'[p]), Append(list[At(p)], m))
  PROVE  CallInv'
<1>. DEFINE l == list[At(p)]
            s == Append(l, m)
<1>1. l \in Lists /\ Good(l) /\ Ordered(l) /\ Save(p, s, FALSE)
  BY ActiveCalls DEF AppendMsg
<1>2. Ordered(s) /\ Has(s)
  BY <1>1, AppendIsOrdered, NoneIsNoAppend
<1>. HIDE DEF s
<1>3. pc'[p] \in Synced => view'[p] = s
  BY DEF s
<1>4. pc'[p] = "done" /\ Kind(p) = "turn" => Orphans(s) = {}
  BY DEF s
<1>5. ~cut' => ~cut /\ Fits(pc'[p], CallOf(req[p].no, round'[p]), s)
  BY DEF s
<1>. QED BY <1>1, <1>2, <1>3, <1>4, <1>5, WriteCalls

\* It writes nothing.
LEMMA RestCalls ==
  ASSUME NoneIsApart, IInv, CallParts, NEW p \in Procs, Working(p), pc[p] # "done", UNCHANGED <<row, list, req, last>>,
         pc' = [pc EXCEPT ![p] = pc'[p]], pc'[p] \notin {"idle", "get", "set"},
         snap' = snap \/ (snap' = [snap EXCEPT ![At(p)] = list[At(p)]] /\ pc[p] \notin InRound),
         pc'[p] \in Synced => view'[p] = list[At(p)],
         pc'[p] = "done" /\ Kind(p) = "turn" => Orphans(list[At(p)]) = {},
         pc'[p] \in {"restore", "drop"} => Kind(p) = "undo",
         pc'[p] \in {"clear", "retry", "trim"} => Kind(p) # "turn",
         pc'[p] = "tools" => Kind(p) \in Turns,
         ~cut' => ~cut /\ Fits(pc'[p], CallOf(req[p].no, round'[p]), list[At(p)])
  PROVE  CallInv'
<1>1. Has(row) => list[At(p)] = row
  BY DEF CallParts, CachesSync, Restored
<1>2. AllOrdered'
  <2>1. /\ At(p) \in Caches /\ MaybeOrdered(row)
        /\ \A c \in Caches : MaybeOrdered(list[c]) /\ MaybeOrdered(snap[c])
    BY ActiveCalls DEF CallParts, AllOrdered
  <2>2. \A c \in Caches : snap'[c] = snap[c] \/ snap'[c] = list[At(p)]
    BY <2>1 DEF IInv, Shared
  <2>. QED BY <2>1, <2>2 DEF AllOrdered, MaybeOrdered, Ordered, Calls, Result, Has
<1>3. Has(row') <=> Has(row)
  BY DEF Has
<1>4. row' = row /\ Orphans(row') = Orphans(row)
  OBVIOUS
<1>5. ASSUME ~cut'
      PROVE  /\ \A c \in Caches : MaybeAccepted(snap'[c]) /\ (c # At(p) => MaybeAccepted(list'[c]))
             /\ MaybeFits(pc'[p], CallOf(req[p].no, round'[p]), list'[At(p)])
             /\ MaybeFits(pc'[p], CallOf(req[p].no, round'[p]), row')
  <2>1. \A c \in Caches : MaybeAccepted(snap[c]) /\ (c # At(p) => MaybeAccepted(list[c]))
    BY <1>5, OneIsClosed DEF Working
  <2>2. \A c \in Caches : snap'[c] = snap[c] \/ (snap'[c] = list[At(p)] /\ pc[p] \notin InRound)
    BY DEF IInv, Shared
  <2>3. pc[p] \notin InRound => MaybeAccepted(list[At(p)])
    BY <1>5, ActiveCalls DEF Fits, MaybeAccepted
  <2>4. \A c \in Caches : MaybeAccepted(snap'[c])
    BY <2>1, <2>2, <2>3
  <2>5. \A c \in Caches : c # At(p) => MaybeAccepted(list'[c])
    BY <2>1
  <2>. QED BY <1>1, <1>5, <2>4, <2>5 DEF MaybeFits
<1>. QED BY <1>1, <1>2, <1>3, <1>4, <1>5, OneCalls DEF Working

LEMMA RequestCalls == ASSUME IInv, ~met', CallParts, NEW p \in Procs, Request(p) PROVE CallInv'
<1>1. /\ pc[p] = "idle" /\ pc' = [pc EXCEPT ![p] = "get"] /\ Active = {} /\ last' = "none"
      /\ UNCHANGED <<row, list, snap, cut>>
  BY DEF Request, Goto, session
<1>2. \A q \in Procs : pc[q] = "idle" /\ (pc'[q] = "idle" \/ (pc'[q] = "get" /\ q = p))
  BY <1>1 DEF Active, IInv, Fields
<1>3. AllOrdered'
  BY <1>1 DEF CallParts, AllOrdered, MaybeOrdered, Ordered, Calls, Result, Has
<1>4. Closed'
  <2>1. pc'[p] = "get" /\ Active' = {p}
    BY <1>1, <1>2 DEF Active, IInv, Fields
  <2>2. \A c \in Caches : ~cut => MaybeAccepted(row) /\ MaybeAccepted(snap[c]) /\ MaybeAccepted(list[c])
    BY <1>1 DEF CallParts, Closed, ClosedAtRest
  <2>3. \A l : MaybeAccepted(l) => MaybeFits("get", CallOf(req'[p].no, round'[p]), l)
    BY AcceptedIsOpen DEF MaybeAccepted, MaybeFits, Fits
  <2>4. At(p)' \in Caches
    BY <1>2, <2>1 DEF Request, At, IInv, Fields
  <2>5. ClosedBy(p)'
    <3>1. ~cut => MaybeAccepted(row)
      BY <2>2, <2>4
    <3>. QED BY <1>1, <2>1, <2>2, <2>3, <2>4, <3>1 DEF ClosedBy
  <2>. QED BY <2>1, <2>5 DEF Closed, ClosedAtRest
<1>. QED BY <1>1, <1>2, <1>3, <1>4
         DEF CallInv, CallParts, Alone, Active, ViewsSync, CachesSync, TurnsAnswer, Commands, TurnEnded, Working, Synced

LEMMA GetReadCalls == ASSUME IInv, CallParts, NEW p \in Procs, GetRead(p) PROVE CallInv'
<1>1. /\ pc[p] = "get" /\ pc' = [pc EXCEPT ![p] = "set"] /\ UNCHANGED <<row, list, snap, req, last, cut>>
  BY DEF GetRead, Goto, session
<1>2. pc' = [pc EXCEPT ![p] = pc'[p]] /\ pc'[p] = "set"
  BY <1>1 DEF IInv, Fields
<1>3. AllOrdered'
  BY <1>1 DEF CallParts, AllOrdered, MaybeOrdered, Ordered, Calls, Result, Has
<1>4. ASSUME ~cut'
      PROVE  /\ \A c \in Caches : MaybeAccepted(snap'[c]) /\ (c # At(p) => MaybeAccepted(list'[c]))
             /\ MaybeFits(pc'[p], CallOf(req[p].no, round'[p]), list'[At(p)])
             /\ MaybeFits(pc'[p], CallOf(req[p].no, round'[p]), row')
  BY <1>1, <1>2, <1>4, OneIsClosed DEF MaybeFits, Fits, InRound
<1>. QED BY <1>1, <1>2, <1>3, <1>4, OneCalls DEF Synced, Working

LEMMA GetSetCalls ==
  ASSUME NoneIsApart, IInv, KeptInv, ~hurt', CallParts, NEW p \in Procs, GetSet(p) PROVE CallInv'
<1>1. /\ pc[p] = "set" /\ list' = [list EXCEPT ![At(p)] = Reloaded(At(p), view[p])]
      /\ UNCHANGED <<row, snap, req, last, cut>> /\ ~hurt /\ p \notin moved
  BY DEF GetSet
<1>2. PICK next \in {"user", "clear", "undo", "read"} :
        /\ pc' = [pc EXCEPT ![p] = next]
        /\ next = "user" => Kind(p) \in Turns \cup {"append"}
        /\ next = "clear" => Kind(p) = "new"
        /\ next = "undo" => Kind(p) = "undo"
        /\ next = "read" => Kind(p) \notin {"append", "new"}
  BY GetSetGoes
<1>3. pc' = [pc EXCEPT ![p] = pc'[p]] /\ pc'[p] = next
  BY <1>2 DEF IInv, Fields
<1>4. view[p] = row /\ At(p) \in Caches
  BY <1>1, Itself DEF KeptInv, ReadsRow
<1>5. /\ \A c \in Caches \ {At(p)} : list'[c] = list[c]
      /\ list'[At(p)] = Reloaded(At(p), row)
  BY <1>1, <1>4 DEF IInv, Shared
<1>6. AllOrdered'
  <2>1. Ordered(list'[At(p)])
    BY <1>4, <1>5, EmptyIsOrdered DEF Reloaded, CallParts, AllOrdered, MaybeOrdered
  <2>2. \A c \in Caches : MaybeOrdered(list'[c])
    BY <1>5, <2>1 DEF CallParts, AllOrdered, MaybeOrdered
  <2>3. /\ MaybeOrdered(row') /\ \A c \in Caches : MaybeOrdered(snap'[c])
    BY <1>1 DEF CallParts, AllOrdered
  <2>. QED BY <2>2, <2>3 DEF AllOrdered, MaybeOrdered, Ordered, Calls, Result, Has
<1>7. Has(row') => list'[At(p)] = row'
  BY <1>1, <1>5 DEF Reloaded, Has
<1>8. ASSUME ~cut'
      PROVE  /\ \A c \in Caches : MaybeAccepted(snap'[c]) /\ (c # At(p) => MaybeAccepted(list'[c]))
             /\ MaybeFits(pc'[p], CallOf(req[p].no, round'[p]), list'[At(p)])
             /\ MaybeFits(pc'[p], CallOf(req[p].no, round'[p]), row')
  <2>1. /\ \A c \in Caches : MaybeAccepted(snap[c]) /\ (c # At(p) => MaybeAccepted(list[c]))
        /\ MaybeFits("set", CallOf(req[p].no, round[p]), list[At(p)])
        /\ MaybeFits("set", CallOf(req[p].no, round[p]), row)
    BY <1>1, <1>8, OneIsClosed
  <2>2. MaybeAccepted(list[At(p)]) /\ MaybeAccepted(row)
    BY <2>1 DEF MaybeFits, Fits, MaybeAccepted, InRound
  <2>3. Accepted(list'[At(p)]) /\ MaybeAccepted(row')
    BY <1>1, <1>5, <2>2, EmptyIsOrdered DEF Reloaded, MaybeAccepted
  <2>4. \A l : Accepted(l) => Fits(pc'[p], CallOf(req[p].no, round'[p]), l)
    BY <1>3, AcceptedIsOpen DEF Fits
  <2>5. /\ MaybeFits(pc'[p], CallOf(req[p].no, round'[p]), list'[At(p)])
        /\ MaybeFits(pc'[p], CallOf(req[p].no, round'[p]), row')
    BY <2>3, <2>4 DEF MaybeFits, MaybeAccepted
  <2>. QED BY <1>1, <1>5, <2>1, <2>5
<1>9. pc'[p] = "clear" => Kind(p) # "turn"
  BY <1>2, <1>3
<1>. QED BY <1>1, <1>2, <1>3, <1>6, <1>7, <1>8, <1>9, OneCalls DEF Synced

LEMMA AppendNamedCalls ==
  ASSUME NoneIsApart, IInv, ~hurt', CallParts, NEW p \in Procs, AppendNamed(p) PROVE CallInv'
<1>1. /\ pc[p] = "user" /\ pc' = [pc EXCEPT ![p] = pc'[p]] /\ pc'[p] \in {"done", "read"}
      /\ pc'[p] = "done" => Kind(p) # "turn"
      /\ UNCHANGED <<req, last, cut>>
      /\ \/ AppendMsg(p, Named(p))
         \/ UNCHANGED <<row, list, snap>>
  BY DEF AppendNamed, AppendIfAbsent, Goto, locals, session, IInv, Fields
<1>2. Named(p) \in Message /\ Named(p).role # "call"
  BY <1>1, NamedIsMessage DEF Named
<1>3. list[At(p)] \in Lists /\ (~cut => Accepted(list[At(p)]))
  BY <1>1, ActiveCalls DEF Working, Fits, InRound
<1>4. CASE AppendMsg(p, Named(p))
  <2>1. ~cut' => ~cut /\ Fits(pc'[p], CallOf(req[p].no, round'[p]), Append(list[At(p)], Named(p)))
    BY <1>1, <1>2, <1>3, AppendIsAccepted, AcceptedIsOpen DEF Fits
  <2>. QED BY <1>1, <1>2, <1>4, <2>1, AppendCalls DEF Working, Synced
<1>5. CASE UNCHANGED <<row, list, snap>>
  <2>1. ~cut' => ~cut /\ Fits(pc'[p], CallOf(req[p].no, round'[p]), list[At(p)])
    BY <1>1, <1>3, AcceptedIsOpen DEF Fits
  <2>. QED BY <1>1, <1>5, <2>1, RestCalls DEF Working, Synced
<1>. QED BY <1>1, <1>4, <1>5

LEMMA ReadCalls == ASSUME NoneIsApart, IInv, CallParts, NEW p \in Procs, Read(p) PROVE CallInv'
<1>0. PICK next \in {"compact", "model", "drop", "retry"} :
        /\ pc' = [pc EXCEPT ![p] = next]
        /\ next = "drop" => Kind(p) = "undo"
        /\ next = "retry" => Kind(p) # "turn"
        /\ Kind(p) \in AllKinds
  BY ReadGoes
<1>1. /\ pc[p] = "read" /\ view' = [view EXCEPT ![p] = list[At(p)]] /\ UNCHANGED <<row, list, snap, req, last, cut>>
      /\ pc' = [pc EXCEPT ![p] = pc'[p]] /\ pc'[p] = next
  BY <1>0 DEF Read, session, IInv, Fields
<1>2. view'[p] = list[At(p)]
  BY <1>1 DEF IInv, Fields
<1>3. ~cut' => ~cut /\ Fits(pc'[p], CallOf(req[p].no, round'[p]), list[At(p)])
  BY <1>1, ActiveCalls DEF Working, Fits, InRound
<1>. QED BY <1>0, <1>1, <1>2, <1>3, RestCalls DEF Working

LEMMA CompactCalls == ASSUME NoneIsApart, IInv, ~hurt', CallParts, NEW p \in Procs, Compact(p) PROVE CallInv'
<1>1. /\ pc[p] = "compact" /\ pc' = [pc EXCEPT ![p] = pc'[p]] /\ pc'[p] \in {"model", "done"}
      /\ pc'[p] = "done" => Kind(p) # "turn"
      /\ view' = view /\ UNCHANGED <<req, last, cut>>
      /\ Save(p, view[p], p \in moved) \/ UNCHANGED <<row, list, snap>>
  BY DEF Compact, Replace, Goto, locals, session, IInv, Fields, Turns
<1>2. view[p] = list[At(p)] /\ Ordered(view[p]) /\ Has(view[p])
  BY <1>1, ActiveCalls DEF Working, Synced
<1>3. ~cut' => ~cut /\ Fits(pc'[p], CallOf(req[p].no, round'[p]), list[At(p)])
  BY <1>1, ActiveCalls DEF Working, Fits, InRound
<1>4. CASE Save(p, view[p], p \in moved)
  <2>1. (p \in moved) \in BOOLEAN
    OBVIOUS
  <2>. QED BY <1>1, <1>2, <1>3, <1>4, <2>1, WriteCalls DEF Working
<1>5. CASE UNCHANGED <<row, list, snap>>
  BY <1>1, <1>2, <1>3, <1>5, RestCalls DEF Working
<1>. QED BY <1>1, <1>4, <1>5

\* Where the loop is left, a plain turn goes on to its padding.
LEMMA ModelCallsStep ==
  ASSUME NoneIsApart, IInv, ~hurt', CallParts, NEW p \in Procs, ModelFails(p) \/ ModelReplies(p)
  PROVE  CallInv'
<1>1. /\ pc[p] = "model" /\ pc' = [pc EXCEPT ![p] = pc'[p]] /\ pc'[p] \in {"pad", "done"}
      /\ pc'[p] = "done" => Kind(p) # "turn"
      /\ UNCHANGED <<req, last, cut>>
      /\ AppendMsg(p, Tag(p, "reply")) \/ UNCHANGED <<row, list, snap>>
  BY DEF ModelFails, ModelReplies, Model, End, Goto, locals, session, counters, history, IInv, Fields
<1>2. list[At(p)] \in Lists /\ (~cut => Accepted(list[At(p)]))
  BY <1>1, ActiveCalls DEF Working, Fits, InRound
<1>3. CASE AppendMsg(p, Tag(p, "reply"))
  <2>1. Tag(p, "reply") \in Message /\ Tag(p, "reply").role # "call"
    BY <1>1, TagIsMessage DEF Roles
  <2>2. ~cut' => ~cut /\ Fits(pc'[p], CallOf(req[p].no, round'[p]), Append(list[At(p)], Tag(p, "reply")))
    BY <1>1, <1>2, <2>1, AppendIsAccepted, AcceptedIsOpen DEF Fits
  <2>. QED BY <1>1, <1>3, <2>1, <2>2, AppendCalls DEF Working, Synced
<1>4. CASE UNCHANGED <<row, list, snap>>
  <2>1. ~cut' => ~cut /\ Fits(pc'[p], CallOf(req[p].no, round'[p]), list[At(p)])
    BY <1>1, <1>2, AcceptedIsOpen DEF Fits
  <2>. QED BY <1>1, <1>4, <2>1, RestCalls DEF Working, Synced
<1>. QED BY <1>1, <1>3, <1>4

\* A stream that runs in circles leaves its call behind.
LEMMA LoopCalls == ASSUME NoneIsApart, IInv, ~hurt', CallParts, NEW p \in Procs, LoopDetected(p) PROVE CallInv'
<1>1. /\ pc[p] = "tools" /\ pc' = [pc EXCEPT ![p] = pc'[p]] /\ pc'[p] \in {"pad", "done"}
      /\ pc'[p] = "done" => Kind(p) # "turn"
      /\ pc'[p] = "pad" \/ Kind(p) \notin {"turn", "read"}
      /\ cut' = (cut \/ Kind(p) = "stream") /\ UNCHANGED <<req, last>>
      /\ AppendMsg(p, Tag(p, "warn"))
  BY DEF LoopDetected, End, Goto, locals, IInv, Fields
<1>2. Kind(p) \in Turns
  BY <1>1 DEF CallParts, Commands
<1>3. ~cut' => ~cut /\ pc'[p] = "pad"
  BY <1>1, <1>2 DEF Turns
<1>4. list[At(p)] \in Lists /\ (~cut => Open(list[At(p)]))
  BY <1>1, ActiveCalls DEF Working, Fits
<1>5. Tag(p, "warn") \in Message /\ Tag(p, "warn").role = "warn"
  BY <1>1, TagIsMessage DEF Roles
<1>6. ~cut' => ~cut /\ Fits(pc'[p], CallOf(req[p].no, round'[p]), Append(list[At(p)], Tag(p, "warn")))
  BY <1>3, <1>4, <1>5, AppendIsOpen DEF Fits, InRound
<1>. QED BY <1>1, <1>5, <1>6, AppendCalls DEF Working, Synced

LEMMA CallCalls == ASSUME NoneIsApart, IInv, ~hurt', CallParts, NEW p \in Procs, ModelCalls(p) PROVE CallInv'
<1>. DEFINE m == Tag(p, "call")
            l == list[At(p)]
<1>1. /\ pc[p] = "model" /\ pc' = [pc EXCEPT ![p] = pc'[p]] /\ pc'[p] = "tools" /\ Kind(p) \in Turns
      /\ AppendMsg(p, m) /\ view' = [view EXCEPT ![p] = Append(view[p], m)]
      /\ Accepted(view[p]) /\ UNCHANGED <<req, round, last, cut>>
  BY DEF ModelCalls, Model, Goto, IInv, Fields
<1>2. m \in Message /\ m.role = "call" /\ m = CallOf(req[p].no, round'[p])
  BY <1>1, TagIsMessage DEF Roles, Tag, CallOf
<1>3. view[p] = l /\ view'[p] = Append(l, m) /\ l \in Lists
  BY <1>1, ActiveCalls DEF Working, Synced, IInv, Fields
<1>4. Orphans(l) = {} /\ Open(Append(l, m))
  BY <1>1, <1>2, <1>3, AcceptedIsAnswered, AppendIsOpen
<1>5. Len(Append(l, m)) \in DOMAIN Append(l, m) /\ Append(l, m)[Len(Append(l, m))] = m
  <2>1. l \in Seq(Message)
    BY <1>3 DEF Lists
  <2>2. Len(Append(l, m)) = Len(l) + 1
    BY <1>2, <2>1, AppendProperties
  <2>. QED BY <1>2, <1>3, <2>2, AppendCallPlaces
<1>6. ~cut' => ~cut /\ Fits(pc'[p], CallOf(req[p].no, round'[p]), Append(l, m))
  BY <1>1, <1>2, <1>4, <1>5 DEF Fits, InRound
<1>7. AppendMsg(p, m) /\ m \in Message /\ (m.role = "call" => Orphans(list[At(p)]) = {})
  BY <1>1, <1>2, <1>4
<1>. HIDE DEF m
<1>. QED BY <1>1, <1>3, <1>6, <1>7, AppendCalls DEF Working, Synced

LEMMA ToolCalls == ASSUME NoneIsApart, IInv, ~hurt', CallParts, NEW p \in Procs, ToolsAnswer(p) PROVE CallInv'
<1>. DEFINE m == Tag(p, "tool")
            l == list[At(p)]
<1>1. /\ pc[p] = "tools" /\ pc' = [pc EXCEPT ![p] = pc'[p]]
      /\ pc'[p] \in {"model", "pad", "done"} /\ (pc'[p] = "done" => Kind(p) # "turn")
      /\ AppendMsg(p, m) /\ view' = [view EXCEPT ![p] = Append(view[p], m)] /\ UNCHANGED <<req, last, cut>>
  BY DEF ToolsAnswer, End, Goto, IInv, Fields
<1>2. m \in Message /\ m.role = "tool" /\ m = Result(CallOf(req[p].no, round[p]))
  <2>1. pc[p] # "idle" /\ "tool" \in Roles
    BY <1>1 DEF Roles
  <2>2. m \in Message /\ m.role = "tool"
    BY <2>1, TagIsMessage
  <2>3. m = Result(CallOf(req[p].no, round[p]))
    BY DEF Tag, CallOf, Result
  <2>. QED BY <2>2, <2>3
<1>3. view[p] = l /\ view'[p] = Append(l, m) /\ l \in Lists
  BY <1>1, ActiveCalls DEF Working, Synced, IInv, Fields
<1>4. ~cut => Accepted(Append(l, m))
  <2>. SUFFICES ASSUME ~cut PROVE Accepted(Append(l, m))
    OBVIOUS
  <2>1. Open(l) /\ Len(l) \in DOMAIN l /\ l[Len(l)] = CallOf(req[p].no, round[p])
    BY <1>1, ActiveCalls DEF Working, Fits
  <2>2. Len(l) \in Calls(l) /\ OnlyWarned(l, Len(l))
    BY <1>3, <2>1 DEF Calls, CallOf, OnlyWarned, Lists
  <2>3. m = Result(l[Len(l)])
    BY <1>2, <2>1
  <2>. HIDE DEF m, l
  <2>. QED BY <1>2, <1>3, <2>1, <2>2, <2>3, ResultCloses
<1>5. ~cut' => ~cut /\ Fits(pc'[p], CallOf(req[p].no, round'[p]), Append(l, m))
  BY <1>1, <1>4, AcceptedIsOpen DEF Fits
<1>6. AppendMsg(p, m) /\ m \in Message /\ m.role # "call"
  BY <1>1, <1>2
<1>. HIDE DEF m
<1>. QED BY <1>1, <1>3, <1>5, <1>6, AppendCalls DEF Working, Synced

LEMMA PadReadCalls == ASSUME NoneIsApart, IInv, CallParts, NEW p \in Procs, PadRead(p) PROVE CallInv'
<1>1. /\ pc[p] = "pad" /\ pc' = [pc EXCEPT ![p] = "padWrite"] /\ view' = [view EXCEPT ![p] = list[At(p)]]
      /\ UNCHANGED <<row, list, snap, req, last, cut>>
  BY DEF PadRead, Goto, session, history
<1>2. pc' = [pc EXCEPT ![p] = pc'[p]] /\ pc'[p] = "padWrite" /\ view'[p] = list[At(p)]
  BY <1>1 DEF IInv, Fields
<1>3. ~cut' => ~cut /\ Fits(pc'[p], CallOf(req[p].no, round'[p]), list[At(p)])
  BY <1>1, <1>2, ActiveCalls DEF Working, Fits, InRound
<1>. QED BY <1>1, <1>2, <1>3, RestCalls DEF Working

LEMMA PadWriteCalls == ASSUME NoneIsApart, IInv, ~hurt', CallParts, NEW p \in Procs, PadWrite(p) PROVE CallInv'
<1>. DEFINE l == list[At(p)]
<1>1. /\ pc[p] = "padWrite" /\ pc' = [pc EXCEPT ![p] = "done"] /\ UNCHANGED <<req, last, cut>>
      /\ \/ Unanswered(view[p]) = {} /\ UNCHANGED <<row, list, snap>>
         \/ \E i \in Unanswered(view[p]) : AppendMsg(p, Result(view[p][i]))
  BY DEF PadWrite, Goto, locals, session
<1>2. pc' = [pc EXCEPT ![p] = pc'[p]] /\ pc'[p] = "done"
  BY <1>1 DEF IInv, Fields
<1>3. view[p] = l /\ l \in Lists /\ Ordered(l) /\ (~cut => Open(l))
  BY <1>1, ActiveCalls DEF Working, Synced, Fits
<1>4. CASE Unanswered(view[p]) = {} /\ UNCHANGED <<row, list, snap>>
  <2>1. Orphans(l) = {}
    BY <1>3, <1>4, NothingToPad
  <2>2. ~cut' => ~cut /\ Fits(pc'[p], CallOf(req[p].no, round'[p]), list[At(p)])
    BY <1>1, <1>2, <1>3, <2>1, OpenIsClosed DEF Fits
  <2>. QED BY <1>1, <1>2, <1>4, <2>1, <2>2, RestCalls DEF Working, Synced
<1>5. ASSUME NEW i \in Unanswered(view[p]), AppendMsg(p, Result(view[p][i])) PROVE CallInv'
  <2>. DEFINE a == Result(l[i])
  <2>1. a \in Message /\ a.role = "tool"
    BY <1>1, <1>3, <1>5, PadIsMessage
  <2>2. Orphans(Append(l, a)) = {}
    BY <1>3, <1>5, <2>1, PaddedIsAnswered
  <2>3. AppendMsg(p, a)
    BY <1>3, <1>5
  <2>4. ~cut => Accepted(Append(l, a))
    <3>1. i \in Orphans(l)
      BY <1>3, <1>5 DEF Unanswered
    <3>. QED BY <1>3, <2>1, <3>1, OpenIsClosed, ResultCloses
  <2>. HIDE DEF a
  <2>5. ~cut' => ~cut /\ Fits(pc'[p], CallOf(req[p].no, round'[p]), Append(l, a))
    BY <1>1, <1>2, <2>4, AcceptedIsOpen DEF Fits
  <2>. QED BY <1>1, <1>2, <2>1, <2>2, <2>3, <2>5, AppendCalls DEF Working, Synced
<1>. QED BY <1>1, <1>4, <1>5

LEMMA ClearCalls == ASSUME NoneIsApart, IInv, ~hurt', CallParts, NEW p \in Procs, Clear(p) PROVE CallInv'
<1>1. /\ pc[p] = "clear" /\ pc' = [pc EXCEPT ![p] = "done"] /\ list' = [list EXCEPT ![At(p)] = <<>>]
      /\ faults' = faults /\ UNCHANGED <<snap, req, last, cut>>
  BY DEF Clear, Goto, Note
<1>2. row' = None
  <2>1. faults \in Nat
    BY BoundsAssumption DEF IInv, Counts
  <2>. QED BY <1>1, <2>1 DEF Clear
<1>3. pc' = [pc EXCEPT ![p] = pc'[p]] /\ pc'[p] = "done"
  BY <1>1 DEF IInv, Fields
<1>4. AllOrdered'
  <2>1. \A c \in Caches : list'[c] = <<>> \/ list'[c] = list[c]
    BY <1>1 DEF IInv, Shared
  <2>. QED BY <1>1, <1>2, <2>1, EmptyIsOrdered DEF CallParts, AllOrdered, MaybeOrdered, Ordered, Calls, Result, Has
<1>5. ~Has(row')
  BY <1>2 DEF Has
<1>6. Kind(p) # "turn"
  BY <1>1 DEF CallParts, Commands
<1>7. ASSUME ~cut'
      PROVE  /\ \A c \in Caches : MaybeAccepted(snap'[c]) /\ (c # At(p) => MaybeAccepted(list'[c]))
             /\ MaybeFits(pc'[p], CallOf(req[p].no, round'[p]), list'[At(p)])
             /\ MaybeFits(pc'[p], CallOf(req[p].no, round'[p]), row')
  <2>1. \A c \in Caches : MaybeAccepted(snap[c]) /\ (c # At(p) => MaybeAccepted(list[c]))
    BY <1>1, <1>7, OneIsClosed
  <2>2. /\ \A c \in Caches : snap'[c] = snap[c] /\ (c # At(p) => list'[c] = list[c])
        /\ list'[At(p)] = <<>>
    BY <1>1, Itself DEF IInv, Shared
  <2>3. Fits(pc'[p], CallOf(req[p].no, round'[p]), <<>>)
    BY <1>3, EmptyIsOrdered, AcceptedIsOpen DEF Fits
  <2>. QED BY <1>5, <2>1, <2>2, <2>3 DEF MaybeFits
<1>. QED BY <1>1, <1>3, <1>4, <1>5, <1>6, <1>7, OneCalls DEF Synced, Has

LEMMA SnapshotCalls == ASSUME NoneIsApart, IInv, CallParts, NEW p \in Procs, Snapshot(p) PROVE CallInv'
<1>1. /\ pc[p] = "retry" /\ pc' = [pc EXCEPT ![p] = pc'[p]] /\ pc'[p] \in {"done", "trim"}
      /\ snap' = snap \/ snap' = [snap EXCEPT ![At(p)] = list[At(p)]]
      /\ UNCHANGED <<row, list, req, view, last, cut>>
  BY DEF Snapshot, Goto, locals, counters, history, IInv, Fields
<1>2. Kind(p) # "turn" /\ view[p] = list[At(p)] /\ pc[p] \notin InRound
  BY <1>1 DEF CallParts, Commands, ViewsSync, Synced, InRound
<1>3. ~cut' => ~cut /\ Fits(pc'[p], CallOf(req[p].no, round'[p]), list[At(p)])
  BY <1>1, ActiveCalls DEF Working, Fits, InRound
<1>. QED BY <1>1, <1>2, <1>3, RestCalls DEF Working

LEMMA TrimCalls == ASSUME NoneIsApart, IInv, ~hurt', CallParts, NEW p \in Procs, Trim(p) PROVE CallInv'
<1>. DEFINE l == SubSeq(view[p], 1, LastUser(view[p]) - 1)
<1>1. /\ pc[p] = "trim" /\ pc' = [pc EXCEPT ![p] = "done"] /\ Save(p, l, p \in moved) /\ UNCHANGED <<req, last, cut>>
  BY DEF Trim, Replace, Goto
<1>2. /\ Good(view[p]) /\ Has(view[p]) /\ view[p] \in Lists /\ UserTurns(view[p]) # {} /\ Ordered(view[p])
      /\ ~cut => Accepted(view[p])
  BY <1>1, Itself, ActiveCalls DEF IInv, Knows, Working, Synced, Fits, InRound
<1>3. Len(view[p]) \in Nat /\ LastUser(view[p]) \in 1..Len(view[p])
  BY <1>2, LastUserIsThere DEF Lists
<1>4. LastUser(view[p]) - 1 \in 0..Len(view[p])
  BY <1>3
<1>5. Good(l) /\ Ordered(l)
  BY <1>2, <1>4, PrefixIsGood, PrefixIsOrdered
<1>6. Has(l)
  BY <1>5 DEF Good, Has, NoneIsApart
<1>7. ~cut => Accepted(l)
  <2>1. \A i, j \in DOMAIN view[p] : Follows(view[p], i, j) /\ i <= LastUser(view[p]) - 1 => j <= LastUser(view[p]) - 1
    BY <1>2, TrimCuts
  <2>. QED BY <1>2, <1>4, <2>1, PrefixIsAccepted
<1>. HIDE DEF l
<1>8. pc' = [pc EXCEPT ![p] = pc'[p]] /\ pc'[p] = "done" /\ Kind(p) # "turn" /\ (p \in moved) \in BOOLEAN
  BY <1>1 DEF IInv, Fields, CallParts, Commands
<1>9. ~cut' => ~cut /\ Fits(pc'[p], CallOf(req[p].no, round'[p]), l)
  BY <1>1, <1>7, <1>8, AcceptedIsOpen DEF Fits
<1>. QED BY <1>1, <1>5, <1>6, <1>8, <1>9, WriteCalls DEF Working, Synced

LEMMA UndoCalls == ASSUME NoneIsApart, IInv, CallParts, NEW p \in Procs, Undo(p) PROVE CallInv'
<1>1. /\ pc[p] = "undo" /\ pc' = [pc EXCEPT ![p] = pc'[p]] /\ pc'[p] \in {"restore", "read"} /\ Kind(p) = "undo"
      /\ UNCHANGED <<row, list, snap, req, view, last, cut>>
  BY DEF Undo, Goto, session, locals, counters, history, IInv, Fields, Knows
<1>2. ~cut' => ~cut /\ Fits(pc'[p], CallOf(req[p].no, round'[p]), list[At(p)])
  BY <1>1, ActiveCalls DEF Working, Fits, InRound
<1>. QED BY <1>1, <1>2, RestCalls DEF Working, Synced

LEMMA RestoreCalls == ASSUME NoneIsApart, IInv, ~hurt', CallParts, NEW p \in Procs, Restore(p) PROVE CallInv'
<1>1. pc[p] = "restore" /\ pc' = [pc EXCEPT ![p] = "done"] /\ UNCHANGED <<req, last, cut>>
  BY DEF Restore, Goto
<1>2. pc' = [pc EXCEPT ![p] = pc'[p]] /\ pc'[p] = "done" /\ Kind(p) = "undo"
  BY <1>1 DEF IInv, Fields, CallParts, Commands
<1>3. CASE Has(snap[At(p)])
  <2>1. /\ list' = [list EXCEPT ![At(p)] = snap[At(p)]] /\ snap' = [snap EXCEPT ![At(p)] = None] /\ row' = row
    BY <1>3 DEF Restore
  <2>2. /\ \A c \in Caches : list'[c] = snap[At(p)] \/ list'[c] = list[c]
        /\ \A c \in Caches : snap'[c] = None \/ snap'[c] = snap[c]
        /\ \A c \in Caches : c # At(p) => list'[c] = list[c]
        /\ At(p) \in Caches /\ list'[At(p)] = snap[At(p)]
    BY <1>1, <2>1, Itself DEF IInv, Shared
  <2>3. AllOrdered'
    BY <1>3, <2>1, <2>2 DEF CallParts, AllOrdered, MaybeOrdered, Has
  <2>4. Restored(p)'
    BY <1>1, <1>2 DEF Restored, Kind
  <2>5. ASSUME ~cut'
        PROVE  /\ \A c \in Caches : MaybeAccepted(snap'[c]) /\ (c # At(p) => MaybeAccepted(list'[c]))
               /\ MaybeFits(pc'[p], CallOf(req[p].no, round'[p]), list'[At(p)])
               /\ MaybeFits(pc'[p], CallOf(req[p].no, round'[p]), row')
    <3>1. /\ \A c \in Caches : MaybeAccepted(snap[c]) /\ (c # At(p) => MaybeAccepted(list[c]))
          /\ MaybeFits(pc[p], CallOf(req[p].no, round[p]), row)
      BY <1>1, <2>5, OneIsClosed
    <3>2. MaybeAccepted(row)
      BY <1>1, <3>1 DEF MaybeFits, Fits, MaybeAccepted, InRound
    <3>3. \A l : MaybeAccepted(l) => MaybeFits(pc'[p], CallOf(req[p].no, round'[p]), l)
      BY <1>2, AcceptedIsOpen DEF MaybeFits, Fits, MaybeAccepted
    <3>4. \A c \in Caches : MaybeAccepted(snap'[c])
      BY <2>2, <3>1 DEF MaybeAccepted, Has
    <3>. QED BY <2>1, <2>2, <3>1, <3>2, <3>3, <3>4
  <2>. QED BY <1>1, <1>2, <2>3, <2>4, <2>5, OneCalls DEF Synced
<1>4. CASE ~Has(snap[At(p)])
  <2>1. UNCHANGED <<row, list, snap>>
    BY <1>4 DEF Restore, session
  <2>2. ~cut' => ~cut /\ Fits(pc'[p], CallOf(req[p].no, round'[p]), list[At(p)])
    BY <1>1, <1>2, ActiveCalls DEF Working, Fits, InRound
  <2>. QED BY <1>1, <1>2, <2>1, <2>2, RestCalls DEF Working, Synced
<1>. QED BY <1>3, <1>4

LEMMA DropTurnCalls == ASSUME NoneIsApart, IInv, ~hurt', CallParts, NEW p \in Procs, DropTurn(p) PROVE CallInv'
<1>. DEFINE l == SubSeq(view[p], 1, LastTurn(view[p]))
<1>1. pc[p] = "drop" /\ pc' = [pc EXCEPT ![p] = "done"] /\ UNCHANGED <<req, last, cut>>
  BY DEF DropTurn, Goto
<1>2. pc' = [pc EXCEPT ![p] = pc'[p]] /\ pc'[p] = "done" /\ Kind(p) = "undo"
  BY <1>1 DEF IInv, Fields, CallParts, Commands
<1>3. CASE Len(view[p]) < 2
  <2>1. UNCHANGED <<row, list, snap>>
    BY <1>3 DEF DropTurn, session
  <2>2. ~cut' => ~cut /\ Fits(pc'[p], CallOf(req[p].no, round'[p]), list[At(p)])
    BY <1>1, <1>2, ActiveCalls DEF Working, Fits, InRound
  <2>. QED BY <1>1, <1>2, <2>1, <2>2, RestCalls DEF Working, Synced
<1>4. CASE ~(Len(view[p]) < 2)
  <2>1. Save(p, l, p \in moved) /\ (p \in moved) \in BOOLEAN
    BY <1>4 DEF DropTurn, Replace
  <2>2. Good(view[p]) /\ Has(view[p]) /\ view[p] \in Lists /\ Ordered(view[p]) /\ (~cut => Accepted(view[p]))
    BY <1>1, Itself, ActiveCalls DEF Working, Synced, Fits, InRound
  <2>3. Good(l) /\ Ordered(l)
    BY <2>2, LastTurnIsThere, PrefixIsGood, PrefixIsOrdered
  <2>4. Has(l)
    BY <2>3 DEF Good, Has, NoneIsApart
  <2>5. ~cut => Accepted(l)
    <3>1. \A i, j \in DOMAIN view[p] : Follows(view[p], i, j) /\ i <= LastTurn(view[p]) => j <= LastTurn(view[p])
      BY <2>2, DropCuts
    <3>. QED BY <2>2, <3>1, LastTurnIsThere, PrefixIsAccepted
  <2>. HIDE DEF l
  <2>6. ~cut' => ~cut /\ Fits(pc'[p], CallOf(req[p].no, round'[p]), l)
    BY <1>1, <1>2, <2>5, AcceptedIsOpen DEF Fits
  <2>. QED BY <1>1, <1>2, <2>1, <2>3, <2>4, <2>6, WriteCalls DEF Working, Synced
<1>. QED BY <1>3, <1>4

\* A turn that ends has answered its calls.
LEMMA FinishCalls == ASSUME IInv, CallParts, NEW p \in Procs, Finish(p) PROVE CallInv'
<1>1. /\ pc[p] = "done" /\ last' = Kind(p) /\ Leave({p}) /\ UNCHANGED <<row, list, snap, cut>>
  BY DEF Finish, session
<1>2. \A q \in Procs : pc'[q] = "idle"
  BY <1>1 DEF Leave, CallParts, Alone, Active
<1>3. AllOrdered' /\ TurnEnded'
  BY <1>1 DEF CallParts, AllOrdered, MaybeOrdered, Ordered, Result, TurnsAnswer, TurnEnded, Orphans, Calls,
     Resolved, Has
<1>4. Closed'
  <2>1. ASSUME ~cut
        PROVE  MaybeAccepted(row) /\ \A c \in Caches : MaybeAccepted(snap[c]) /\ MaybeAccepted(list[c])
    <3>1. /\ \A c \in Caches : MaybeAccepted(snap[c]) /\ (c # At(p) => MaybeAccepted(list[c]))
          /\ MaybeFits("done", CallOf(req[p].no, round[p]), list[At(p)])
          /\ MaybeFits("done", CallOf(req[p].no, round[p]), row)
      BY <1>1, <2>1, OneIsClosed
    <3>2. MaybeAccepted(list[At(p)]) /\ MaybeAccepted(row)
      BY <3>1 DEF MaybeFits, Fits, MaybeAccepted, InRound
    <3>. QED BY <3>1, <3>2
  <2>2. Active' = {}
    BY <1>2 DEF Active
  <2>. QED BY <1>1, <2>1, <2>2 DEF Closed, ClosedAtRest
<1>. QED BY <1>2, <1>3, <1>4
         DEF CallInv, CallParts, Alone, Active, ViewsSync, CachesSync, TurnsAnswer, Commands, Working, Synced

\* A process that dies outside its round leaves the lists as they have to be.
LEMMA CrashCalls == ASSUME IInv, CallParts, NEW c \in Caches, Crash(c) PROVE CallInv'
<1>. DEFINE ps == {p \in Active : At(p) = c}
<1>1. /\ last' = "none" /\ Leave(ps) /\ row' = row
      /\ list' = [list EXCEPT ![c] = None] /\ snap' = [snap EXCEPT ![c] = None]
      /\ cut' = (cut \/ \E p \in ps : pc[p] \in InRound)
  BY DEF Crash
<1>2. /\ \A q \in ps : pc'[q] = "idle" /\ q \in Active
      /\ \A q \in Procs \ ps : pc'[q] = pc[q] /\ req'[q] = req[q] /\ view'[q] = view[q] /\ round'[q] = round[q]
  BY <1>1 DEF Leave, Active
<1>3. ASSUME NEW q \in Procs, pc'[q] # "idle"
      PROVE  /\ pc'[q] = pc[q] /\ view'[q] = view[q] /\ Kind(q)' = Kind(q) /\ req'[q] = req[q] /\ round'[q] = round[q]
             /\ At(q)' = At(q) /\ list'[At(q)] = list[At(q)] /\ q \in Active
  <2>1. q \notin ps
    BY <1>2, <1>3
  <2>2. pc[q] # "idle" /\ At(q) # c /\ At(q) \in Caches
    BY <1>2, <1>3, <2>1, Itself DEF Active
  <2>. QED BY <1>1, <1>2, <2>1, <2>2 DEF Kind, At, Active, IInv, Shared
<1>. HIDE DEF ps
<1>4. \A d \in Caches : (list'[d] = None \/ list'[d] = list[d]) /\ (snap'[d] = None \/ snap'[d] = snap[d])
  BY <1>1 DEF IInv, Shared
<1>5. AllOrdered'
  BY <1>1, <1>4 DEF CallParts, AllOrdered, MaybeOrdered, Ordered, Calls, Result, Has
<1>6. Alone' /\ TurnEnded'
  BY <1>1, <1>3 DEF CallParts, Alone, Active, TurnEnded
<1>7. ViewsSync' /\ Commands'
  BY <1>3 DEF CallParts, ViewsSync, Commands, Synced
<1>8. CachesSync'
  BY <1>1, <1>3 DEF CallParts, CachesSync, Working, Restored, Has
<1>9. TurnsAnswer'
  BY <1>1, <1>3 DEF CallParts, TurnsAnswer, Has, Orphans, Calls, Resolved, Result
<1>10. Closed'
  <2>1. \A l : MaybeAccepted(None) /\ (MaybeAccepted(l) => MaybeAccepted(l))
    BY DEF MaybeAccepted, Has
  <2>2. ClosedAtRest'
    <3>. SUFFICES ASSUME Active' = {}, ~cut'
                  PROVE  MaybeAccepted(row) /\ \A d \in Caches : MaybeAccepted(snap'[d]) /\ MaybeAccepted(list'[d])
      BY <1>1 DEF ClosedAtRest
    <3>1. CASE Active = {}
      BY <1>1, <1>4, <2>1, <3>1 DEF CallParts, Closed, ClosedAtRest
    <3>2. ASSUME NEW p \in Active PROVE MaybeAccepted(row) /\ \A d \in Caches : MaybeAccepted(snap'[d]) /\ MaybeAccepted(list'[d])
      <4>1. p \in Procs /\ pc[p] # "idle" /\ ~cut
        BY <1>1 DEF Active
      <4>2. p \in ps
        BY <1>2, <4>1 DEF Active
      <4>3. pc[p] \notin InRound /\ At(p) = c
        BY <1>1, <4>2 DEF ps
      <4>4. /\ \A d \in Caches : MaybeAccepted(snap[d]) /\ (d # c => MaybeAccepted(list[d]))
            /\ MaybeFits(pc[p], CallOf(req[p].no, round[p]), row)
        BY <4>1, <4>3, OneIsClosed
      <4>5. MaybeAccepted(row)
        BY <4>3, <4>4 DEF MaybeFits, Fits, MaybeAccepted
      <4>6. list'[c] = None
        BY <1>1 DEF IInv, Shared
      <4>. QED BY <1>4, <2>1, <4>4, <4>5, <4>6
    <3>. QED BY <3>1, <3>2
  <2>3. ASSUME NEW q \in Active' PROVE ClosedBy(q)'
    <3>1. /\ q \in Procs /\ pc'[q] = pc[q] /\ req'[q] = req[q] /\ round'[q] = round[q]
          /\ At(q)' = At(q) /\ list'[At(q)] = list[At(q)] /\ q \in Active
      BY <1>3, <2>3 DEF Active
    <3>2. ASSUME ~cut'
          PROVE  /\ \A d \in Caches : MaybeAccepted(snap'[d]) /\ (d # At(q) => MaybeAccepted(list'[d]))
                 /\ MaybeFits(pc'[q], CallOf(req'[q].no, round'[q]), list'[At(q)])
                 /\ MaybeFits(pc'[q], CallOf(req'[q].no, round'[q]), row')
      <4>1. ~cut /\ pc[q] # "idle"
        BY <1>1, <3>1, <3>2 DEF Active
      <4>2. /\ \A d \in Caches : MaybeAccepted(snap[d]) /\ (d # At(q) => MaybeAccepted(list[d]))
            /\ MaybeFits(pc[q], CallOf(req[q].no, round[q]), list[At(q)])
            /\ MaybeFits(pc[q], CallOf(req[q].no, round[q]), row)
        BY <3>1, <4>1, OneIsClosed
      <4>. QED BY <1>1, <1>4, <2>1, <3>1, <4>2
    <3>. QED BY <3>1, <3>2 DEF ClosedBy
  <2>. QED BY <2>2, <2>3 DEF Closed
<1>. QED BY <1>5, <1>6, <1>7, <1>8, <1>9, <1>10 DEF CallInv, CallParts

\* What met or hurt stays so.
LEMMA HistoryStays == ASSUME Next PROVE (met => met') /\ (hurt => hurt')
<1>1. ASSUME NEW p \in Procs, Step(p) PROVE (met => met') /\ (hurt => hurt')
  <2>1. ASSUME Request(p) \/ GetRead(p) \/ GetSet(p) \/ Read(p) PROVE (met => met') /\ (hurt => hurt')
    <3>1. ASSUME Request(p) PROVE (met => met') /\ (hurt => hurt')
      BY <3>1 DEF Request
    <3>2. ASSUME GetRead(p) PROVE (met => met') /\ (hurt => hurt')
      BY <3>2 DEF GetRead
    <3>3. ASSUME GetSet(p) PROVE (met => met') /\ (hurt => hurt')
      BY <3>3 DEF GetSet
    <3>4. ASSUME Read(p) PROVE (met => met') /\ (hurt => hurt')
      BY <3>4 DEF Read
    <3>. QED BY <2>1, <3>1, <3>2, <3>3, <3>4
  <2>2. ASSUME NEW m, AppendMsg(p, m) PROVE hurt => hurt'
    BY <2>2 DEF AppendMsg, Save, Note
  <2>3. ASSUME NEW l, Replace(p, l) PROVE hurt => hurt'
    BY <2>3 DEF Replace, Save, Note
  <2>4. ASSUME AppendNamed(p) \/ ModelFails(p) \/ ModelReplies(p) \/ ModelCalls(p) \/ ToolsAnswer(p) \/ LoopDetected(p)
        PROVE  (met => met') /\ (hurt => hurt')
    BY <2>2, <2>4 DEF AppendNamed, AppendIfAbsent, ModelFails, ModelReplies, ModelCalls, ToolsAnswer, LoopDetected, history
  <2>5. ASSUME PadRead(p) \/ PadWrite(p) \/ Snapshot(p) \/ Finish(p) PROVE (met => met') /\ (hurt => hurt')
    <3>1. ASSUME PadRead(p) \/ Snapshot(p) \/ Finish(p) PROVE (met => met') /\ (hurt => hurt')
      BY <3>1 DEF PadRead, Snapshot, Finish, history
    <3>2. ASSUME PadWrite(p) PROVE (met => met') /\ (hurt => hurt')
      BY <2>2, <3>2 DEF PadWrite
    <3>. QED BY <2>5, <3>1, <3>2
  <2>6. ASSUME Compact(p) \/ Trim(p) \/ Undo(p) \/ Restore(p) \/ DropTurn(p) PROVE (met => met') /\ (hurt => hurt')
    <3>1. ASSUME Compact(p) \/ Trim(p) \/ DropTurn(p) PROVE (met => met') /\ (hurt => hurt')
      BY <2>3, <3>1 DEF Compact, Trim, DropTurn
    <3>2. ASSUME Undo(p) PROVE (met => met') /\ (hurt => hurt')
      BY <3>2 DEF Undo, history
    <3>3. ASSUME Restore(p) PROVE (met => met') /\ (hurt => hurt')
      <4>1. met' = met
        BY <3>3 DEF Restore
      <4>2. CASE Has(snap[At(p)])
        <5>1. Note(p, p \in moved)
          BY <3>3, <4>2, Zenon DEF Restore
        <5>2. hurt => hurt'
          BY <5>1, Zenon DEF Note
        <5>. QED BY <4>1, <5>2
      <4>3. CASE ~Has(snap[At(p)])
        BY <3>3, <4>3 DEF Restore
      <4>. QED BY <4>1, <4>2, <4>3
    <3>. QED BY <2>6, <3>1, <3>2, <3>3
  <2>7. ASSUME Clear(p) PROVE (met => met') /\ (hurt => hurt')
    BY <2>7 DEF Clear, Note
  <2>. QED BY <1>1, <2>1, <2>4, <2>5, <2>6, <2>7, Zenon DEF Step
<1>2. ASSUME NEW c \in Caches, Crash(c) PROVE (met => met') /\ (hurt => hurt')
  BY <1>2 DEF Crash
<1>. QED BY <1>1, <1>2 DEF Next

LEMMA NextCalls == ASSUME NoneIsApart PROVE IInv /\ KeptInv /\ CallInv /\ [Next]_vars => CallInv'
<1>. SUFFICES ASSUME IInv, KeptInv, CallInv, [Next]_vars PROVE CallInv'
  OBVIOUS
<1>1. CASE UNCHANGED vars
  BY <1>1 DEF vars, session, locals, history, CallInv, CallParts, Alone, Active, AllOrdered, MaybeOrdered, Ordered,
     ViewsSync, CachesSync, TurnsAnswer, Commands, TurnEnded, Closed, ClosedAtRest, ClosedBy, Working, Restored,
     Synced, At, Kind, Has, Orphans, Calls, Resolved, Result
<1>2. CASE Next
  <2>. SUFFICES ASSUME ~met', ~hurt' PROVE CallInv'
    BY DEF CallInv
  <2>1. CallParts
    BY <1>2, HistoryStays DEF CallInv
  <2>2. ASSUME NEW p \in Procs, Step(p) PROVE CallInv'
    BY <2>1, <2>2, RequestCalls, GetReadCalls, GetSetCalls, AppendNamedCalls, ReadCalls, CompactCalls, ModelCallsStep,
       LoopCalls, CallCalls, ToolCalls, PadReadCalls, PadWriteCalls, ClearCalls, SnapshotCalls, TrimCalls, UndoCalls,
       RestoreCalls, DropTurnCalls, FinishCalls, Zenon DEF Step
  <2>3. ASSUME NEW c \in Caches, Crash(c) PROVE CallInv'
    BY <2>1, <2>3, CrashCalls
  <2>. QED BY <1>2, <2>2, <2>3 DEF Next
<1>. QED BY <1>1, <1>2

\* Among requests that do not meet only the latest call can want its result, and
\* a plain turn leaves none that does, whichever replica died before; and as long
\* as no process died in a tool round and no stream ran in circles, the history
\* stored between requests is one the provider accepts, the result of every call
\* next to it: CallsAnswered, for any number of requests, rounds and replicas.
THEOREM SessionCallsAnswered == ASSUME NoneIsApart PROVE Spec => []CallsAnswered
<1>1. Init => KeptInv
  BY DEF Init, KeptInv, Stored, ReadsRow, CachesKeep, ViewsKeep, Working, Replacing
<1>2. Init => CallInv
  BY DEF Init, CallInv, CallParts, Alone, Active, AllOrdered, MaybeOrdered, ViewsSync, CachesSync, TurnsAnswer, Commands,
     TurnEnded, Closed, ClosedAtRest, MaybeAccepted, Working, Synced, Has
<1>3. IInv /\ CallInv => CallsAnswered
  <2>. SUFFICES ASSUME IInv, CallInv, ~met, ~hurt, Has(row)
                PROVE  /\ Orphans(row) \subseteq LatestCall(row)
                       /\ last = "turn" => Orphans(row) = {}
                       /\ ~cut /\ Active = {} => Accepted(row)
    BY DEF CallsAnswered
  <2>1. row \in Lists /\ Ordered(row)
    BY DEF IInv, Shared, MaybeGood, Good, CallInv, CallParts, AllOrdered, MaybeOrdered, Has
  <2>2. ~cut /\ Active = {} => Accepted(row)
    BY DEF CallInv, CallParts, Closed, ClosedAtRest, MaybeAccepted
  <2>. QED BY <2>1, <2>2, OrphansAreLatest DEF CallInv, CallParts, TurnEnded
<1>. QED BY <1>1, <1>2, <1>3, InitIInv, NextKeeps, NextKept, NextCalls, PTL DEF Spec

=============================================================================
