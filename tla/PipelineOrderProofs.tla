--------------------------- MODULE PipelineOrderProofs ---------------------------
(***************************************************************************)
(* The order in which the pipeline works off its tasks, which keeps a      *)
(* block from being turned away for missing parents that were handed over  *)
(* before it.                                                              *)
(***************************************************************************)
EXTENDS PipelineProofs

\* Where a task is, and whether it is answered.
Held(s, t) == t \in Members(s, block(t))
Open(t) == blockRes[t] = "open"

\* An open task is in one channel or group, an answered one in none.
PlaceOK(t) ==
  /\ t \in Sent("header") => ~Held("header", t) /\ t \notin Sent("body") /\ ~Held("body", t) /\ Open(t)
  /\ Held("header", t) => t \notin Sent("body") /\ ~Held("body", t) /\ Open(t)
  /\ t \in Sent("body") => ~Held("body", t) /\ Open(t) /\ NeedsBody(t)
  /\ Held("body", t) => Open(t) /\ NeedsBody(t)
  /\ Open(t) => t \in Sent("header") \/ Held("header", t) \/ t \in Sent("body") \/ Held("body", t)
  /\ blockRes[t] = "Ok" => /\ status[block(t)] # "None"
                           /\ NeedsBody(t) => status[block(t)] \in HasBody

Places ==
  /\ \A t \in DOMAIN log : PlaceOK(t)
  /\ \A t \in Task \ DOMAIN log : Open(t)

\* The order of a channel or a group; Exit may be there more than once.
Distinct(q) == \A i, j \in DOMAIN q : q[i] = q[j] /\ q[i] # Exit => i = j
Increasing(q) == \A i, j \in DOMAIN q : i < j /\ q[i] # Exit /\ q[j] # Exit => q[i] < q[j]
Before(q, u, t) == \E i, j \in DOMAIN q : i < j /\ q[i] = u /\ q[j] = t

\* No task is twice in a channel or group, and the header channel is in the order of the log.
Once ==
  /\ Increasing(channel["header"])
  /\ \A t \in DOMAIN log : \A u \in Sent("header") : t \notin Sent("header") /\ u # Exit => t < u
  /\ Distinct(channel["body"])
  /\ \A s \in Stages : \A b \in Blocks : Distinct(pending[s][b].tasks)

\* Task u was handed over before t and is of a parent of t's block.
Precedes(u, t) == u < t /\ block(u) \in Parents[block(t)]

\* The tasks of the parents that came earlier are ahead: they have left the header stage
\* when a header is processed, are held or ahead in the channel of the body stage when a
\* task is sent there, and are answered when a body is processed.
ParentsFirst ==
  /\ \A b \in Blocks : step["header"][b] # "none" =>
       \A u \in DOMAIN log : Precedes(u, Front("header", b)) => u \notin Sent("header") /\ ~Held("header", u)
  /\ \A t \in DOMAIN log : \A u \in DOMAIN log : Precedes(u, t) /\ NeedsBody(u) =>
       /\ t \in Sent("body") => ~Open(u) \/ Held("body", u) \/ Before(channel["body"], u, t)
       /\ Held("body", t) => ~Open(u) \/ Held("body", u)
  /\ \A b \in Blocks : step["body"][b] # "none" =>
       \A u \in DOMAIN log : Precedes(u, Front("body", b)) /\ NeedsBody(u) => ~Open(u)

\* A task is answered with an error.
Failed(u) == blockRes[u] \notin {"open", "Ok"}

\* Every earlier task of some parent, with a body where t needs one, has failed.
Blamed(t) ==
  \E p \in Parents[block(t)] : \A u \in 1 .. t - 1 :
    block(u) = p /\ (kind(u) = "header_only" => kind(t) = "header_only") => Failed(u)

Blames ==
  /\ \A s \in Stages : \A b \in Blocks : step[s][b] = "MissingParents" => Blamed(Front(s, b))
  /\ \A t \in DOMAIN log : blockRes[t] = "MissingParents" => Blamed(t)

(* The inductive invariant of the order of the tasks, on top of PInv.      *)
OInv == Places /\ Once /\ ParentsFirst /\ Blames

-----------------------------------------------------------------------------
(* The order of the tasks.                                                 *)

LEMMA OrderAppend ==
  ASSUME NEW q \in Seq(Nat), NEW m \in Nat
  PROVE  /\ Distinct(q) /\ (m # Exit => m \notin Elems(q)) => Distinct(Append(q, m))
         /\ Increasing(q) /\ (\A u \in Elems(q) : u # Exit /\ m # Exit => u < m) => Increasing(Append(q, m))
         /\ \A u, t : Before(q, u, t) => Before(Append(q, m), u, t)
         /\ \A u \in Elems(q) : Before(Append(q, m), u, m)
<1> DEFINE a == Append(q, m)
           n == Len(q)
<1>1. /\ n \in Nat /\ DOMAIN q = 1 .. n /\ DOMAIN a = 1 .. n + 1
      /\ \A i \in 1 .. n : a[i] = q[i]
      /\ a[n + 1] = m
  BY AppendFacts
<1> HIDE DEF a, n
<1>2. \A i \in DOMAIN a : i \in DOMAIN q \/ i = n + 1
  BY <1>1
<1>3. \A i \in DOMAIN q : i \in DOMAIN a /\ a[i] = q[i] /\ i < n + 1 /\ i \in Nat
  BY <1>1
<1>4. ASSUME Distinct(q), m # Exit => m \notin Elems(q) PROVE Distinct(a)
  BY <1>1, <1>2, <1>4 DEF Distinct, Elems
<1>5. ASSUME Increasing(q), \A u \in Elems(q) : u # Exit /\ m # Exit => u < m PROVE Increasing(a)
  <2> SUFFICES ASSUME NEW i \in DOMAIN a, NEW j \in DOMAIN a, i < j, a[i] # Exit, a[j] # Exit PROVE a[i] < a[j]
    BY DEF Increasing
  <2>1. i \in DOMAIN q
    BY <1>1, <1>2
  <2>2. CASE j \in DOMAIN q
    BY <1>3, <1>5, <2>1, <2>2 DEF Increasing
  <2>3. CASE j = n + 1
    BY Zenon, <1>1, <1>5, <2>1, <2>3 DEF Elems
  <2> QED
    BY <1>2, <2>2, <2>3
<1>6. ASSUME NEW u, NEW t, Before(q, u, t) PROVE Before(a, u, t)
  BY <1>3, <1>6 DEF Before
<1>7. ASSUME NEW u \in Elems(q) PROVE Before(a, u, m)
  <2>1. PICK i \in DOMAIN q : q[i] = u
    BY DEF Elems
  <2>2. n + 1 \in DOMAIN a
    BY <1>1
  <2> QED
    BY Zenon, <1>1, <1>3, <2>1, <2>2 DEF Before
<1> QED
  BY Zenon, <1>4, <1>5, <1>6, <1>7 DEF a

LEMMA OrderTail ==
  ASSUME NEW q \in Seq(Nat), q # <<>>
  PROVE  /\ Distinct(q) => Distinct(Tail(q)) /\ (Head(q) # Exit => Head(q) \notin Elems(Tail(q)))
         /\ Increasing(q) => /\ Increasing(Tail(q))
                             /\ Head(q) # Exit => \A u \in Elems(Tail(q)) : u # Exit => Head(q) < u
         /\ \A u, t : Before(q, u, t) => t \in Elems(Tail(q)) /\ (u = Head(q) \/ Before(Tail(q), u, t))
<1> DEFINE a == Tail(q)
           n == Len(q)
<1>1. /\ n \in Nat /\ DOMAIN q = 1 .. n /\ 1 \in DOMAIN q /\ DOMAIN a = 1 .. n - 1 /\ Head(q) = q[1]
      /\ \A i \in DOMAIN a : i + 1 \in DOMAIN q /\ a[i] = q[i + 1]
      /\ \A i \in DOMAIN q : i # 1 => i - 1 \in DOMAIN a /\ q[i] = a[i - 1]
  BY TailFacts
<1> HIDE DEF a, n
<1>2. \A i \in DOMAIN a : i \in Nat /\ i + 1 # 1 /\ 1 < i + 1
  BY <1>1
<1>3. ASSUME Distinct(q) PROVE Distinct(a)
  <2> SUFFICES ASSUME NEW i \in DOMAIN a, NEW j \in DOMAIN a, a[i] = a[j], a[i] # Exit PROVE i = j
    BY DEF Distinct
  <2>1. i + 1 = j + 1
    BY <1>1, <1>3 DEF Distinct
  <2> QED
    BY <1>2, <2>1
<1>4. ASSUME Distinct(q), Head(q) # Exit PROVE Head(q) \notin Elems(a)
  <2>1. ASSUME NEW i \in DOMAIN a, a[i] = Head(q) PROVE FALSE
    <3>1. i + 1 = 1
      BY <1>1, <1>4, <2>1 DEF Distinct
    <3> QED
      BY <1>2, <3>1
  <2> QED
    BY <2>1 DEF Elems
<1>5. ASSUME Increasing(q) PROVE Increasing(a)
  <2> SUFFICES ASSUME NEW i \in DOMAIN a, NEW j \in DOMAIN a, i < j, a[i] # Exit, a[j] # Exit PROVE a[i] < a[j]
    BY DEF Increasing
  <2>1. i + 1 < j + 1
    BY <1>2
  <2> QED
    BY Zenon, <1>1, <1>5, <2>1 DEF Increasing
<1>6. ASSUME Increasing(q), Head(q) # Exit PROVE \A u \in Elems(a) : u # Exit => Head(q) < u
  <2>1. ASSUME NEW i \in DOMAIN a, a[i] # Exit PROVE Head(q) < a[i]
    BY Zenon, <1>1, <1>2, <1>6, <2>1 DEF Increasing
  <2> QED
    BY <2>1 DEF Elems
<1>7. ASSUME NEW u, NEW t, Before(q, u, t) PROVE t \in Elems(a) /\ (u = Head(q) \/ Before(a, u, t))
  <2>1. PICK i \in DOMAIN q : \E j \in DOMAIN q : i < j /\ q[i] = u /\ q[j] = t
    BY <1>7 DEF Before
  <2>2. PICK j \in DOMAIN q : i < j /\ q[i] = u /\ q[j] = t
    BY <2>1
  <2>3. j # 1 /\ i \in Nat /\ j \in Nat
    BY <1>1, <2>2
  <2>4. j - 1 \in DOMAIN a /\ t = a[j - 1]
    BY <1>1, <2>2, <2>3
  <2>5. t \in Elems(a)
    BY <2>4 DEF Elems
  <2>6. CASE i = 1
    BY <1>1, <2>2, <2>5, <2>6
  <2>7. CASE i # 1
    <3>1. i - 1 \in DOMAIN a /\ u = a[i - 1]
      BY <1>1, <2>2, <2>7
    <3>2. i - 1 < j - 1
      BY <2>2, <2>3
    <3>3. Before(a, u, t)
      BY <2>4, <3>1, <3>2 DEF Before
    <3> QED
      BY <2>5, <3>3
  <2> QED
    BY <2>6, <2>7
<1> QED
  BY <1>3, <1>4, <1>5, <1>6, <1>7 DEF a

\* Where a task is held, before and after a step.
LEMMA HeldFacts ==
  ASSUME PInv, Effect, NEW t \in DOMAIN log, NEW c \in Blocks, c = block(t), NEW s \in Stages
  PROVE  (Held(s, t) <=> t \in Members(s, c)) /\ (Held(s, t)' <=> t \in Members(s, c)')
<1>1. block(t)' = c
  BY LogGrows
<1>2. Held(s, t)' <=> t \in Elems(pending'[s][block(t)'].tasks)
  BY DEF Held, Members, Elems
<1>3. Members(s, c)' = Elems(pending'[s][c].tasks)
  BY DEF Members, Elems
<1> QED
  BY <1>1, <1>2, <1>3 DEF Held

\* A task that a step leaves where it is, and without an answer.
Stays(t) ==
  /\ \A r \in Stages : (t \in Sent(r)' <=> t \in Sent(r)) /\ (Held(r, t)' <=> Held(r, t))
  /\ blockRes'[t] = blockRes[t]

\* A task that is registered by the stage it was sent to.
Enters(t, s) ==
  /\ \E c \in Blocks : Registers(s, t, c)
  /\ t \in Sent(s) /\ t \notin Sent(s)' /\ Held(s, t)'
  /\ \A r \in Stages \ {s} : (t \in Sent(r)' <=> t \in Sent(r)) /\ (Held(r, t)' <=> Held(r, t))
  /\ blockRes'[t] = blockRes[t]

\* A task that leaves a stage.
Leaves(t, s, b) ==
  /\ Releases(s, b, t) /\ Held(s, t) /\ ~Held(s, t)'
  /\ t \in Sent("header")' <=> t \in Sent("header")
  /\ \A r \in Stages \ {s} : Held(r, t)' <=> Held(r, t)
  /\ Passes(s, b) => t \in Sent("body")' /\ blockRes'[t] = blockRes[t]
  /\ ~Passes(s, b) => (t \in Sent("body")' <=> t \in Sent("body")) /\ blockRes'[t] = step[s][b]

\* What a step may do to a task.
LEMMA TaskSteps ==
  ASSUME PInv, Once, Effect, NEW t \in DOMAIN log
  PROVE  \/ Stays(t)
         \/ \E s \in Stages : Enters(t, s)
         \/ \E s \in Stages, b \in Blocks : Leaves(t, s, b) /\ end(s, b)
<1>0. Types /\ Tasks /\ t # Exit /\ t \in Task
  BY LogFacts, Names DEF PInv
<1>1. PICK c \in Blocks : c = block(t)
  BY <1>0, LogFacts
<1>2. \A s \in Stages : (Held(s, t) <=> t \in Members(s, c)) /\ (Held(s, t)' <=> t \in Members(s, c)')
  BY <1>1, HeldFacts
<1>3. ASSUME Quiet PROVE Stays(t)
  <2>1. \A r \in Stages : t \in Sent(r)' <=> t \in Sent(r)
    BY <1>0, <1>3 DEF Quiet
  <2>2. \A r \in Stages : Members(r, c)' = Members(r, c)
    BY <1>3 DEF Quiet
  <2> QED
    BY Zenon, <1>2, <1>3, <2>1 DEF Stays, Quiet
<1>4. ASSUME NEW b \in Blocks, NEW k \in Kinds, Submit(b, k) PROVE Stays(t)
  <2>1. t # Len(log) + 1
    BY <1>0, LogFacts
  <2>2. \A r \in Stages : t \in Sent(r)' <=> t \in Sent(r)
    BY <1>0, <1>4, <2>1, SubmitMoves, Names
  <2>3. \A r \in Stages : Members(r, c)' = Members(r, c)
    BY <1>0, <1>4, SubmitMoves
  <2>4. blockRes' = blockRes
    BY <1>4 DEF Submit
  <2> QED
    BY <1>2, <2>2, <2>3, <2>4 DEF Stays
<1>5. ASSUME NEW s \in Stages, NEW u \in DOMAIN log, NEW d \in Blocks, Registers(s, u, d)
      PROVE  Stays(t) \/ Enters(t, s)
  <2>1. CASE t = u
    <3>1. d = c /\ Held(s, t)' /\ t \in Sent(s) /\ blockRes' = blockRes
      BY Zenon, <1>1, <1>2, <1>5, <2>1 DEF Registers
    <3>2. t \notin Sent(s)'
      <4>1. /\ channel[s] \in Seq(Nat) /\ channel[s] # <<>> /\ t = Head(channel[s])
            /\ channel'[s] = Tail(channel[s])
        BY Zenon, <1>0, <1>5, <2>1 DEF Registers, Types
      <4>2. Sent(s)' = Elems(Tail(channel[s])) /\ Elems(Tail(channel[s])) \subseteq Nat
        <5>1. Sent(s)' = Elems(channel'[s])
          BY DEF Sent, Elems
        <5>2. Tail(channel[s]) \in Seq(Nat)
          BY <4>1, TailFacts
        <5> QED
          BY Zenon, <4>1, <5>1, ElemsFacts
      <4>3. CASE s = "body"
        <5>1. Distinct(channel[s])
          BY <4>3 DEF Once
        <5> QED
          BY Zenon, <1>0, <4>1, <4>2, <5>1, OrderTail
      <4>4. CASE s = "header"
        <5>1. Increasing(channel[s])
          BY <4>4 DEF Once
        <5>2. \A x \in Elems(Tail(channel[s])) : x # Exit => t < x
          BY Zenon, <1>0, <4>1, <5>1, OrderTail
        <5>3. t \in Nat /\ ~(t < t)
          BY <1>0, LogFacts
        <5> QED
          BY <1>0, <4>2, <5>2
      <4> QED
        BY <4>3, <4>4, Names
    <3>3. \A r \in Stages \ {s} : Sent(r)' = Sent(r) /\ Members(r, c)' = Members(r, c)
      BY Zenon, <1>5 DEF Registers
    <3> QED
      BY Zenon, <1>2, <1>5, <2>1, <3>1, <3>2, <3>3 DEF Enters
  <2>2. CASE t # u
    <3>1. \A r \in Stages : t \in Sent(r)' <=> t \in Sent(r)
      BY Zenon, <1>5, <2>2 DEF Registers
    <3>2. \A r \in Stages : t \in Members(r, c)' <=> t \in Members(r, c)
      BY Zenon, <1>5, <2>2 DEF Registers
    <3>3. blockRes' = blockRes
      BY Zenon, <1>5 DEF Registers
    <3> QED
      BY <1>2, <3>1, <3>2, <3>3 DEF Stays
  <2> QED
    BY <2>1, <2>2
<1>6. ASSUME NEW s \in Stages, NEW b \in Blocks, NEW u \in DOMAIN log, Releases(s, b, u), end(s, b)
      PROVE  Stays(t) \/ Leaves(t, s, b)
  <2>1. CASE t = u
    <3>1. b = c /\ t \in Members(s, c)
      BY Zenon, <1>1, <1>6, <2>1 DEF Releases
    <3>2. t \notin Members(s, c)'
      <4>1. /\ pending[s][b].tasks \in Seq(Nat) /\ pending[s][b].tasks # <<>> /\ t = Head(pending[s][b].tasks)
            /\ pending'[s][b].tasks = Tail(pending[s][b].tasks)
        BY Zenon, <1>0, <1>6, <2>1 DEF Releases, Types, Group, IsPending, Front
      <4>2. Distinct(pending[s][b].tasks)
        BY DEF Once
      <4>3. t \notin Elems(Tail(pending[s][b].tasks))
        BY Zenon, <1>0, <4>1, <4>2, OrderTail
      <4> QED
        BY Zenon, <3>1, <4>1, <4>3 DEF Members
    <3>3. /\ Sent("header")' = Sent("header")
          /\ \A r \in Stages \ {s} : Members(r, c)' = Members(r, c)
          /\ Passes(s, b) => t \in Sent("body")' /\ blockRes'[t] = blockRes[t]
          /\ ~Passes(s, b) => (t \in Sent("body")' <=> t \in Sent("body")) /\ blockRes'[t] = step[s][b]
      BY Zenon, <1>6, <2>1 DEF Releases
    <3> QED
      BY Zenon, <1>2, <1>6, <2>1, <3>1, <3>2, <3>3 DEF Leaves
  <2>2. CASE t # u
    <3>1. t \in Sent("header")' <=> t \in Sent("header")
      BY Zenon, <1>6 DEF Releases
    <3>2. t \in Sent("body")' <=> t \in Sent("body")
      BY Zenon, <1>6, <2>2 DEF Releases
    <3>3. \A r \in Stages : t \in Members(r, c)' <=> t \in Members(r, c)
      BY Zenon, <1>6, <2>2 DEF Releases
    <3>4. blockRes'[t] = blockRes[t]
      BY Zenon, <1>0, <1>6, <2>2 DEF Releases
    <3> QED
      BY <1>2, <3>1, <3>2, <3>3, <3>4, Names DEF Stays
  <2> QED
    BY <2>1, <2>2
<1> QED
  BY Zenon, <1>3, <1>4, <1>5, <1>6 DEF Effect, TaskMove

\* A task that has its answer keeps it, and an open one is answered with a result.
LEMMA AnswersStay ==
  ASSUME PInv, Places, Once, Effect, NEW t \in DOMAIN log
  PROVE  /\ ~Open(t) => blockRes'[t] = blockRes[t]
         /\ ~Open(t) => ~Open(t)'
<1>1. ASSUME NEW s \in Stages, NEW b \in Blocks, Leaves(t, s, b) PROVE Open(t)
  <2>1. Held(s, t)
    BY <1>1 DEF Leaves
  <2> QED
    BY <2>1, Names DEF Places, PlaceOK
<1>2. ~Open(t) => blockRes'[t] = blockRes[t]
  BY <1>1, TaskSteps DEF Stays, Enters
<1> QED
  BY <1>2 DEF Open

\* A task held by the body stage stays there until it is answered.
LEMMA HeldStays ==
  ASSUME PInv, Once, Effect, NEW t \in DOMAIN log, Held("body", t)
  PROVE  Held("body", t)' \/ ~Open(t)'
<1>1. CASE Stays(t)
  BY <1>1, Names DEF Stays
<1>2. ASSUME NEW s \in Stages, Enters(t, s) PROVE Held("body", t)'
  BY <1>2, Names DEF Enters
<1>3. ASSUME NEW s \in Stages, NEW b \in Blocks, Leaves(t, s, b) PROVE Held("body", t)' \/ ~Open(t)'
  <2>1. CASE s = "header"
    BY Zenon, <1>3, <2>1, Names DEF Leaves
  <2>2. CASE s = "body"
    <3>1. ~Passes(s, b)
      BY <2>2 DEF Passes
    <3>2. blockRes'[t] = step[s][b] /\ step[s][b] \in Results
      BY Zenon, <1>3, <3>1 DEF Leaves, Releases
    <3> QED
      BY <3>2 DEF Open, Results
  <2> QED
    BY <2>1, <2>2, Names
<1> QED
  BY <1>1, <1>2, <1>3, TaskSteps

\* A block's front task stays in front while it is processed.
LEMMA FrontKept ==
  ASSUME PInv, Effect, NEW s \in Stages, NEW b \in Blocks, step'[s][b] # "none"
  PROVE  /\ step[s][b] # "none" \/ Begins(s, b)
         /\ IsPending(s, b) /\ Front(s, b)' = Front(s, b)
<1>0. Types /\ Calls /\ Tasks
  BY DEF PInv
<1>1. step[s][b] # "none" \/ (Begins(s, b) /\ IsPending(s, b))
  <2>1. ASSUME NEW r \in Results, NEW v \in Statuses, Decides(s, b, r, v) PROVE step[s][b] # "none"
    BY <2>1 DEF Decides
  <2>2. StepMove(s, b)
    BY DEF Effect
  <2> QED
    BY Zenon, <2>1, <2>2 DEF StepMove
<1>2. IsPending(s, b) /\ pending[s][b].tasks \in Seq(Nat) /\ pending[s][b].tasks # <<>>
  BY Zenon, <1>0, <1>1, FrontFacts
<1>3. CASE pending'[s][b].tasks = pending[s][b].tasks
  BY Zenon, <1>1, <1>2, <1>3 DEF Front
<1>4. ASSUME NEW m \in Nat, pending'[s][b].tasks = Append(pending[s][b].tasks, m)
      PROVE  Front(s, b)' = Front(s, b)
  <2> DEFINE q == pending[s][b].tasks
  <2>1. Head(Append(q, m)) = Head(q)
    <3> HIDE DEF q
    <3> SUFFICES ASSUME q \in Seq(Nat), q # <<>> PROVE Head(Append(q, m)) = Head(q)
      BY Zenon, <1>2 DEF q
    <3> QED
      OBVIOUS
  <2>2. Front(s, b)' = Head(pending'[s][b].tasks)
    BY DEF Front
  <2> QED
    BY Zenon, <1>4, <2>1 DEF Front
<1>5. ASSUME Quiet PROVE pending'[s][b].tasks = pending[s][b].tasks
  BY <1>5 DEF Quiet
<1>6. ASSUME NEW c \in Blocks, NEW k \in Kinds, Submit(c, k) PROVE pending'[s][b].tasks = pending[s][b].tasks
  BY <1>6 DEF Submit
<1>7. ASSUME NEW r \in Stages, NEW t \in DOMAIN log, NEW c \in Blocks, Registers(r, t, c)
      PROVE  \/ pending'[s][b].tasks = pending[s][b].tasks
             \/ \E m \in Nat : pending'[s][b].tasks = Append(pending[s][b].tasks, m)
  <2>1. t \in Nat
    BY <1>0, LogFacts
  <2> QED
    BY Zenon, <1>7, <2>1 DEF Registers
<1>8. ASSUME NEW r \in Stages, NEW c \in Blocks, NEW t \in DOMAIN log, Releases(r, c, t)
      PROVE  pending'[s][b].tasks = pending[s][b].tasks
  BY Zenon, <1>8 DEF Releases
<1>9. \/ pending'[s][b].tasks = pending[s][b].tasks
      \/ \E m \in Nat : pending'[s][b].tasks = Append(pending[s][b].tasks, m)
  BY Zenon, <1>5, <1>6, <1>7, <1>8 DEF Effect, TaskMove
<1> QED
  BY Zenon, <1>1, <1>2, <1>3, <1>4, <1>9

-----------------------------------------------------------------------------
(* Every task is in one place.                                             *)

LEMMA PlaceKept ==
  ASSUME PInv, Places, Once, Effect, NEW t \in DOMAIN log
  PROVE  PlaceOK(t)'
<1>0. Types /\ Calls /\ Tasks /\ Stored /\ PlaceOK(t)
  BY DEF PInv, Places
<1>1. PICK c \in Blocks : c = block(t)
  BY <1>0, LogFacts
<1>2. block(t)' = c /\ kind(t)' = kind(t)
  BY <1>1, LogGrows
<1>3. NeedsBody(t)' <=> NeedsBody(t)
  BY <1>2 DEF NeedsBody
<1>4. /\ status[c] # "None" => status'[c] # "None"
      /\ status[c] \in HasBody => status'[c] \in HasBody
  BY StatusMoves, MovesFacts
<1>5. CASE Stays(t)
  <2>1. /\ \A r \in Stages : (t \in Sent(r)' <=> t \in Sent(r)) /\ (Held(r, t)' <=> Held(r, t))
        /\ Open(t)' <=> Open(t)
        /\ blockRes'[t] = blockRes[t]
    BY <1>5 DEF Stays, Open
  <2> QED
    BY Zenon, <1>0, <1>1, <1>2, <1>3, <1>4, <2>1, Names DEF PlaceOK
<1>6. ASSUME NEW s \in Stages, Enters(t, s) PROVE PlaceOK(t)'
  <2>1. /\ t \in Sent(s) /\ t \notin Sent(s)' /\ Held(s, t)'
        /\ \A r \in Stages \ {s} : (t \in Sent(r)' <=> t \in Sent(r)) /\ (Held(r, t)' <=> Held(r, t))
        /\ Open(t)' <=> Open(t)
        /\ blockRes'[t] = blockRes[t]
    BY <1>6 DEF Enters, Open
  <2>2. CASE s = "header"
    BY Zenon, <1>0, <1>1, <1>2, <1>3, <1>4, <2>1, Names DEF PlaceOK
  <2>3. CASE s = "body"
    BY Zenon, <1>0, <1>1, <1>2, <1>3, <1>4, <2>1, Names DEF PlaceOK
  <2> QED
    BY <2>2, <2>3, Names
<1>7. ASSUME NEW s \in Stages, NEW b \in Blocks, Leaves(t, s, b) PROVE PlaceOK(t)'
  <2>1. /\ Held(s, t) /\ ~Held(s, t)'
        /\ t \in Sent("header")' <=> t \in Sent("header")
        /\ \A r \in Stages \ {s} : Held(r, t)' <=> Held(r, t)
        /\ Passes(s, b) => t \in Sent("body")' /\ blockRes'[t] = blockRes[t]
        /\ ~Passes(s, b) => (t \in Sent("body")' <=> t \in Sent("body")) /\ blockRes'[t] = step[s][b]
    BY <1>7 DEF Leaves
  <2>2. b = c /\ t = Front(s, b) /\ step[s][b] \in Results
    BY Zenon, <1>1, <1>7 DEF Leaves, Releases
  <2>3. CASE Passes(s, b)
    <3>1. s = "header" /\ NeedsBody(t)
      BY <2>2, <2>3 DEF Passes
    <3>2. Open(t)' /\ blockRes'[t] # "Ok"
      BY Zenon, <1>0, <2>1, <2>3, <3>1 DEF PlaceOK, Open
    <3> QED
      BY Zenon, <1>0, <1>3, <2>1, <2>3, <3>1, <3>2, Names DEF PlaceOK
  <2>4. CASE ~Passes(s, b)
    <3>1. ~Open(t)'
      BY Zenon, <2>1, <2>2, <2>4 DEF Open, Results
    <3>2. t \notin Sent("header")' /\ ~Held("header", t)' /\ t \notin Sent("body")' /\ ~Held("body", t)'
      BY Zenon, <1>0, <2>1, <2>4, Names DEF PlaceOK
    <3>3. step[s][b] = "Ok" => status[c] # "None" /\ (NeedsBody(t) => status[c] \in HasBody)
      <4>1. CASE s = "header"
        BY Zenon, <1>0, <2>2, <2>4, <4>1 DEF Stored, Passes
      <4>2. CASE s = "body"
        BY Zenon, <1>0, <2>2, <4>2 DEF Stored, HasBody
      <4> QED
        BY Zenon, <4>1, <4>2, Names
    <3>4. blockRes'[t] = "Ok" => status'[c] # "None" /\ (NeedsBody(t)' => status'[c] \in HasBody)
      BY Zenon, <1>3, <1>4, <2>1, <2>4, <3>3
    <3> QED
      BY Zenon, <1>2, <3>1, <3>2, <3>4 DEF PlaceOK
  <2> QED
    BY <2>3, <2>4
<1> QED
  BY <1>5, <1>6, <1>7, TaskSteps

LEMMA PlacesKept ==
  ASSUME PInv, Places, Once, Effect
  PROVE  Places'
<1>0. Types /\ Calls /\ Tasks
  BY DEF PInv
<1>1. CASE UNCHANGED log /\ \A t \in Task \ DOMAIN log : blockRes'[t] = blockRes[t]
  <2>1. \A t \in Task \ DOMAIN log : Open(t)'
    BY <1>1 DEF Places, Open
  <2>2. DOMAIN log' = DOMAIN log
    BY <1>1
  <2> QED
    BY <2>1, <2>2, PlaceKept DEF Places
<1>2. ASSUME NEW b \in Blocks, NEW k \in Kinds, Submit(b, k) PROVE Places'
  <2>1. PICK n \in Nat : n = Len(log) + 1
    BY <1>0, LogFacts
  <2>2. n \in Task /\ n \notin DOMAIN log /\ DOMAIN log' = DOMAIN log \cup {n} /\ n # Exit
    <3>1. n \in Task /\ n \notin DOMAIN log /\ DOMAIN log' = DOMAIN log \cup {n}
      BY Zenon, <1>0, <1>2, <2>1, SubmitFacts
    <3> QED
      BY <3>1, Names
  <2>3. blockRes' = blockRes /\ Open(n)
    BY <1>2, <2>2 DEF Submit, Places
  <2>4. n \in Sent("header")' /\ n \notin Sent("body")'
    <3>1. Sent("body") \subseteq {Exit} \cup DOMAIN log
      BY <1>0, Names DEF Tasks
    <3> QED
      BY <1>0, <1>2, <2>1, <2>2, <3>1, SubmitMoves
  <2>5. \A s \in Stages : ~Held(s, n)'
    <3>1. \A s \in Stages : \A x \in Blocks : n \notin Members(s, x)'
      BY <1>0, <1>2, <2>2, SubmitMoves DEF Tasks
    <3>2. log'[n].block = b
      BY Zenon, <1>0, <1>2, <2>1, SubmitFacts
    <3>3. \A s \in Stages : Held(s, n)' <=> n \in Elems(pending'[s][log'[n].block].tasks)
      BY DEF Held, Members, Elems, block
    <3>4. \A s \in Stages : Members(s, b)' = Elems(pending'[s][b].tasks)
      BY DEF Members, Elems
    <3> QED
      BY <3>1, <3>2, <3>3, <3>4
  <2>6. PlaceOK(n)'
    <3>1. Open(n)' /\ blockRes'[n] # "Ok"
      BY <2>3 DEF Open
    <3> QED
      BY Zenon, <2>4, <2>5, <3>1, Names DEF PlaceOK
  <2>7. \A t \in DOMAIN log : PlaceOK(t)'
    BY PlaceKept
  <2>8. \A t \in DOMAIN log' : PlaceOK(t)'
    BY <2>2, <2>6, <2>7
  <2>9. \A t \in Task \ DOMAIN log' : Open(t)'
    BY <2>2, <2>3 DEF Places, Open
  <2> QED
    BY <2>8, <2>9 DEF Places
<1>3. ASSUME Quiet PROVE UNCHANGED <<log, blockRes>>
  BY <1>3 DEF Quiet
<1>4. ASSUME NEW s \in Stages, NEW t \in DOMAIN log, NEW c \in Blocks, Registers(s, t, c)
      PROVE  UNCHANGED <<log, blockRes>>
  BY Zenon, <1>4 DEF Registers
<1>5. ASSUME NEW s \in Stages, NEW b \in Blocks, NEW t \in DOMAIN log, Releases(s, b, t)
      PROVE  UNCHANGED log /\ \A u \in Task \ DOMAIN log : blockRes'[u] = blockRes[u]
  BY Zenon, <1>5 DEF Releases
<1> QED
  BY Zenon, <1>1, <1>2, <1>3, <1>4, <1>5 DEF Effect, TaskMove

-----------------------------------------------------------------------------
(* No task is twice in a channel or in a group.                            *)

LEMMA OnceKept ==
  ASSUME PInv, Places, Once, Effect
  PROVE  Once'
<1>0. Types /\ Calls /\ Tasks
  BY DEF PInv
<1>1. \A s \in Stages : channel[s] \in Seq(Nat) /\ \A b \in Blocks : pending[s][b].tasks \in Seq(Nat)
  BY <1>0 DEF Types, Group
<1>2. Exit \in Nat /\ "header" \in Stages /\ "body" \in Stages
  BY Names
<1>3. Increasing(channel["header"]) /\ Distinct(channel["body"])
  BY DEF Once
<1>4. /\ \A s \in Stages : \A b \in Blocks : Distinct(pending[s][b].tasks)
      /\ \A t \in DOMAIN log : \A u \in Sent("header") : t \notin Sent("header") /\ u # Exit => t < u
  BY DEF Once
<1>5. \A s \in Stages : Sent(s) = Elems(channel[s]) /\ Sent(s) \subseteq {Exit} \cup DOMAIN log
  BY <1>0 DEF Sent, Tasks
<1>6. \A t \in DOMAIN log : t \in Nat /\ t # Exit
  BY <1>0, LogFacts, Names
<1>7. CASE Quiet
  <2>1. log' = log /\ \A s \in Stages : \A b \in Blocks : pending'[s][b].tasks = pending[s][b].tasks
    BY <1>7 DEF Quiet
  <2>2. ASSUME NEW s \in Stages
        PROVE  \/ channel'[s] = channel[s] \/ channel'[s] = Append(channel[s], Exit)
               \/ channel[s] # <<>> /\ channel'[s] = Tail(channel[s])
    BY <1>7 DEF Quiet
  <2>3. Increasing(channel'["header"])
    <3> DEFINE q == channel["header"]
    <3>1. q \in Seq(Nat) /\ Increasing(q)
      BY <1>1, <1>2, <1>3
    <3>2. channel'["header"] = q \/ channel'["header"] = Append(q, Exit) \/ (q # <<>> /\ channel'["header"] = Tail(q))
      BY <1>2, <2>2
    <3> HIDE DEF q
    <3>3. Increasing(Append(q, Exit))
      BY <1>2, <3>1, OrderAppend
    <3>4. q # <<>> => Increasing(Tail(q))
      BY <3>1, OrderTail
    <3> QED
      BY Zenon, <3>1, <3>2, <3>3, <3>4
  <2>4. Distinct(channel'["body"])
    <3> DEFINE q == channel["body"]
    <3>1. q \in Seq(Nat) /\ Distinct(q)
      BY <1>1, <1>2, <1>3
    <3>2. channel'["body"] = q \/ channel'["body"] = Append(q, Exit) \/ (q # <<>> /\ channel'["body"] = Tail(q))
      BY <1>2, <2>2
    <3> HIDE DEF q
    <3>3. Distinct(Append(q, Exit))
      BY <1>2, <3>1, OrderAppend
    <3>4. q # <<>> => Distinct(Tail(q))
      BY <3>1, OrderTail
    <3> QED
      BY Zenon, <3>1, <3>2, <3>3, <3>4
  <2>5. \A t \in Nat : t # Exit => (t \in Sent("header")' <=> t \in Sent("header"))
    BY <1>2, <1>7 DEF Quiet
  <2>6. \A t \in DOMAIN log : \A u \in Sent("header")' : t \notin Sent("header")' /\ u # Exit => t < u
    <3> SUFFICES ASSUME NEW t \in DOMAIN log, NEW u \in Sent("header")', t \notin Sent("header")', u # Exit
                 PROVE  t < u
      OBVIOUS
    <3>1. u \in Sent("header")
      BY <1>2, <1>7 DEF Quiet
    <3> QED
      BY <1>4, <1>6, <2>5, <3>1
  <2> QED
    BY Zenon, <2>1, <2>3, <2>4, <2>6 DEF Once
<1>8. ASSUME NEW b \in Blocks, NEW k \in Kinds, Submit(b, k) PROVE Once'
  <2>1. PICK n \in Nat : n = Len(log) + 1
    BY <1>0, LogFacts
  <2>2. /\ DOMAIN log' = DOMAIN log \cup {n} /\ \A t \in DOMAIN log : t < n
        /\ channel'["header"] = Append(channel["header"], n) /\ channel'["body"] = channel["body"]
    BY Zenon, <1>0, <1>8, <2>1, SubmitFacts, Names
  <2>3. Increasing(channel'["header"])
    <3>1. \A u \in Elems(channel["header"]) : u # Exit => u < n
      BY Zenon, <1>2, <1>5, <2>2
    <3> QED
      BY Zenon, <1>1, <1>2, <1>3, <2>2, <3>1, OrderAppend
  <2>4. pending' = pending
    BY <1>8 DEF Submit
  <2>5. Sent("header")' = Sent("header") \cup {n}
    BY <1>0, <1>8, <2>1, SubmitMoves
  <2>6. \A t \in DOMAIN log' : \A u \in Sent("header")' : t \notin Sent("header")' /\ u # Exit => t < u
    BY Zenon, <1>4, <2>2, <2>5
  <2> QED
    BY Zenon, <2>2, <2>3, <2>4, <2>6 DEF Once
<1>9. ASSUME NEW s \in Stages, NEW t \in DOMAIN log, NEW c \in Blocks, Registers(s, t, c) PROVE Once'
  <2>1. /\ log' = log /\ c = block(t) /\ channel[s] # <<>> /\ t = Head(channel[s]) /\ channel'[s] = Tail(channel[s])
        /\ Sent(s) = {t} \cup Sent(s)'
        /\ \A r \in Stages \ {s} : channel'[r] = channel[r] /\ Sent(r)' = Sent(r)
        /\ pending'[s][c].tasks = Append(pending[s][c].tasks, t)
        /\ \A r \in Stages : \A x \in Blocks : ~(r = s /\ x = c) => pending'[r][x].tasks = pending[r][x].tasks
    BY Zenon, <1>9 DEF Registers
  <2>2. Increasing(channel'["header"])
    <3>1. channel["header"] # <<>> => Increasing(Tail(channel["header"]))
      BY Zenon, <1>1, <1>2, <1>3, OrderTail
    <3> QED
      BY Zenon, <1>2, <1>3, <2>1, <3>1
  <2>3. Distinct(channel'["body"])
    <3>1. channel["body"] # <<>> => Distinct(Tail(channel["body"]))
      BY Zenon, <1>1, <1>2, <1>3, OrderTail
    <3> QED
      BY Zenon, <1>2, <1>3, <2>1, <3>1
  <2>4. t \notin Elems(pending[s][c].tasks)
    <3>1. t \in Sent(s) => ~Held(s, t)
      BY Names DEF Places, PlaceOK
    <3> QED
      BY Zenon, <2>1, <3>1 DEF Held, Members
  <2>5. Distinct(pending'[s][c].tasks)
    <3> DEFINE q == pending[s][c].tasks
    <3>1. q \in Seq(Nat) /\ Distinct(q) /\ t \notin Elems(q) /\ t \in Nat
      BY Zenon, <1>1, <1>4, <1>6, <2>4
    <3> HIDE DEF q
    <3>2. Distinct(Append(q, t))
      BY <3>1, OrderAppend
    <3> QED
      BY Zenon, <2>1, <3>2 DEF q
  <2>6. \A r \in Stages : \A x \in Blocks : Distinct(pending'[r][x].tasks)
    <3> SUFFICES ASSUME NEW r \in Stages, NEW x \in Blocks PROVE Distinct(pending'[r][x].tasks)
      OBVIOUS
    <3>1. CASE r = s /\ x = c
      BY <2>5, <3>1
    <3>2. CASE ~(r = s /\ x = c)
      BY Zenon, <1>4, <2>1, <3>2
    <3> QED
      BY <3>1, <3>2
  <2>7. ASSUME NEW v \in DOMAIN log, NEW u \in Sent("header")', v \notin Sent("header")', u # Exit PROVE v < u
    <3>1. u \in Sent("header")
      BY Zenon, <1>2, <2>1
    <3>2. CASE v \notin Sent("header")
      BY <1>4, <2>7, <3>1, <3>2
    <3>3. CASE v \in Sent("header")
      <4>1. s = "header" /\ v = t
        BY Zenon, <1>2, <2>1, <2>7, <3>3
      <4>2. Sent("header")' = Elems(Tail(channel["header"]))
        BY Zenon, <2>1, <4>1 DEF Sent
      <4>3. \A x \in Elems(Tail(channel["header"])) : x # Exit => t < x
        BY Zenon, <1>1, <1>3, <1>6, <2>1, <4>1, OrderTail
      <4> QED
        BY <2>7, <4>1, <4>2, <4>3
    <3> QED
      BY <3>2, <3>3
  <2> QED
    BY Zenon, <2>1, <2>2, <2>3, <2>6, <2>7 DEF Once
<1>10. ASSUME NEW s \in Stages, NEW b \in Blocks, NEW t \in DOMAIN log, Releases(s, b, t) PROVE Once'
  <2>1. /\ log' = log /\ b = block(t) /\ t = Front(s, b) /\ t \in Members(s, b)
        /\ channel'["header"] = channel["header"] /\ Sent("header")' = Sent("header")
        /\ channel'["body"] = channel["body"] \/ (s = "header" /\ channel'["body"] = Append(channel["body"], t))
        /\ pending[s][b].tasks # <<>> /\ pending'[s][b].tasks = Tail(pending[s][b].tasks)
        /\ \A r \in Stages : \A x \in Blocks : ~(r = s /\ x = b) => pending'[r][x].tasks = pending[r][x].tasks
    BY Zenon, <1>10 DEF Releases, IsPending, Passes
  <2>2. s = "header" => t \notin Elems(channel["body"])
    <3>1. Held(s, t)
      BY Zenon, <2>1 DEF Held
    <3> QED
      BY Zenon, <1>2, <1>5, <3>1 DEF Places, PlaceOK
  <2>3. Distinct(channel'["body"])
    BY Zenon, <1>1, <1>2, <1>3, <1>6, <2>1, <2>2, OrderAppend
  <2>4. Distinct(pending'[s][b].tasks)
    BY <1>1, <1>4, <2>1, OrderTail
  <2>5. \A r \in Stages : \A x \in Blocks : Distinct(pending'[r][x].tasks)
    <3> SUFFICES ASSUME NEW r \in Stages, NEW x \in Blocks PROVE Distinct(pending'[r][x].tasks)
      OBVIOUS
    <3>1. CASE r = s /\ x = b
      BY <2>4, <3>1
    <3>2. CASE ~(r = s /\ x = b)
      BY Zenon, <1>4, <2>1, <3>2
    <3> QED
      BY <3>1, <3>2
  <2> QED
    BY Zenon, <2>1, <2>3, <2>5 DEF Once
<1> QED
  BY Zenon, <1>7, <1>8, <1>9, <1>10 DEF Effect, TaskMove

-----------------------------------------------------------------------------
(* The parents' tasks come first.                                          *)

LEMMA PrecedesKept ==
  ASSUME PInv, Effect, NEW t \in DOMAIN log, NEW u \in DOMAIN log', Precedes(u, t)'
  PROVE  u \in DOMAIN log /\ u # t /\ Precedes(u, t) /\ (NeedsBody(u)' <=> NeedsBody(u))
<1>0. Types /\ Types'
  BY DEF PInv, Effect
<1>1. DOMAIN log' = 1 .. Len(log') /\ Len(log') \in Nat
  OBVIOUS
<1>2. u < t /\ t \in 1 .. Len(log) /\ Len(log) \in Nat
  BY <1>0, LogFacts DEF Precedes
<1>3. u \in DOMAIN log
  BY <1>2
<1>4. block(u)' = block(u) /\ block(t)' = block(t) /\ kind(u)' = kind(u)
  BY <1>3, LogGrows
<1>5. u # t
  BY <1>1, <1>2
<1> QED
  BY <1>3, <1>4, <1>5 DEF Precedes, NeedsBody

\* The front task of a block that is or begins to be processed.
LEMMA FrontStays ==
  ASSUME PInv, Effect, NEW s \in Stages, NEW b \in Blocks, step'[s][b] # "none"
  PROVE  \E f \in DOMAIN log : /\ f = Front(s, b) /\ Front(s, b)' = f /\ block(f) = b /\ Held(s, f)
                               /\ step[s][b] # "none" \/ Begins(s, b)
<1>0. Types /\ Calls /\ Tasks
  BY DEF PInv
<1>1. IsPending(s, b) /\ Front(s, b)' = Front(s, b) /\ (step[s][b] # "none" \/ Begins(s, b))
  BY FrontKept
<1>2. /\ Front(s, b) \in DOMAIN log /\ block(Front(s, b)) = b
      /\ Front(s, b) = pending[s][b].tasks[1] /\ 1 \in DOMAIN pending[s][b].tasks
  BY Zenon, <1>0, <1>1, FrontFacts
<1>3. Front(s, b) \in Members(s, b)
  BY Zenon, <1>2 DEF Members, Elems
<1> QED
  BY Zenon, <1>1, <1>2, <1>3 DEF Held

\* A block whose parents are not pending holds none of their tasks.
LEMMA ParentsNotHeld ==
  ASSUME PInv, NEW s \in Stages, NEW f \in DOMAIN log, NEW b \in Blocks, b = block(f), Begins(s, b),
         NEW u \in DOMAIN log, Precedes(u, f)
  PROVE  ~Held(s, u)
<1>1. PICK p \in Blocks : p = block(u)
  BY LogFacts DEF PInv
<1>2. ~IsPending(s, p)
  BY <1>1 DEF Precedes, Begins
<1>3. Members(s, p) = {}
  BY Zenon, <1>2, MembersFacts DEF PInv
<1> QED
  BY <1>1, <1>3 DEF Held

\* A header begins after the earlier headers of its parents are done.
LEMMA HeaderFirst ==
  ASSUME PInv, Places, Once, ParentsFirst, Effect, NEW b \in Blocks, step'["header"][b] # "none",
         NEW u \in DOMAIN log', Precedes(u, Front("header", b))'
  PROVE  u \notin Sent("header")' /\ ~Held("header", u)'
<1>0. Types /\ Calls /\ Tasks /\ "header" \in Stages
  BY Names DEF PInv
<1>1. PICK f \in DOMAIN log : /\ f = Front("header", b) /\ Front("header", b)' = f /\ block(f) = b /\ Held("header", f)
                              /\ step["header"][b] # "none" \/ Begins("header", b)
  BY <1>0, FrontStays
<1>2. Precedes(u, f)'
  BY <1>1 DEF Precedes, block
<1>3. u \in DOMAIN log /\ Precedes(u, f)
  BY <1>2, PrecedesKept
<1>4. u \notin Sent("header") /\ ~Held("header", u)
  <2>1. CASE step["header"][b] # "none"
    BY Zenon, <1>1, <1>3, <2>1 DEF ParentsFirst
  <2>2. CASE Begins("header", b)
    <3>1. ~Held("header", u)
      BY Zenon, <1>0, <1>1, <1>3, <2>2, ParentsNotHeld
    <3>2. f \notin Sent("header")
      BY <1>1 DEF Places, PlaceOK
    <3>3. u \in Nat /\ f \in Nat /\ u # Exit /\ u < f
      BY <1>3, LogFacts, Names DEF Precedes
    <3>4. u \in Sent("header") => f < u
      BY <3>2, <3>3 DEF Once
    <3> QED
      BY <3>1, <3>3, <3>4
  <2> QED
    BY Zenon, <1>1, <2>1, <2>2
<1>5. CASE Stays(u)
  BY <1>0, <1>4, <1>5 DEF Stays
<1>6. ASSUME NEW s \in Stages, Enters(u, s) PROVE u \notin Sent("header")' /\ ~Held("header", u)'
  BY Zenon, <1>0, <1>4, <1>6 DEF Enters
<1>7. ASSUME NEW s \in Stages, NEW x \in Blocks, Leaves(u, s, x) PROVE u \notin Sent("header")' /\ ~Held("header", u)'
  BY Zenon, <1>0, <1>4, <1>7 DEF Leaves
<1> QED
  BY Zenon, <1>3, <1>5, <1>6, <1>7, TaskSteps

\* What may happen to the channel of the body stage.
LEMMA BodyChannel ==
  ASSUME PInv, Effect
  PROVE  \/ channel'["body"] = channel["body"]
         \/ \E m \in Nat : channel'["body"] = Append(channel["body"], m)
         \/ /\ channel["body"] # <<>> /\ channel'["body"] = Tail(channel["body"])
            /\ \/ Head(channel["body"]) = Exit
               \/ \E c \in Blocks : Registers("body", Head(channel["body"]), c)
<1>0. Types /\ "body" \in Stages /\ "header" \in Stages /\ Exit \in Nat
  BY Names DEF PInv
<1>1. ASSUME Quiet
      PROVE  \/ channel'["body"] = channel["body"]
             \/ channel'["body"] = Append(channel["body"], Exit)
             \/ channel["body"] # <<>> /\ channel'["body"] = Tail(channel["body"]) /\ Head(channel["body"]) = Exit
  BY Zenon, <1>0, <1>1 DEF Quiet
<1>2. ASSUME NEW b \in Blocks, NEW k \in Kinds, Submit(b, k) PROVE channel'["body"] = channel["body"]
  BY Zenon, <1>0, <1>2, SubmitFacts, Names
<1>3. ASSUME NEW s \in Stages, NEW t \in DOMAIN log, NEW c \in Blocks, Registers(s, t, c)
      PROVE  \/ channel'["body"] = channel["body"]
             \/ /\ channel["body"] # <<>> /\ channel'["body"] = Tail(channel["body"])
                /\ Registers("body", Head(channel["body"]), c)
  <2>1. CASE s = "body"
    <3>1. channel["body"] # <<>> /\ channel'["body"] = Tail(channel["body"]) /\ t = Head(channel["body"])
      BY Zenon, <1>3, <2>1 DEF Registers
    <3> QED
      BY <1>3, <2>1, <3>1
  <2>2. CASE s # "body"
    BY Zenon, <1>0, <1>3, <2>2 DEF Registers
  <2> QED
    BY <2>1, <2>2
<1>4. ASSUME NEW s \in Stages, NEW b \in Blocks, NEW t \in DOMAIN log, Releases(s, b, t)
      PROVE  channel'["body"] = channel["body"] \/ \E m \in Nat : channel'["body"] = Append(channel["body"], m)
  <2>1. t \in Nat
    BY <1>0, LogFacts
  <2> QED
    BY Zenon, <1>4, <2>1 DEF Releases
<1> QED
  BY Zenon, <1>0, <1>1, <1>2, <1>3, <1>4 DEF Effect, TaskMove

\* A task is sent to the body stage behind those of its parents.
LEMMA BodyOrder ==
  ASSUME PInv, Places, Once, ParentsFirst, Effect, NEW t \in DOMAIN log', NEW u \in DOMAIN log',
         Precedes(u, t)', NeedsBody(u)'
  PROVE  /\ t \in Sent("body")' => ~Open(u)' \/ Held("body", u)' \/ Before(channel["body"], u, t)'
         /\ Held("body", t)' => ~Open(u)' \/ Held("body", u)'
<1>0. Types /\ Calls /\ Tasks /\ "header" \in Stages /\ "body" \in Stages
  BY Names DEF PInv
<1> SUFFICES ASSUME t \in Sent("body")' \/ Held("body", t)'
             PROVE  \/ ~Open(u)' \/ Held("body", u)'
                    \/ t \in Sent("body")' /\ ~Held("body", t)' /\ Before(channel["body"], u, t)'
  OBVIOUS
<1>1. t \in DOMAIN log
  <2>1. CASE log' = log
    BY <2>1
  <2>2. ASSUME NEW b \in Blocks, NEW k \in Kinds, Submit(b, k) PROVE t \in DOMAIN log
    <3>1. PICK n \in Nat : n = Len(log) + 1
      BY <1>0, LogFacts
    <3>2. DOMAIN log' = DOMAIN log \cup {n} /\ n \in Sent("header")'
      BY Zenon, <1>0, <2>2, <3>1, SubmitFacts, SubmitMoves
    <3>3. t \notin Sent("header")'
      BY Zenon, PlacesKept DEF Places, PlaceOK
    <3> QED
      BY <3>2, <3>3
  <2>3. Quiet => log' = log
    BY DEF Quiet
  <2>4. ASSUME NEW s \in Stages, NEW v \in DOMAIN log, NEW c \in Blocks, Registers(s, v, c) PROVE log' = log
    BY Zenon, <2>4 DEF Registers
  <2>5. ASSUME NEW s \in Stages, NEW b \in Blocks, NEW v \in DOMAIN log, Releases(s, b, v) PROVE log' = log
    BY Zenon, <2>5 DEF Releases
  <2> QED
    BY Zenon, <2>2, <2>3, <2>4, <2>5 DEF Effect, TaskMove
<1>2. u \in DOMAIN log /\ u # t /\ Precedes(u, t) /\ NeedsBody(u)
  BY <1>1, PrecedesKept
<1>3. u # Exit /\ t # Exit /\ u \in Nat /\ t \in Nat
  BY LogFacts, Names
<1>4. ~Open(u) \/ Held("body", u) => ~Open(u)' \/ Held("body", u)'
  BY Zenon, <1>2, AnswersStay, HeldStays
<1>5. channel["body"] \in Seq(Nat) /\ Distinct(channel["body"]) /\ Sent("body") = Elems(channel["body"])
  BY Zenon, <1>0 DEF Types, Once, Sent
<1>6. PlaceOK(t)'
  BY <1>1, PlaceKept
<1>7. ASSUME t \in Sent("body")', t \in Sent("body"), ~Open(u) \/ Held("body", u) \/ Before(channel["body"], u, t)
      PROVE  ~Open(u)' \/ Held("body", u)' \/ Before(channel["body"], u, t)'
  <2> SUFFICES ASSUME Before(channel["body"], u, t)
               PROVE  Held("body", u)' \/ Before(channel'["body"], u, t)
    BY Zenon, <1>4, <1>7 DEF Before
  <2> DEFINE q == channel["body"]
  <2>1. q \in Seq(Nat) /\ Before(q, u, t)
    BY <1>5
  <2>2. ASSUME NEW m \in Nat PROVE Before(Append(q, m), u, t)
    <3> HIDE DEF q
    <3> QED
      BY <2>1, OrderAppend
  <2>3. q # <<>> => u = Head(q) \/ Before(Tail(q), u, t)
    <3> HIDE DEF q
    <3> QED
      BY <2>1, OrderTail
  <2>4. ASSUME NEW c \in Blocks, Registers("body", u, c) PROVE Held("body", u)'
    <3>1. c = block(u) /\ u \in Members("body", c)'
      BY Zenon, <2>4 DEF Registers
    <3> QED
      BY Zenon, <1>0, <1>2, <3>1, HeldFacts
  <2> QED
    BY Zenon, <1>3, <2>2, <2>3, <2>4, BodyChannel
<1>8. ASSUME t \in Sent("body")', t \notin Sent("body")
      PROVE  ~Open(u)' \/ Held("body", u)' \/ Before(channel["body"], u, t)'
  <2>1. ~Stays(t)
    BY <1>0, <1>8 DEF Stays
  <2>2. ASSUME NEW s \in Stages, Enters(t, s) PROVE FALSE
    BY Zenon, <1>0, <1>8, <2>2 DEF Enters
  <2>3. PICK s \in Stages : \E b \in Blocks : Leaves(t, s, b)
    BY <1>1, <2>1, <2>2, TaskSteps
  <2>4. PICK b \in Blocks : Leaves(t, s, b)
    BY <2>3
  <2>5. Passes(s, b)
    BY Zenon, <1>8, <2>4 DEF Leaves
  <2>6. s = "header" /\ step["header"][b] = "Ok"
    BY <2>5 DEF Passes
  <2>7. t = Front("header", b) /\ channel'["body"] = Append(channel["body"], t)
    BY Zenon, <2>4, <2>5, <2>6 DEF Leaves, Releases
  <2>8. u \notin Sent("header") /\ ~Held("header", u)
    BY Zenon, <1>2, <2>6, <2>7 DEF ParentsFirst
  <2>9. ~Open(u) \/ Held("body", u) \/ u \in Elems(channel["body"])
    BY Zenon, <1>2, <1>5, <2>8 DEF Places, PlaceOK
  <2>10. u \in Elems(channel["body"]) => Before(Append(channel["body"], t), u, t)
    <3> DEFINE q == channel["body"]
    <3>1. q \in Seq(Nat)
      BY <1>5
    <3> HIDE DEF q
    <3>2. \A x \in Elems(q) : Before(Append(q, t), x, t)
      BY Zenon, <1>3, <3>1, OrderAppend
    <3> QED
      BY <3>2 DEF q
  <2>11. Before(channel["body"], u, t)' <=> Before(channel'["body"], u, t)
    BY DEF Before
  <2> QED
    BY Zenon, <1>4, <2>7, <2>9, <2>10
<1>9. ASSUME Held("body", t)' PROVE ~Open(u)' \/ Held("body", u)'
  <2>1. CASE Held("body", t)
    BY Zenon, <1>1, <1>2, <1>4, <2>1 DEF ParentsFirst
  <2>2. CASE ~Held("body", t)
    <3>1. ~Stays(t)
      BY <1>0, <1>9, <2>2 DEF Stays
    <3>2. ASSUME NEW s \in Stages, NEW b \in Blocks, Leaves(t, s, b) PROVE FALSE
      BY Zenon, <1>0, <1>9, <2>2, <3>2 DEF Leaves
    <3>3. PICK s \in Stages : Enters(t, s)
      BY <1>1, <3>1, <3>2, TaskSteps
    <3>4. s = "body"
      BY Zenon, <1>0, <1>9, <2>2, <3>3 DEF Enters
    <3>5. t \in Sent("body") /\ channel["body"] # <<>> /\ t = Head(channel["body"])
      BY Zenon, <3>3, <3>4 DEF Enters, Registers
    <3>6. ~Before(channel["body"], u, t)
      <4> DEFINE q == channel["body"]
      <4>1. q \in Seq(Nat) /\ q # <<>> /\ Distinct(q) /\ t = Head(q)
        BY <1>5, <3>5
      <4> HIDE DEF q
      <4>2. t \notin Elems(Tail(q))
        BY Zenon, <1>3, <4>1, OrderTail
      <4>3. ~Before(q, u, t)
        BY Zenon, <4>1, <4>2, OrderTail
      <4> QED
        BY <4>3 DEF q
    <3> QED
      BY Zenon, <1>1, <1>2, <1>4, <3>5, <3>6 DEF ParentsFirst
  <2> QED
    BY <2>1, <2>2
<1>10. t \in Sent("body") => ~Open(u) \/ Held("body", u) \/ Before(channel["body"], u, t)
  BY Zenon, <1>1, <1>2 DEF ParentsFirst
<1>11. t \in Sent("body")' => ~Held("body", t)'
  BY <1>6 DEF PlaceOK
<1> QED
  BY Zenon, <1>7, <1>8, <1>9, <1>10

\* A body begins after the earlier bodies of its parents are done.
LEMMA BodyFirst ==
  ASSUME PInv, Places, Once, ParentsFirst, Effect, NEW b \in Blocks, step'["body"][b] # "none",
         NEW u \in DOMAIN log', Precedes(u, Front("body", b))', NeedsBody(u)'
  PROVE  ~Open(u)'
<1>0. "body" \in Stages
  BY Names
<1>1. PICK f \in DOMAIN log : /\ f = Front("body", b) /\ Front("body", b)' = f /\ block(f) = b /\ Held("body", f)
                              /\ step["body"][b] # "none" \/ Begins("body", b)
  BY <1>0, FrontStays
<1>2. Precedes(u, f)'
  BY <1>1 DEF Precedes, block
<1>3. u \in DOMAIN log /\ Precedes(u, f) /\ NeedsBody(u)
  BY <1>2, PrecedesKept
<1>4. ~Open(u)
  <2>1. CASE step["body"][b] # "none"
    BY Zenon, <1>1, <1>3, <2>1 DEF ParentsFirst
  <2>2. CASE Begins("body", b)
    <3>1. ~Held("body", u)
      BY Zenon, <1>0, <1>1, <1>3, <2>2, ParentsNotHeld
    <3> QED
      BY Zenon, <1>1, <1>3, <3>1 DEF ParentsFirst
  <2> QED
    BY Zenon, <1>1, <2>1, <2>2
<1> QED
  BY <1>3, <1>4, AnswersStay

LEMMA ParentsFirstKept ==
  ASSUME PInv, Places, Once, ParentsFirst, Effect
  PROVE  ParentsFirst'
<1>1. \A b \in Blocks : step'["header"][b] # "none" =>
        \A u \in DOMAIN log' : Precedes(u, Front("header", b))' => u \notin Sent("header")' /\ ~Held("header", u)'
  BY HeaderFirst
<1>2. \A t \in DOMAIN log' : \A u \in DOMAIN log' : Precedes(u, t)' /\ NeedsBody(u)' =>
        /\ t \in Sent("body")' => ~Open(u)' \/ Held("body", u)' \/ Before(channel["body"], u, t)'
        /\ Held("body", t)' => ~Open(u)' \/ Held("body", u)'
  BY BodyOrder
<1>3. \A b \in Blocks : step'["body"][b] # "none" =>
        \A u \in DOMAIN log' : Precedes(u, Front("body", b))' /\ NeedsBody(u)' => ~Open(u)'
  BY BodyFirst
<1> QED
  BY Zenon, <1>1, <1>2, <1>3 DEF ParentsFirst

-----------------------------------------------------------------------------
(* Who is to blame for missing parents.                                    *)

LEMMA BlamedStays ==
  ASSUME PInv, Places, Once, Effect, NEW t \in DOMAIN log, Blamed(t)
  PROVE  Blamed(t)'
<1>1. PICK p \in Parents[block(t)] : \A u \in 1 .. t - 1 :
        block(u) = p /\ (kind(u) = "header_only" => kind(t) = "header_only") => Failed(u)
  BY DEF Blamed
<1>2. block(t)' = block(t) /\ kind(t)' = kind(t)
  BY LogGrows
<1>3. ASSUME NEW u \in 1 .. t - 1, block(u)' = p, kind(u)' = "header_only" => kind(t)' = "header_only"
      PROVE  Failed(u)'
  <2>1. u \in DOMAIN log
    BY LogFacts DEF PInv
  <2>2. block(u)' = block(u) /\ kind(u)' = kind(u)
    BY <2>1, LogGrows
  <2>3. Failed(u)
    BY <1>1, <1>2, <1>3, <2>2
  <2>4. blockRes'[u] = blockRes[u]
    BY <2>1, <2>3, AnswersStay DEF Failed, Open
  <2> QED
    BY <2>3, <2>4 DEF Failed
<1>4. p \in Parents[block(t)']
  BY <1>1, <1>2
<1> QED
  BY <1>3, <1>4 DEF Blamed

\* When a parent is found missing, its earlier tasks have failed: they have left the stage,
\* and an Ok would have left a status.
LEMMA BlamedNow ==
  ASSUME PInv, Places, ParentsFirst, NEW s \in Stages, NEW b \in Blocks, NEW v \in Statuses,
         Decides(s, b, "MissingParents", v)
  PROVE  Blamed(Front(s, b))
<1>0. Types /\ Calls /\ Tasks /\ Stored
  BY DEF PInv
<1>1. step[s][b] = "begun"
  BY DEF Decides
<1>2. PICK p \in Parents[b] : status[p] \notin (IF s = "header" THEN Statuses \ {"None"} ELSE HasBody)
  BY DEF Decides
<1>3. PICK f \in DOMAIN log : /\ f = Front(s, b) /\ block(f) = b /\ Held(s, f)
  <2>1. /\ Front(s, b) \in DOMAIN log /\ block(Front(s, b)) = b
        /\ Front(s, b) = pending[s][b].tasks[1] /\ 1 \in DOMAIN pending[s][b].tasks
    BY Zenon, <1>0, <1>1, FrontFacts
  <2>2. Front(s, b) \in Members(s, b)
    BY Zenon, <2>1 DEF Members, Elems
  <2> QED
    BY Zenon, <2>1, <2>2 DEF Held
<1>4. p \in Blocks /\ status[p] \in Statuses
  BY Zenon, <1>0, PipelineAssumption DEF Types
<1>5. ASSUME NEW u \in 1 .. f - 1, block(u) = p, kind(u) = "header_only" => kind(f) = "header_only"
      PROVE  Failed(u)
  <2>1. u \in DOMAIN log /\ u < f /\ u # Exit
    <3>1. DOMAIN log = 1 .. Len(log) /\ Len(log) \in Nat
      BY <1>0, LogFacts
    <3>2. u \in DOMAIN log /\ u < f
      BY <3>1
    <3> QED
      BY LogFacts, Names
  <2>2. Precedes(u, f)
    BY Zenon, <1>3, <1>5, <2>1 DEF Precedes
  <2>3. PlaceOK(u) /\ PlaceOK(f)
    BY <2>1 DEF Places
  <2>4. CASE s = "header"
    <3>1. status[p] = "None"
      BY <1>2, <1>4, <2>4
    <3>2. u \notin Sent("header") /\ ~Held("header", u)
      BY Zenon, <1>1, <1>3, <2>1, <2>2, <2>4 DEF ParentsFirst
    <3>3. u \notin Sent("body") /\ ~Held("body", u)
      BY Zenon, <1>0, <1>4, <1>5, <2>1, <3>1 DEF Stored, Held
    <3> QED
      BY Zenon, <1>5, <2>3, <3>1, <3>2, <3>3 DEF PlaceOK, Failed, Open
  <2>5. CASE s = "body"
    <3>1. status[p] \notin HasBody
      BY <1>2, <2>5
    <3>2. NeedsBody(f)
      BY Zenon, <1>3, <2>3, <2>5 DEF PlaceOK
    <3>3. NeedsBody(u)
      BY <1>5, <3>2 DEF NeedsBody
    <3>4. ~Open(u)
      BY Zenon, <1>1, <1>3, <2>1, <2>2, <2>5, <3>3 DEF ParentsFirst
    <3> QED
      BY Zenon, <1>5, <2>3, <3>1, <3>3, <3>4 DEF PlaceOK, Failed, Open
  <2> QED
    BY <2>4, <2>5, Names
<1> QED
  BY Zenon, <1>3, <1>5 DEF Blamed

LEMMA BlamesKept ==
  ASSUME PInv, Places, Once, ParentsFirst, Blames, Effect
  PROVE  Blames'
<1>0. Types /\ Calls /\ Tasks
  BY DEF PInv
<1>1. ASSUME NEW s \in Stages, NEW b \in Blocks, step'[s][b] = "MissingParents" PROVE Blamed(Front(s, b))'
  <2>1. PICK f \in DOMAIN log : f = Front(s, b) /\ Front(s, b)' = f
    BY <1>1, FrontStays
  <2>2. Blamed(f)
    <3>1. CASE step'[s][b] = step[s][b]
      BY <1>1, <2>1, <3>1 DEF Blames
    <3>2. ASSUME NEW r \in Results, NEW v \in Statuses, Decides(s, b, r, v), step'[s][b] = r PROVE Blamed(f)
      BY <1>1, <2>1, <3>2, BlamedNow
    <3> QED
      BY Zenon, <1>1, <3>1, <3>2 DEF Effect, StepMove
  <2>3. Blamed(f)'
    BY <2>2, BlamedStays
  <2> QED
    BY <2>1, <2>3 DEF Blamed
<1>2. ASSUME NEW t \in DOMAIN log', blockRes'[t] = "MissingParents" PROVE Blamed(t)'
  <2>1. t \in DOMAIN log
    <3>1. t \in Task
      <4>1. Types'
        BY DEF Effect
      <4>2. DOMAIN log' = 1 .. Len(log') /\ Len(log') \in Nat /\ Len(log') <= MaxSubmissions
        BY <4>1 DEF Types
      <4>3. t \in 1 .. MaxSubmissions
        BY <4>2, PipelineAssumption
      <4> QED
        BY <4>3 DEF Task
    <3>2. CASE log' = log
      BY <3>2
    <3>3. CASE blockRes' = blockRes
      BY <1>2, <3>1, <3>3 DEF Places, Open
    <3>4. Quiet => log' = log
      BY DEF Quiet
    <3>5. ASSUME NEW s \in Stages, NEW v \in DOMAIN log, NEW c \in Blocks, Registers(s, v, c) PROVE log' = log
      BY Zenon, <3>5 DEF Registers
    <3>6. ASSUME NEW s \in Stages, NEW b \in Blocks, NEW v \in DOMAIN log, Releases(s, b, v) PROVE log' = log
      BY Zenon, <3>6 DEF Releases
    <3>7. ASSUME NEW b \in Blocks, NEW k \in Kinds, Submit(b, k) PROVE blockRes' = blockRes
      BY <3>7 DEF Submit
    <3> QED
      BY Zenon, <3>3, <3>4, <3>5, <3>6, <3>7 DEF Effect, TaskMove
  <2>2. CASE blockRes'[t] = blockRes[t]
    BY <1>2, <2>1, <2>2, BlamedStays DEF Blames
  <2>3. ASSUME NEW s \in Stages, NEW b \in Blocks, Leaves(t, s, b), ~Passes(s, b) PROVE Blamed(t)'
    <3>1. step[s][b] = "MissingParents" /\ t = Front(s, b)
      BY Zenon, <1>2, <2>3 DEF Leaves, Releases
    <3>2. Blamed(t)
      BY <3>1 DEF Blames
    <3> QED
      BY <2>1, <3>2, BlamedStays
  <2>4. ASSUME NEW s \in Stages, NEW b \in Blocks, Leaves(t, s, b), Passes(s, b) PROVE blockRes'[t] = blockRes[t]
    BY <2>4 DEF Leaves
  <2>5. ASSUME NEW s \in Stages, Enters(t, s) PROVE blockRes'[t] = blockRes[t]
    BY <2>5 DEF Enters
  <2>6. Stays(t) => blockRes'[t] = blockRes[t]
    BY DEF Stays
  <2> QED
    BY Zenon, <2>1, <2>2, <2>3, <2>4, <2>5, <2>6, TaskSteps
<1> QED
  BY <1>1, <1>2 DEF Blames

LEMMA OrderInit ==
  ASSUME Init
  PROVE  OInv
<1>1. DOMAIN log = {} /\ DOMAIN channel["header"] = {} /\ DOMAIN channel["body"] = {}
  BY Names DEF Init
<1>2. \A s \in Stages : \A b \in Blocks : DOMAIN pending[s][b].tasks = {} /\ step[s][b] = "none"
  BY DEF Init, NoGroup
<1>3. \A t \in Task : Open(t)
  BY DEF Init, Open
<1>4. "header" \in Stages /\ "body" \in Stages
  BY Names
<1>5. Places
  BY <1>1, <1>3 DEF Places
<1>6. Once
  BY Zenon, <1>1, <1>2 DEF Once, Increasing, Distinct
<1>7. ParentsFirst
  BY Zenon, <1>1 DEF ParentsFirst
<1>8. Blames
  BY <1>1, <1>2 DEF Blames
<1> QED
  BY <1>5, <1>6, <1>7, <1>8 DEF OInv

-----------------------------------------------------------------------------
(* The order of the tasks: an open task is in exactly one channel or group, *)
(* the channels never overtake, and a task begins in a stage only after the *)
(* earlier tasks of its parents have left it.                               *)
THEOREM OrderInvariant == Spec => []OInv
<1>1. Init => OInv
  BY OrderInit
<1>2. PInv /\ OInv /\ [Next]_vars => OInv'
  <2> SUFFICES ASSUME PInv, OInv, [Next]_vars PROVE OInv'
    OBVIOUS
  <2>0. Places /\ Once /\ ParentsFirst /\ Blames
    BY DEF OInv
  <2>1. CASE Next
    <3>1. Effect
      BY <2>1, StepEffect
    <3> QED
      BY <3>1, PlacesKept, OnceKept, ParentsFirstKept, BlamesKept DEF OInv
  <2>2. CASE UNCHANGED vars
    <3>1. /\ \A s : Sent(s)' = Sent(s)
          /\ \A t : block(t)' = block(t) /\ kind(t)' = kind(t)
          /\ \A t : Open(t)' <=> Open(t)
          /\ \A s, b : Front(s, b)' = Front(s, b)
      BY <2>2 DEF vars, Sent, Elems, block, kind, Open, Front
    <3>2. /\ \A s, t : Held(s, t)' <=> Held(s, t)
          /\ \A t : NeedsBody(t)' <=> NeedsBody(t)
          /\ \A t : Failed(t)' <=> Failed(t)
      BY Zenon, <2>2, <3>1 DEF vars, Held, Members, NeedsBody, Failed
    <3>3. \A u, t : Precedes(u, t)' <=> Precedes(u, t)
      BY <3>1 DEF Precedes
    <3>4. \A t : Blamed(t)' <=> Blamed(t)
      BY <3>1, <3>2 DEF Blamed
    <3>5. Places'
      <4>1. \A t : PlaceOK(t)' <=> PlaceOK(t)
        BY <2>2, <3>1, <3>2 DEF vars, PlaceOK
      <4> QED
        BY Zenon, <2>0, <2>2, <3>1, <4>1 DEF vars, Places
    <3>6. Once'
      BY <2>0, <2>2, <3>1 DEF vars, Once
    <3>7. ParentsFirst'
      <4>1. \A s, b, u : Precedes(u, Front(s, b))' <=> Precedes(u, Front(s, b))
        BY <3>1 DEF Precedes
      <4>2. \A u, t : Before(channel["body"], u, t)' <=> Before(channel["body"], u, t)
        BY <2>2 DEF vars, Before
      <4> QED
        BY Zenon, <2>0, <2>2, <3>1, <3>2, <3>3 DEF vars, ParentsFirst
    <3>8. Blames'
      <4>1. \A s, b : Blamed(Front(s, b))' <=> Blamed(Front(s, b))
        BY <3>1, <3>2 DEF Blamed
      <4> QED
        BY Zenon, <2>0, <2>2, <3>4, <4>1 DEF vars, Blames
    <3> QED
      BY <3>5, <3>6, <3>7, <3>8 DEF OInv
  <2> QED
    BY <2>1, <2>2
<1> QED
  BY <1>1, <1>2, PipelineInvariant, PTL DEF Spec

(* A block handed over after its parents is never turned away for missing  *)
(* them: a task that fails with MissingParents has a parent of which every  *)
(* earlier task failed.                                                     *)
THEOREM PipelineNoSpuriousOrphan == Spec => []NoSpuriousOrphan
<1>1. OInv => NoSpuriousOrphan
  BY DEF OInv, Blames, Blamed, Failed, NoSpuriousOrphan
<1> QED
  BY <1>1, OrderInvariant, PTL

=============================================================================
