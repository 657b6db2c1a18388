--------------------------- MODULE PipelineProofs ---------------------------
(***************************************************************************)
(* The block processing pipeline, for any DAG of blocks, any number of     *)
(* submissions and any interleaving of the threads: the calls of the two   *)
(* dependency managers, the statuses, the shutdown and the Header-v4       *)
(* verdicts.                                                               *)
(***************************************************************************)
EXTENDS Pipeline, TLAPS

\* The types of the state, with the names the provers need.
Group == [tasks : Seq(Nat), taken : BOOLEAN, dependents : Seq(Blocks)]

Entry == [block : Blocks, kind : Kinds]

Message == {Process(t) : t \in Task} \cup {EnsurePalwParents(b) : b \in Blocks} \cup {VirtualExit}

WorkerStates == {"recv", "draining", "waiting", "notified", "writing", "exited"}

Steps == {"none", "begun", "asking", "answered", "refused"} \cup Results

Types ==
  /\ log \in Seq(Entry) /\ Len(log) <= MaxSubmissions
  /\ channel = [w \in Workers |-> channel[w]]
  /\ \A s \in Stages : channel[s] \in Seq(Nat)
  /\ channel["virtual"] \in Seq(Message)
  /\ worker \in [Workers -> WorkerStates]
  /\ writes \in 0 .. MaxWrites /\ (worker["pruning"] = "waiting" => writes > 0)
  /\ pending \in [Stages -> [Blocks -> Group]]
  /\ pool \in [Stages -> [Blocks -> Nat]]
  /\ step \in [Stages -> [Blocks -> Steps]]
  /\ status \in [Blocks -> Statuses]
  /\ blockRes \in [Task -> Results \cup {"open"}]
  /\ virtualRes \in [Task -> Results \cup {"open"}]

\* Block b is entry i of the dependents of p.
Waits(s, b, p, i) == i \in DOMAIN pending[s][p].dependents /\ pending[s][p].dependents[i] = b

Waiting(s, b) == \E p \in Blocks : \E i : Waits(s, b, p, i)

WaitsOnce(s, b) == \A p, q \in Blocks : \A i, j : Waits(s, b, p, i) /\ Waits(s, b, q, j) => p = q /\ i = j

\* The queue_block call of a block.  Its call is spawned, or waits as a dependent of
\* one parent, or is under way; never two of these, and none for a block not pending.
CallOK(s, b) ==
  /\ pending[s][b].taken <=> step[s][b] # "none"
  /\ ~IsPending(s, b) => /\ pending[s][b].dependents = <<>> /\ pool[s][b] = 0
                         /\ step[s][b] = "none" /\ ~Waiting(s, b)
  /\ IsPending(s, b) => \/ pool[s][b] = 1 /\ step[s][b] = "none" /\ ~Waiting(s, b)
                        \/ pool[s][b] = 0 /\ step[s][b] # "none" /\ ~Waiting(s, b)
                        \/ pool[s][b] = 0 /\ step[s][b] = "none" /\ Waiting(s, b)
  /\ WaitsOnce(s, b)

Calls == \A s \in Stages : \A b \in Blocks : CallOK(s, b)

\* What a sequence holds, a stage was sent, and a group of tasks has.
Elems(q) == {q[i] : i \in DOMAIN q}

Sent(s) == Elems(channel[s])

Members(s, b) == Elems(pending[s][b].tasks)

\* Channels and groups hold tasks of the log, a group only those of its block.
Tasks ==
  /\ \A s \in Stages : Sent(s) \subseteq {Exit} \cup DOMAIN log
  /\ \A s \in Stages : \A b \in Blocks : \A t \in Members(s, b) : t \in DOMAIN log /\ block(t) = b

\* A header is stored before its task is passed on, a body before its task is answered
\* Ok; a body that waits for the virtual worker is not stored yet.
Stored ==
  /\ \A b \in Blocks : step["header"][b] = "Ok" => status[b] # "None"
  /\ \A b \in Blocks : Members("body", b) # {} => status[b] # "None"
  /\ \A t \in Sent("body") : t # Exit => status[block(t)] # "None"
  /\ \A b \in Blocks : BodyWaits(b) => status[b] = "HeaderOnly"
  /\ \A b \in Blocks : step["body"][b] = "Ok" => status[b] \in HasBody

\* A stage that has passed the exit on is idle, and virtual is told to exit by the body stage.
Draining ==
  /\ \A s \in Stages : worker[s] \in {"notified", "exited"} => Idle(s)
  /\ VirtualExit \in Batch \/ worker["virtual"] = "exited" => worker["body"] = "exited"

\* The parents of a block have their verdicts, one of them a valid one.
ParentsSettled(b) ==
  /\ \A p \in Parents[b] : status[p] \in Settled
  /\ \E p \in Parents[b] : status[p] = "UTXOValid"

\* Only a body that asks is in the batch of virtual, and an answer tells the verdicts.
Settling ==
  /\ \A b \in Blocks : EnsurePalwParents(b) \in Batch => step["body"][b] = "asking"
  /\ \A b \in Blocks : step["body"][b] = "answered" => ParentsSettled(b)
  /\ ParentsSettledFirst

\* A task for the body stage too.
NeedsBody(t) == kind(t) # "header_only"

(* The inductive invariant of the pipeline.                                *)
PInv == Types /\ Calls /\ Tasks /\ Stored /\ Draining /\ Settling

-----------------------------------------------------------------------------
(* Sequences and sets.                                                     *)

\* The cardinality of a set of at most one element.
LEMMA CountFacts ==
  /\ Cardinality({}) = 0
  /\ \A x : Cardinality({x}) = 1
<1>1. ASSUME NEW S, S = {} \/ \E x : S = {x}
      PROVE  Cardinality(S) = IF S = {} THEN 0 ELSE 1
  <2> DEFINE F(CS) == CS = [T \in SUBSET S |-> IF T = {} THEN 0 ELSE 1 + CS[T \ {CHOOSE x : x \in T}]]
             g == [T \in SUBSET S |-> IF T = {} THEN 0 ELSE 1]
             c == CHOOSE CS : F(CS)
  <2>1. \A T \in SUBSET S : T # {} => T = S /\ T \ {CHOOSE x : x \in T} = {}
    <3> SUFFICES ASSUME NEW T \in SUBSET S, T # {} PROVE T = S /\ T \ {CHOOSE x : x \in T} = {}
      OBVIOUS
    <3>1. PICK x : S = {x} /\ T = {x}
      BY <1>1
    <3>2. (CHOOSE y : y \in T) \in T
      BY <3>1
    <3> QED
      BY <3>1, <3>2
  <2>2. {} \in SUBSET S /\ S \in SUBSET S
    OBVIOUS
  <2>3. F(g)
    BY <2>1, <2>2
  <2>4. F(c)
    BY Zenon, <2>3
  <2>5. Cardinality(S) = c[S]
    BY DEF Cardinality
  <2> HIDE DEF c
  <2>6. c[{}] = 0
    BY <2>2, <2>4
  <2>7. S # {} => c[S] = 1 + c[S \ {CHOOSE x : x \in S}]
    BY <2>2, <2>4
  <2>8. CASE S = {}
    BY <2>5, <2>6, <2>8
  <2>9. CASE S # {}
    <3>1. S \ {CHOOSE x : x \in S} = {}
      BY <2>1, <2>2, <2>9
    <3>2. c[S] = 1 + 0
      BY <2>6, <2>7, <2>9, <3>1
    <3> QED
      BY <2>5, <2>9, <3>2
  <2> QED
    BY <2>8, <2>9
<1> QED
  BY <1>1

LEMMA AppendFacts ==
  ASSUME NEW S, NEW q \in Seq(S), NEW m \in S
  PROVE  /\ Append(q, m) \in Seq(S) /\ Append(q, m) # <<>>
         /\ Len(q) \in Nat /\ DOMAIN q = 1 .. Len(q)
         /\ DOMAIN Append(q, m) = 1 .. Len(q) + 1
         /\ \A i \in 1 .. Len(q) : Append(q, m)[i] = q[i]
         /\ Append(q, m)[Len(q) + 1] = m
<1>1. Append(q, m) \in Seq(S) /\ Len(Append(q, m)) = Len(q) + 1
  OBVIOUS
<1>2. Len(q) \in Nat /\ DOMAIN q = 1 .. Len(q) /\ DOMAIN Append(q, m) = 1 .. Len(q) + 1
  BY <1>1
<1>3. Append(q, m) # <<>>
  BY <1>1, <1>2
<1>4. \A i \in 1 .. Len(q) : Append(q, m)[i] = q[i]
  BY <1>2
<1>5. Append(q, m)[Len(q) + 1] = m
  BY <1>2
<1> QED
  BY <1>1, <1>2, <1>3, <1>4, <1>5

LEMMA TailFacts ==
  ASSUME NEW S, NEW q \in Seq(S), q # <<>>
  PROVE  /\ Head(q) \in S /\ Head(q) = q[1] /\ 1 \in DOMAIN q
         /\ Tail(q) \in Seq(S) /\ Len(q) \in Nat /\ DOMAIN q = 1 .. Len(q)
         /\ DOMAIN Tail(q) = 1 .. Len(q) - 1
         /\ \A i \in DOMAIN Tail(q) : i + 1 \in DOMAIN q /\ Tail(q)[i] = q[i + 1]
         /\ \A i \in DOMAIN q : i # 1 => i - 1 \in DOMAIN Tail(q) /\ q[i] = Tail(q)[i - 1]
<1>1. Len(q) \in Nat /\ Len(q) # 0 /\ DOMAIN q = 1 .. Len(q)
  OBVIOUS
<1>2. Tail(q) \in Seq(S) /\ Len(Tail(q)) = Len(q) - 1 /\ Head(q) = q[1] /\ q[1] \in S
  BY <1>1
<1>3. DOMAIN Tail(q) = 1 .. Len(q) - 1
  BY <1>1, <1>2
<1>4. \A i \in 1 .. Len(q) - 1 : Tail(q)[i] = q[i + 1]
  BY <1>1
<1> QED
  BY <1>1, <1>2, <1>3, <1>4

\* What a sequence holds after a message is added or taken.
LEMMA ElemsFacts ==
  ASSUME NEW S, NEW q \in Seq(S)
  PROVE  /\ \A m \in S : Elems(Append(q, m)) = Elems(q) \cup {m}
         /\ q # <<>> => Elems(q) = {Head(q)} \cup Elems(Tail(q))
         /\ Elems(q) \subseteq S
         /\ q = <<>> <=> Elems(q) = {}
<1>1. ASSUME NEW m \in S PROVE Elems(Append(q, m)) = Elems(q) \cup {m}
  BY AppendFacts DEF Elems
<1>2. ASSUME q # <<>> PROVE Elems(q) = {Head(q)} \cup Elems(Tail(q))
  <2>1. Elems(q) \subseteq {Head(q)} \cup Elems(Tail(q))
    <3>1. \A i \in DOMAIN q : q[i] = Head(q) \/ \E j \in DOMAIN Tail(q) : q[i] = Tail(q)[j]
      <4>1. Head(q) = q[1] /\ \A i \in DOMAIN q : i # 1 => i - 1 \in DOMAIN Tail(q) /\ q[i] = Tail(q)[i - 1]
        BY <1>2, TailFacts
      <4> QED
        BY Zenon, <4>1
    <3> QED
      BY SMTT(20), <3>1 DEF Elems
  <2>2. \A i \in DOMAIN Tail(q) : Tail(q)[i] \in Elems(q)
    BY <1>2, TailFacts DEF Elems
  <2>3. Head(q) \in Elems(q)
    BY <1>2, TailFacts DEF Elems
  <2> QED
    BY SMTT(20), <2>1, <2>2, <2>3 DEF Elems
<1>3. Elems(q) \subseteq S
  BY DEF Elems
<1>4. q = <<>> <=> Elems(q) = {}
  <2>1. q = <<>> => DOMAIN q = {}
    OBVIOUS
  <2>2. q # <<>> => 1 \in DOMAIN q
    OBVIOUS
  <2> QED
    BY Zenon, <2>1, <2>2 DEF Elems
<1> QED
  BY <1>1, <1>2, <1>3, <1>4

LEMMA Names ==
  /\ Stages = {"header", "body"} /\ Workers = {"header", "body", "virtual", "pruning"}
  /\ Exit = 0 /\ Task = 1 .. MaxSubmissions
BY DEF Stages, Workers, Exit, Task

\* A message is appended to one channel.
LEMMA SendFacts ==
  ASSUME Types, NEW c \in Workers, NEW m, Send(c, m)
  PROVE  /\ channel' = [w \in Workers |-> channel'[w]]
         /\ channel'[c] = Append(channel[c], m)
         /\ \A w \in Workers \ {c} : channel'[w] = channel[w]
BY Zenon DEF Types, Send

-----------------------------------------------------------------------------
(* The tasks in the channels and in the dependency managers.               *)

\* A log entry is a task, and belongs to a block.
LEMMA LogFacts ==
  ASSUME Types
  PROVE  /\ Len(log) \in Nat /\ DOMAIN log = 1 .. Len(log) /\ DOMAIN log \subseteq Task
         /\ \A t \in DOMAIN log : t \in Nat /\ block(t) \in Blocks /\ kind(t) \in Kinds
<1>1. log \in Seq(Entry) /\ Len(log) <= MaxSubmissions /\ MaxSubmissions \in Nat
  BY PipelineAssumption DEF Types
<1>2. Len(log) \in Nat /\ DOMAIN log = 1 .. Len(log)
  BY <1>1
<1>3. \A t \in DOMAIN log : log[t] \in Entry
  BY <1>1
<1>4. \A t \in DOMAIN log : block(t) \in Blocks /\ kind(t) \in Kinds
  BY <1>3 DEF block, kind, Entry
<1> QED
  BY <1>1, <1>2, <1>4 DEF Task

LEMMA SentFacts ==
  ASSUME Types, NEW s \in Stages
  PROVE  /\ \A m \in Nat : channel'[s] = Append(channel[s], m) => Sent(s)' = Sent(s) \cup {m}
         /\ channel[s] # <<>> /\ channel'[s] = Tail(channel[s]) => Sent(s) = {Head(channel[s])} \cup Sent(s)'
         /\ channel'[s] = channel[s] => Sent(s)' = Sent(s)
         /\ Sent(s) \subseteq Nat
<1>1. channel[s] \in Seq(Nat)
  BY DEF Types
<1>2. /\ \A m \in Nat : Elems(Append(channel[s], m)) = Elems(channel[s]) \cup {m}
      /\ channel[s] # <<>> => Elems(channel[s]) = {Head(channel[s])} \cup Elems(Tail(channel[s]))
      /\ Elems(channel[s]) \subseteq Nat
  BY <1>1, ElemsFacts
<1>3. Sent(s) = Elems(channel[s]) /\ Sent(s)' = Elems(channel'[s])
  BY DEF Sent, Elems
<1> QED
  BY Zenon, <1>2, <1>3

LEMMA MembersFacts ==
  ASSUME Types, NEW s \in Stages, NEW b \in Blocks
  PROVE  /\ \A m \in Nat : pending'[s][b].tasks = Append(pending[s][b].tasks, m) =>
              Members(s, b)' = Members(s, b) \cup {m}
         /\ IsPending(s, b) /\ pending'[s][b].tasks = Tail(pending[s][b].tasks) =>
              Members(s, b) = {Front(s, b)} \cup Members(s, b)'
         /\ pending'[s][b].tasks = pending[s][b].tasks => Members(s, b)' = Members(s, b)
         /\ IsPending(s, b) <=> Members(s, b) # {}
<1> DEFINE q == pending[s][b].tasks
<1>1. q \in Seq(Nat)
  BY DEF Types, Group
<1>2. Members(s, b) = Elems(q) /\ Members(s, b)' = Elems(pending'[s][b].tasks)
  BY DEF Members, Elems
<1>3. (IsPending(s, b) <=> q # <<>>) /\ Front(s, b) = Head(q)
  BY DEF IsPending, Front
<1> HIDE DEF q
<1>4. /\ \A m \in Nat : Elems(Append(q, m)) = Elems(q) \cup {m}
      /\ q # <<>> => Elems(q) = {Head(q)} \cup Elems(Tail(q))
      /\ q = <<>> <=> Elems(q) = {}
  BY <1>1, ElemsFacts
<1> QED
  BY Zenon, <1>2, <1>3, <1>4 DEF q

LEMMA BatchFacts ==
  ASSUME Types
  PROVE  /\ \A m \in Message : channel'["virtual"] = Append(channel["virtual"], m) => Batch' = Batch \cup {m}
         /\ channel'["virtual"] = channel["virtual"] => Batch' = Batch
         /\ channel'["virtual"] = <<>> => Batch' = {}
<1>1. channel["virtual"] \in Seq(Message)
  BY DEF Types
<1>2. \A m \in Message : Elems(Append(channel["virtual"], m)) = Elems(channel["virtual"]) \cup {m}
  BY <1>1, ElemsFacts
<1>3. Batch = Elems(channel["virtual"]) /\ Batch' = Elems(channel'["virtual"])
  BY DEF Batch, Elems
<1>4. Elems(<<>>) = {}
  BY DEF Elems
<1> QED
  BY Zenon, <1>2, <1>3, <1>4

\* The task that end takes off is the front task of its block, under way.
LEMMA FrontFacts ==
  ASSUME Types, Calls, Tasks, NEW s \in Stages, NEW b \in Blocks, IsPending(s, b) \/ step[s][b] # "none"
  PROVE  /\ IsPending(s, b) /\ pending[s][b].tasks \in Seq(Nat) /\ pending[s][b].tasks # <<>>
         /\ Front(s, b) \in DOMAIN log /\ block(Front(s, b)) = b
         /\ Front(s, b) = pending[s][b].tasks[1] /\ 1 \in DOMAIN pending[s][b].tasks
         /\ Front(s, b) \in Task
         /\ pending[s][b].dependents \in Seq(Blocks)
<1>1. IsPending(s, b)
  BY DEF Calls, CallOK
<1>2. pending[s][b] \in Group
  BY DEF Types
<1>3. /\ pending[s][b].tasks \in Seq(Nat) /\ pending[s][b].tasks # <<>>
      /\ pending[s][b].dependents \in Seq(Blocks)
  BY Zenon, <1>1, <1>2 DEF Group, IsPending
<1>4. Front(s, b) = pending[s][b].tasks[1] /\ 1 \in DOMAIN pending[s][b].tasks
  BY <1>3 DEF Front
<1>5. Front(s, b) \in DOMAIN log /\ block(Front(s, b)) = b
  <2>1. Front(s, b) \in Members(s, b)
    BY Zenon, <1>4 DEF Members, Elems
  <2> QED
    BY <2>1 DEF Tasks
<1> QED
  BY Zenon, <1>1, <1>3, <1>4, <1>5, LogFacts

-----------------------------------------------------------------------------
(* What the steps do.                                                      *)

\* The two outcomes of try_begin.
Begins(s, b) ==
  /\ try_begin(s, b) /\ \A p \in Parents[b] : ~IsPending(s, p)
  /\ pending' = [pending EXCEPT ![s][b].taken = TRUE]
  /\ step' = [step EXCEPT ![s][b] = "begun"]

Depends(s, b, p) ==
  /\ try_begin(s, b) /\ p \in Parents[b] /\ IsPending(s, p)
  /\ pending' = [pending EXCEPT ![s][p].dependents = Append(@, b)]
  /\ UNCHANGED step

\* A body asks the virtual worker for its parents' verdicts.
Asks(b) ==
  /\ process_body(b)
  /\ status[b] = "HeaderOnly" /\ HeaderV4 /\ Parents[b] # {}
  /\ \A p \in Parents[b] : status[p] \in HasBody
  /\ step' = [step EXCEPT !["body"][b] = "asking"]
  /\ Send("virtual", EnsurePalwParents(b))
  /\ UNCHANGED <<writes, log, worker, pending, pool, status, blockRes, virtualRes>>

\* The processing of a header or a body ends with a result and a status.
Decides(s, b, r, v) ==
  /\ step[s][b] \in {"begun", "answered", "refused"} /\ Finish(s, b, r, v)
  /\ s = "header" => step[s][b] = "begun"
  /\ \/ v = status[b]
     \/ s = "header" /\ status[b] = "None" /\ v \in {"HeaderOnly", "Invalid"}
     \/ s = "body" /\ status[b] = "HeaderOnly" /\ v \in {"UTXOPendingVerification", "Invalid"}
  /\ r = "Ok" => v # "None" /\ (s = "body" => v \in HasBody)
  /\ v = "UTXOPendingVerification" /\ v # status[b] =>
       \/ kind(Front(s, b)) = "trusted"
       \/ step[s][b] = "answered"
       \/ ~(HeaderV4 /\ Parents[b] # {})
  /\ r = "MissingParents" =>
       /\ step[s][b] = "begun"
       /\ \E p \in Parents[b] : status[p] \notin (IF s = "header" THEN Statuses \ {"None"} ELSE HasBody)

Decided(s, b) == \E r \in Results, v \in Statuses : Decides(s, b, r, v)

\* A task whose header was processed is passed on to the body stage.
Passes(s, b) == s = "header" /\ step[s][b] = "Ok" /\ NeedsBody(Front(s, b))

\* A step that moves no task.
Quiet ==
  /\ UNCHANGED <<log, blockRes>>
  /\ \A s \in Stages :
       \/ channel'[s] = channel[s] /\ Sent(s)' = Sent(s)
       \/ channel'[s] = Append(channel[s], Exit) /\ Sent(s)' = Sent(s) \cup {Exit}
       \/ /\ channel[s] # <<>> /\ Head(channel[s]) = Exit
          /\ channel'[s] = Tail(channel[s]) /\ Sent(s) = {Exit} \cup Sent(s)'
  /\ \A s \in Stages : \A x \in Blocks :
       pending'[s][x].tasks = pending[s][x].tasks /\ Members(s, x)' = Members(s, x)

\* A stage registers a task sent to it.
Registers(s, t, c) ==
  /\ UNCHANGED <<log, step, blockRes>> /\ t \in DOMAIN log /\ t # Exit /\ c \in Blocks /\ c = block(t)
  /\ channel[s] # <<>> /\ t = Head(channel[s]) /\ channel'[s] = Tail(channel[s])
  /\ Sent(s) = {t} \cup Sent(s)'
  /\ \A r \in Stages \ {s} : channel'[r] = channel[r] /\ Sent(r)' = Sent(r)
  /\ pending'[s][c].tasks = Append(pending[s][c].tasks, t) /\ Members(s, c)' = Members(s, c) \cup {t}
  /\ \A r \in Stages : \A x \in Blocks : ~(r = s /\ x = c) =>
       pending'[r][x].tasks = pending[r][x].tasks /\ Members(r, x)' = Members(r, x)

\* A stage is done with the front task of a block, and passes it on or answers it.
Releases(s, b, t) ==
  /\ UNCHANGED log /\ t \in DOMAIN log /\ b = block(t) /\ t = Front(s, b)
  /\ step[s][b] \in Results /\ step'[s][b] = "none"
  /\ IsPending(s, b) /\ pending'[s][b].tasks = Tail(pending[s][b].tasks)
  /\ Members(s, b) = {t} \cup Members(s, b)'
  /\ \A r \in Stages : \A x \in Blocks : ~(r = s /\ x = b) =>
       pending'[r][x].tasks = pending[r][x].tasks /\ Members(r, x)' = Members(r, x)
  /\ channel'["header"] = channel["header"] /\ Sent("header")' = Sent("header")
  /\ Passes(s, b) => /\ channel'["body"] = Append(channel["body"], t) /\ Sent("body")' = Sent("body") \cup {t}
                     /\ blockRes' = blockRes
  /\ ~Passes(s, b) => /\ channel'["body"] = channel["body"] /\ Sent("body")' = Sent("body")
                      /\ blockRes'[t] = step[s][b] /\ \A u \in Task \ {t} : blockRes'[u] = blockRes[u]

\* What a step may do with the tasks.
TaskMove ==
  \/ Quiet
  \/ \E b \in Blocks, k \in Kinds : Submit(b, k)
  \/ \E s \in Stages : worker[s] = "recv" /\ \E t \in DOMAIN log, c \in Blocks : Registers(s, t, c)
  \/ \E s \in Stages, b \in Blocks : end(s, b) /\ \E t \in DOMAIN log : Releases(s, b, t)

\* How the processing of a block by a stage may move on.
StepMove(s, b) ==
  \/ step'[s][b] = step[s][b]
  \/ step'[s][b] = "begun" /\ step[s][b] = "none" /\ Begins(s, b) /\ IsPending(s, b)
  \/ step'[s][b] = "none" /\ step[s][b] \in Results /\ end(s, b)
  \/ \E r \in Results, v \in Statuses : Decides(s, b, r, v) /\ step'[s][b] = r /\ status'[b] = v
  \/ s = "body" /\ Asks(b) /\ step[s][b] = "begun" /\ step'[s][b] = "asking"
  \/ /\ s = "body" /\ step[s][b] = "asking" /\ Batch' = {}
     /\ step'[s][b] = "refused" \/ (step'[s][b] = "answered" /\ ParentsSettled(b)')

\* Only the processing of a block and the virtual worker change its status.
StatusMove(b) ==
  \/ status'[b] = status[b]
  \/ \E s \in Stages : \E r \in Results, v \in Statuses :
       Decides(s, b, r, v) /\ step'[s][b] = r /\ status'[b] = v
  \/ status[b] \in {"UTXOPendingVerification", "DisqualifiedFromChain"} /\ status'[b] \in Settled

\* What the virtual worker may be sent.
BatchMove ==
  \/ Batch' \subseteq Batch
  \/ \E t \in Task : Batch' = Batch \cup {Process(t)}
  \/ \E b \in Blocks : step'["body"][b] = "asking" /\ Batch' = Batch \cup {EnsurePalwParents(b)}
  \/ worker'["body"] = "exited" /\ Batch' = Batch \cup {VirtualExit}

\* How the workers may move on: draining may only end with the stage idle, and the
\* virtual worker exits when it is told to.
WorkerMove ==
  /\ \A s \in Stages :
       \/ worker'[s] = worker[s]
       \/ worker[s] = "recv" /\ worker'[s] = "draining"
       \/ worker[s] = "draining" /\ worker'[s] = "waiting"
       \/ worker[s] = "waiting" /\ worker'[s] = "notified" /\ Idle(s)'
       \/ WorkerExits(s) /\ worker'[s] = "exited"
  /\ worker'["virtual"] = worker["virtual"] \/ VirtualExit \in Batch

\* What every step keeps, and all that it may do.
Effect ==
  /\ Types' /\ Calls' /\ TaskMove /\ BatchMove /\ WorkerMove
  /\ \A b \in Blocks : StatusMove(b)
  /\ \A s \in Stages : \A b \in Blocks : StepMove(s, b)

\* How far a status may move.
Moves(b) ==
  \/ status'[b] = status[b]
  \/ status[b] = "None" /\ status'[b] \in {"HeaderOnly", "Invalid"}
  \/ status[b] = "HeaderOnly" /\ status'[b] \in {"UTXOPendingVerification", "Invalid"}
  \/ status[b] = "UTXOPendingVerification" /\ status'[b] \in Settled
  \/ status[b] = "DisqualifiedFromChain" /\ status'[b] = "UTXOValid"

\* What a step does not touch does not move.
LEMMA Frames ==
  ASSUME Types
  PROVE  /\ UNCHANGED step => \A s \in Stages : \A b \in Blocks : StepMove(s, b)
         /\ UNCHANGED status => \A b \in Blocks : StatusMove(b)
         /\ UNCHANGED worker => WorkerMove
         /\ channel'["virtual"] = channel["virtual"] => BatchMove
<1>1. UNCHANGED step => \A s \in Stages : \A b \in Blocks : StepMove(s, b)
  BY Zenon DEF StepMove
<1>2. UNCHANGED status => \A b \in Blocks : StatusMove(b)
  BY Zenon DEF StatusMove
<1>3. UNCHANGED worker => WorkerMove
  BY Zenon DEF WorkerMove
<1>4. channel'["virtual"] = channel["virtual"] => BatchMove
  BY BatchFacts DEF BatchMove
<1> QED
  BY <1>1, <1>2, <1>3, <1>4

LEMMA QuietFrame ==
  ASSUME Types, UNCHANGED <<log, blockRes>>,
         \A s \in Stages : channel'[s] = channel[s] \/ channel'[s] = Append(channel[s], Exit),
         \A s \in Stages : \A x \in Blocks : pending'[s][x].tasks = pending[s][x].tasks
  PROVE  TaskMove
<1>1. Exit \in Nat
  BY Zenon, Names
<1>2. \A s \in Stages : \/ channel'[s] = channel[s] /\ Sent(s)' = Sent(s)
                        \/ channel'[s] = Append(channel[s], Exit) /\ Sent(s)' = Sent(s) \cup {Exit}
  <2>1. \A s \in Stages : /\ channel'[s] = channel[s] => Sent(s)' = Sent(s)
                          /\ channel'[s] = Append(channel[s], Exit) => Sent(s)' = Sent(s) \cup {Exit}
    BY Zenon, <1>1, SentFacts
  <2> QED
    BY Zenon, <2>1
<1>3. \A s \in Stages : \A x \in Blocks : Members(s, x)' = Members(s, x)
  BY Zenon, MembersFacts
<1>4. Quiet
  BY Zenon, <1>2, <1>3 DEF Quiet
<1> QED
  BY <1>4 DEF TaskMove

\* A call stays in order when nothing about its block changes.
LEMMA CallFrame ==
  ASSUME NEW s \in Stages, NEW b \in Blocks, CallOK(s, b),
         IsPending(s, b)' <=> IsPending(s, b), pool'[s][b] = pool[s][b],
         pending'[s][b].taken = pending[s][b].taken, step'[s][b] = "none" <=> step[s][b] = "none",
         \A p \in Blocks : pending'[s][p].dependents = pending[s][p].dependents
  PROVE  CallOK(s, b)'
<1>1. \A p \in Blocks : \A i : Waits(s, b, p, i)' <=> Waits(s, b, p, i)
  BY Zenon DEF Waits
<1>2. (Waiting(s, b)' <=> Waiting(s, b)) /\ (WaitsOnce(s, b)' <=> WaitsOnce(s, b))
  BY Zenon, <1>1 DEF Waiting, WaitsOnce
<1> QED
  BY Zenon, <1>2 DEF CallOK

LEMMA CallsFrame ==
  ASSUME Calls, UNCHANGED <<pending, pool>>,
         \A s \in Stages : \A b \in Blocks : step'[s][b] = "none" <=> step[s][b] = "none"
  PROVE  Calls'
<1> SUFFICES ASSUME NEW s \in Stages, NEW b \in Blocks PROVE CallOK(s, b)'
  BY DEF Calls
<1>1. CallOK(s, b) /\ (IsPending(s, b)' <=> IsPending(s, b))
  BY DEF Calls, IsPending
<1> QED
  BY Zenon, <1>1, CallFrame

-----------------------------------------------------------------------------
(* The end of a block's processing by a stage.                             *)

\* A block that waits at most once in a list is found there at most once.
LEMMA OccurrencesFacts ==
  ASSUME NEW q \in Seq(Blocks), NEW x \in Blocks,
         \A i, j \in DOMAIN q : q[i] = x /\ q[j] = x => i = j
  PROVE  Occurrences(x, q) = IF \E i \in DOMAIN q : q[i] = x THEN 1 ELSE 0
<1> DEFINE I == {i \in DOMAIN q : q[i] = x}
<1>1. CASE \E i \in DOMAIN q : q[i] = x
  <2>1. PICK i \in DOMAIN q : q[i] = x
    BY <1>1
  <2>2. I = {i}
    BY <2>1
  <2>3. Cardinality(I) = 1
    BY Zenon, <2>2, CountFacts
  <2> QED
    BY <1>1, <2>3 DEF Occurrences
<1>2. CASE ~\E i \in DOMAIN q : q[i] = x
  <2>1. I = {}
    BY <1>2
  <2>2. Cardinality(I) = 0
    BY Zenon, <2>1, CountFacts
  <2> QED
    BY <1>2, <2>2 DEF Occurrences
<1> QED
  BY <1>1, <1>2

\* A call that ends answers its task or passes it on, wakes the worker that waits for the
\* stage to be idle, and is spawned again for the next task of its block or spawns those
\* that waited for it.
LEMMA EndEffect ==
  ASSUME Types, Calls, Tasks, NEW s \in Stages, NEW b \in Blocks, end(s, b)
  PROVE  Effect
<1> DEFINE g == pending[s][b]
           rest == Tail(g.tasks)
           deps == g.dependents
           res == step[s][b]
<1>0. UNCHANGED <<writes, log, status>> /\ res \in Results /\ res # "none"
  BY Zenon DEF end, Results
<1>1. PICK t \in DOMAIN log : t = Front(s, b) /\ block(t) = b /\ t \in Task /\ t \in Nat
  BY Zenon, <1>0, FrontFacts, LogFacts
<1>2. IsPending(s, b) /\ g \in Group /\ g.tasks \in Seq(Nat) /\ g.tasks # <<>> /\ deps \in Seq(Blocks)
  BY Zenon, <1>0, FrontFacts DEF Types
\* The groups and the steps.
<1>3. /\ pending' \in [Stages -> [Blocks -> Group]]
      /\ pending'[s][b].tasks = rest /\ pending'[s][b].taken = FALSE
      /\ rest = <<>> => pending'[s][b].dependents = <<>>
      /\ rest # <<>> => pending'[s][b].dependents = deps
      /\ \A r \in Stages : \A x \in Blocks : ~(r = s /\ x = b) => pending'[r][x] = pending[r][x]
  <2> DEFINE h == IF rest = <<>> THEN NoGroup ELSE [g EXCEPT !.tasks = rest, !.taken = FALSE]
  <2>1. rest \in Seq(Nat)
    BY <1>2
  <2>2. NoGroup \in Group
    BY DEF NoGroup, Group
  <2>3. pending' = [pending EXCEPT ![s][b] = h] /\ pending \in [Stages -> [Blocks -> Group]]
    BY Zenon DEF Types, end
  <2> HIDE DEF rest
  <2>4. /\ h \in Group /\ h.tasks = rest /\ h.taken = FALSE
        /\ rest = <<>> => h.dependents = <<>>
        /\ rest # <<>> => h.dependents = deps
    BY Zenon, <1>2, <2>1, <2>2 DEF Group, NoGroup
  <2> HIDE DEF h, deps
  <2>5. /\ pending' \in [Stages -> [Blocks -> Group]] /\ pending'[s][b] = h
        /\ \A r \in Stages : \A x \in Blocks : ~(r = s /\ x = b) => pending'[r][x] = pending[r][x]
    BY Zenon, <2>3, <2>4
  <2> QED
    BY Zenon, <2>4, <2>5
<1>4. /\ step' \in [Stages -> [Blocks -> Steps]] /\ step'[s][b] = "none"
      /\ \A r \in Stages : \A x \in Blocks : ~(r = s /\ x = b) => step'[r][x] = step[r][x]
  BY Zenon DEF end, Types, Steps
\* What it spawns.
<1>5. /\ pool' \in [Stages -> [Blocks -> Nat]]
      /\ \A r \in Stages \ {s} : pool'[r] = pool[r]
      /\ rest # <<>> => /\ pool'[s][b] = pool[s][b] + 1
                        /\ \A x \in Blocks \ {b} : pool'[s][x] = pool[s][x]
      /\ rest = <<>> => \A x \in Blocks :
           pool'[s][x] = pool[s][x] + IF \E i : Waits(s, x, b, i) THEN 1 ELSE 0
  <2> DEFINE plus(x) == Requeued(s, b, rest)[x]
  <2>1. ASSUME NEW x \in Blocks
        PROVE  Occurrences(x, deps) = IF \E i : Waits(s, x, b, i) THEN 1 ELSE 0
    <3>1. WaitsOnce(s, x)
      BY Zenon DEF Calls, CallOK
    <3>2. \A i, j \in DOMAIN deps : deps[i] = x /\ deps[j] = x => i = j
      BY Zenon, <3>1 DEF WaitsOnce, Waits
    <3>3. (\E i : Waits(s, x, b, i)) <=> \E i \in DOMAIN deps : deps[i] = x
      BY Zenon DEF Waits
    <3> HIDE DEF deps
    <3>4. Occurrences(x, deps) = IF \E i \in DOMAIN deps : deps[i] = x THEN 1 ELSE 0
      BY Zenon, <1>2, <3>2, OccurrencesFacts
    <3> QED
      BY Zenon, <3>3, <3>4
  <2>2. pool' = [pool EXCEPT ![s] = [x \in Blocks |-> pool[s][x] + plus(x)]]
    BY Zenon DEF end
  <2> HIDE DEF rest
  <2>3. \A x \in Blocks : /\ rest # <<>> => plus(x) = IF x = b THEN 1 ELSE 0
                          /\ rest = <<>> => plus(x) = Occurrences(x, deps)
    BY DEF Requeued
  <2> HIDE DEF plus, deps
  <2>4. \A x \in Blocks : plus(x) \in Nat
    BY <2>1, <2>3
  <2>5. pool \in [Stages -> [Blocks -> Nat]]
    BY DEF Types
  <2>6. [x \in Blocks |-> pool[s][x] + plus(x)] \in [Blocks -> Nat]
    BY <2>4, <2>5
  <2>7. /\ pool' \in [Stages -> [Blocks -> Nat]]
        /\ \A r \in Stages \ {s} : pool'[r] = pool[r]
        /\ \A x \in Blocks : pool'[s][x] = pool[s][x] + plus(x)
    BY Zenon, <2>2, <2>5, <2>6
  <2>8. rest # <<>> => /\ pool'[s][b] = pool[s][b] + 1
                       /\ \A x \in Blocks \ {b} : pool'[s][x] = pool[s][x]
    BY <2>3, <2>5, <2>7
  <2>9. rest = <<>> => \A x \in Blocks :
          pool'[s][x] = pool[s][x] + IF \E i : Waits(s, x, b, i) THEN 1 ELSE 0
    BY <2>1, <2>3, <2>7
  <2> QED
    BY Zenon, <2>7, <2>8, <2>9
\* What it answers, and to whom it passes the task.
<1>6. /\ channel' = [w \in Workers |-> channel'[w]] /\ channel'["header"] = channel["header"]
      /\ Passes(s, b) => channel'["body"] = Append(channel["body"], t) /\ blockRes' = blockRes
      /\ ~Passes(s, b) => /\ channel'["body"] = channel["body"] /\ blockRes'[t] = res
                          /\ \A u \in Task \ {t} : blockRes'[u] = blockRes[u]
      /\ channel'["virtual"] \in {channel["virtual"], Append(channel["virtual"], Process(t))}
      /\ blockRes' \in [Task -> Results \cup {"open"}] /\ virtualRes' \in [Task -> Results \cup {"open"}]
  <2>1. Callback(s, t, res) /\ (Passes(s, b) <=> s = "header" /\ res = "Ok" /\ NeedsBody(t))
    BY Zenon, <1>1 DEF end, Passes
  <2> HIDE DEF res
  <2>2. /\ Answer(blockRes, t, res) \in [Task -> Results \cup {"open"}]
        /\ Answer(virtualRes, t, res) \in [Task -> Results \cup {"open"}]
        /\ Answer(blockRes, t, res)[t] = res
        /\ \A u \in Task \ {t} : Answer(blockRes, t, res)[u] = blockRes[u]
    BY Zenon, <1>0, <1>1 DEF Answer, Types
  <2>3. /\ channel = [w \in Workers |-> channel[w]]
        /\ blockRes \in [Task -> Results \cup {"open"}] /\ virtualRes \in [Task -> Results \cup {"open"}]
    BY DEF Types
  <2>4. CASE Passes(s, b)
    <3>1. Send("body", t) /\ blockRes' = blockRes /\ virtualRes' = virtualRes
      BY Zenon, <2>1, <2>4 DEF Callback, NeedsBody
    <3> QED
      BY Zenon, <2>3, <2>4, <3>1, SendFacts, Names
  <2>5. CASE ~Passes(s, b) /\ s = "header"
    <3>1. channel' = channel /\ blockRes' = Answer(blockRes, t, res) /\ virtualRes' = Answer(virtualRes, t, res)
      BY Zenon, <2>1, <2>5 DEF Callback, NeedsBody
    <3> QED
      BY Zenon, <2>2, <2>3, <2>5, <3>1
  <2>6. CASE s = "body"
    <3>1. blockRes' = Answer(blockRes, t, res)
      BY Zenon, <2>1, <2>6 DEF Callback
    <3>2. \/ channel' = channel /\ virtualRes' = Answer(virtualRes, t, res)
          \/ Send("virtual", Process(t)) /\ virtualRes' = virtualRes
      BY Zenon, <2>1, <2>6 DEF Callback
    <3>3. virtualRes' \in [Task -> Results \cup {"open"}]
      BY Zenon, <2>2, <2>3, <3>2
    <3>4. /\ channel' = [w \in Workers |-> channel'[w]]
          /\ channel'["header"] = channel["header"] /\ channel'["body"] = channel["body"]
          /\ channel'["virtual"] \in {channel["virtual"], Append(channel["virtual"], Process(t))}
      BY Zenon, <2>3, <3>2, SendFacts, Names
    <3>5. ~Passes(s, b)
      BY <2>1, <2>6
    <3> QED
      BY Zenon, <2>2, <3>1, <3>3, <3>4, <3>5
  <2> QED
    BY Zenon, <2>4, <2>5, <2>6, Names
\* Whom it wakes.
<1>7. /\ worker' \in [Workers -> WorkerStates]
      /\ \A w \in Workers \ {s} : worker'[w] = worker[w]
      /\ worker'[s] = worker[s] \/ (worker[s] = "waiting" /\ worker'[s] = "notified" /\ Idle(s)')
  <2>1. NotifyIdle(s) /\ s \in Workers
    BY Zenon, Names DEF end
  <2>2. worker' = worker \/ (Idle(s)' /\ worker[s] = "waiting" /\ worker' = [worker EXCEPT ![s] = "notified"])
    BY Zenon, <2>1 DEF NotifyIdle, Idle, IsPending
  <2> QED
    BY Zenon, <2>1, <2>2 DEF Types, WorkerStates
<1> HIDE DEF res, rest, deps
<1>8. Types'
  <2>1. channel'["header"] \in Seq(Nat)
    BY Zenon, <1>6, Names DEF Types
  <2>2. channel'["body"] \in Seq(Nat)
    <3>1. channel["body"] \in Seq(Nat)
      BY Zenon, Names DEF Types
    <3>2. Append(channel["body"], t) \in Seq(Nat)
      BY Zenon, <1>1, <3>1, AppendFacts
    <3> QED
      BY Zenon, <1>6, <3>1, <3>2
  <2>3. channel'["virtual"] \in Seq(Message)
    <3>1. Process(t) \in Message /\ channel["virtual"] \in Seq(Message)
      BY Zenon, <1>1 DEF Message, Types
    <3>2. Append(channel["virtual"], Process(t)) \in Seq(Message)
      BY <3>1
    <3> QED
      BY Zenon, <1>6, <3>1, <3>2
  <2>4. worker'["pruning"] = worker["pruning"]
    BY <1>7, Names
  <2> QED
    BY Zenon, <1>0, <1>3, <1>4, <1>5, <1>6, <1>7, <2>2, <2>3, Names DEF Types

<1>9. CallOK(s, b) /\ pool[s][b] = 0 /\ ~Waiting(s, b) /\ \A x \in Blocks : pool[s][x] \in Nat
  <2>1. CallOK(s, b) /\ \A x \in Blocks : pool[s][x] \in Nat
    BY DEF Calls, Types
  <2> QED
    BY Zenon, <1>0, <2>1 DEF CallOK, res
<1>10. /\ IsPending(s, b)' <=> rest # <<>>
       /\ \A r \in Stages : \A x \in Blocks : ~(r = s /\ x = b) => (IsPending(r, x)' <=> IsPending(r, x))
  BY Zenon, <1>3 DEF IsPending
<1>11. ASSUME NEW r \in Stages, r # s, NEW x \in Blocks PROVE CallOK(r, x)'
  <2>1. CallOK(r, x)
    BY DEF Calls
  <2>2. /\ pool'[r][x] = pool[r][x] /\ step'[r][x] = step[r][x]
        /\ \A p \in Blocks : pending'[r][p] = pending[r][p]
    BY Zenon, <1>3, <1>4, <1>5, <1>11
  <2>3. IsPending(r, x)' <=> IsPending(r, x)
    BY <1>10, <1>11
  <2> QED
    BY Zenon, <2>1, <2>2, <2>3, CallFrame
<1>12. ASSUME rest # <<>>, NEW x \in Blocks PROVE CallOK(s, x)'
  <2>1. \A p \in Blocks : pending'[s][p].dependents = pending[s][p].dependents
    BY Zenon, <1>3, <1>12 DEF deps
  <2>2. CASE x # b
    <3>1. CallOK(s, x) /\ pool'[s][x] = pool[s][x] /\ step'[s][x] = step[s][x] /\ pending'[s][x] = pending[s][x]
      BY Zenon, <1>3, <1>4, <1>5, <1>12, <2>2 DEF Calls
    <3>2. IsPending(s, x)' <=> IsPending(s, x)
      BY Zenon, <1>10, <2>2
    <3> QED
      BY Zenon, <2>1, <3>1, <3>2, CallFrame
  <2>3. CASE x = b
    <3>1. pool'[s][b] = 1 /\ IsPending(s, b)'
      BY <1>5, <1>9, <1>10, <1>12
    <3>2. \A p \in Blocks : \A i : ~Waits(s, b, p, i)'
      BY Zenon, <1>9, <2>1 DEF Waiting, Waits
    <3>3. ~Waiting(s, b)' /\ WaitsOnce(s, b)'
      BY <3>2 DEF Waiting, WaitsOnce
    <3> QED
      BY Zenon, <1>3, <1>4, <2>3, <3>1, <3>3 DEF CallOK
  <2> QED
    BY <2>2, <2>3
<1>13. ASSUME rest = <<>>, NEW x \in Blocks PROVE CallOK(s, x)'
  <2>1. pending'[s][b].dependents = <<>> /\ \A p \in Blocks \ {b} : pending'[s][p].dependents = pending[s][p].dependents
    BY Zenon, <1>3, <1>13
  <2>2. ASSUME NEW p \in Blocks, NEW i PROVE Waits(s, x, p, i)' <=> p # b /\ Waits(s, x, p, i)
    BY <2>1 DEF Waits
  <2>3. CallOK(s, x)
    BY DEF Calls
  <2>4. (Waiting(s, x)' => Waiting(s, x)) /\ WaitsOnce(s, x)'
    <3>1. WaitsOnce(s, x)
      BY Zenon, <2>3 DEF CallOK
    <3> QED
      BY <2>2, <3>1 DEF Waiting, WaitsOnce
  <2>5. CASE x = b
    <3>1. ~\E i : Waits(s, b, b, i)
      BY Zenon, <1>9 DEF Waiting
    <3>2. pool'[s][b] = 0
      BY <1>5, <1>9, <1>13, <3>1
    <3> QED
      BY Zenon, <1>3, <1>4, <1>9, <1>10, <1>13, <2>4, <2>5, <3>2 DEF CallOK
  <2>6. CASE x # b /\ \E i : Waits(s, x, b, i)
    <3>1. Waiting(s, x)
      BY <2>6 DEF Waiting
    <3>2. IsPending(s, x) /\ pool[s][x] = 0 /\ step[s][x] = "none" /\ ~pending[s][x].taken /\ WaitsOnce(s, x)
      BY Zenon, <2>3, <3>1 DEF CallOK
    <3>3. ~Waiting(s, x)'
      BY Zenon, <2>2, <2>6, <3>2 DEF Waiting, WaitsOnce
    <3>4. pool'[s][x] = 1
      BY <1>5, <1>13, <2>6, <3>2
    <3>5. IsPending(s, x)' /\ step'[s][x] = "none" /\ ~pending'[s][x].taken
      BY Zenon, <1>3, <1>4, <1>10, <2>6, <3>2
    <3> QED
      BY Zenon, <2>4, <3>3, <3>4, <3>5 DEF CallOK
  <2>7. CASE x # b /\ ~\E i : Waits(s, x, b, i)
    <3>1. Waiting(s, x)' <=> Waiting(s, x)
      BY <2>2, <2>7 DEF Waiting
    <3>2. pool'[s][x] = pool[s][x]
      BY <1>5, <1>9, <2>7
    <3>3. /\ IsPending(s, x)' <=> IsPending(s, x)
          /\ step'[s][x] = step[s][x] /\ pending'[s][x] = pending[s][x]
      BY Zenon, <1>3, <1>4, <1>10, <2>7
    <3> QED
      BY Zenon, <2>3, <2>4, <3>1, <3>2, <3>3 DEF CallOK
  <2> QED
    BY <2>5, <2>6, <2>7
<1>14. Calls'
  BY Zenon, <1>11, <1>12, <1>13 DEF Calls
<1>15. TaskMove
  <2>1. /\ Members(s, b) = {t} \cup Members(s, b)'
        /\ \A r \in Stages : \A x \in Blocks : ~(r = s /\ x = b) =>
             pending'[r][x].tasks = pending[r][x].tasks /\ Members(r, x)' = Members(r, x)
    <3>1. /\ pending'[s][b].tasks = Tail(pending[s][b].tasks)
          /\ \A r \in Stages : \A x \in Blocks : ~(r = s /\ x = b) => pending'[r][x].tasks = pending[r][x].tasks
      BY Zenon, <1>3 DEF rest
    <3>2. Members(s, b) = {t} \cup Members(s, b)'
      BY Zenon, <1>1, <1>2, <3>1, MembersFacts
    <3>3. \A r \in Stages : \A x \in Blocks : ~(r = s /\ x = b) => Members(r, x)' = Members(r, x)
      BY Zenon, <3>1, MembersFacts
    <3> QED
      BY Zenon, <3>1, <3>2, <3>3
  <2>2. /\ Sent("header")' = Sent("header")
        /\ Passes(s, b) => Sent("body")' = Sent("body") \cup {t}
        /\ ~Passes(s, b) => Sent("body")' = Sent("body")
    BY Zenon, <1>1, <1>6, SentFacts, Names
  <2>3. Releases(s, b, t)
    BY Zenon, <1>0, <1>1, <1>2, <1>3, <1>4, <1>6, <2>1, <2>2 DEF Releases, res, rest
  <2> QED
    BY Zenon, <2>3 DEF TaskMove
<1>16. BatchMove
  <2>1. CASE channel'["virtual"] = channel["virtual"]
    BY <2>1, Frames
  <2>2. CASE channel'["virtual"] = Append(channel["virtual"], Process(t))
    <3>1. Process(t) \in Message
      BY <1>1 DEF Message
    <3>2. Batch' = Batch \cup {Process(t)}
      BY Zenon, <2>2, <3>1, BatchFacts
    <3> QED
      BY Zenon, <1>1, <3>2 DEF BatchMove
  <2> QED
    BY Zenon, <1>6, <2>1, <2>2
<1>17. WorkerMove
  BY Zenon, <1>7, Names DEF WorkerMove
<1>18. \A r \in Stages : \A x \in Blocks : StepMove(r, x)
  BY <1>0, <1>4 DEF StepMove, res
<1> QED
  BY Zenon, <1>0, <1>8, <1>14, <1>15, <1>16, <1>17, <1>18, Frames DEF Effect

-----------------------------------------------------------------------------
(* What keeps the invariant, one lemma per conjunct.                       *)

\* A submitted block is the next task of the log, and sent to the header stage.
LEMMA SubmitFacts ==
  ASSUME Types, NEW b \in Blocks, NEW k \in Kinds, Submit(b, k)
  PROVE  LET n == Len(log) + 1 IN
         /\ n \in Task /\ log' \in Seq(Entry) /\ Len(log') = n /\ DOMAIN log' = DOMAIN log \cup {n}
         /\ n \notin DOMAIN log
         /\ \A t \in DOMAIN log : log'[t] = log[t] /\ block(t)' = block(t) /\ kind(t)' = kind(t) /\ t < n
         /\ log'[n].block = b /\ log'[n].kind = k
         /\ channel' = [w \in Workers |-> channel'[w]]
         /\ channel'["header"] = Append(channel["header"], n)
         /\ \A w \in Workers \ {"header"} : channel'[w] = channel[w]
<1> DEFINE e == [block |-> b, kind |-> k]
           n == Len(log) + 1
<1>1. e \in Entry /\ log \in Seq(Entry) /\ log' = Append(log, e)
  BY Zenon DEF Entry, Types, Submit
<1>2. /\ log' \in Seq(Entry) /\ Len(log) \in Nat /\ DOMAIN log = 1 .. Len(log)
      /\ DOMAIN log' = 1 .. n /\ log'[n] = e /\ \A t \in 1 .. Len(log) : log'[t] = log[t]
  <2> HIDE DEF e
  <2> QED
    BY <1>1
<1>3. Len(log') = n
  BY <1>2
<1>4. n \in Task
  BY PipelineAssumption DEF Submit, Task
<1>5. log'[n].block = b /\ log'[n].kind = k
  BY <1>2
<1>6. \A t \in DOMAIN log : log'[t] = log[t] /\ block(t)' = block(t) /\ kind(t)' = kind(t) /\ t < n
  BY <1>2 DEF block, kind
<1>7. /\ channel' = [w \in Workers |-> channel'[w]]
      /\ channel'["header"] = Append(channel["header"], n)
      /\ \A w \in Workers \ {"header"} : channel'[w] = channel[w]
  BY Zenon, SendFacts, Names DEF Submit
<1>8. DOMAIN log' = DOMAIN log \cup {n} /\ n \notin DOMAIN log
  BY <1>2
<1> HIDE DEF n
<1> QED
  BY Zenon, <1>2, <1>3, <1>4, <1>5, <1>6, <1>7, <1>8 DEF n

\* A task is handed over.
LEMMA SubmitMoves ==
  ASSUME Types, NEW b \in Blocks, NEW k \in Kinds, Submit(b, k)
  PROVE  /\ Sent("header")' = Sent("header") \cup {Len(log) + 1} /\ Sent("body")' = Sent("body")
         /\ \A s \in Stages : \A x \in Blocks : Members(s, x)' = Members(s, x)
<1>1. Len(log) + 1 \in Nat
  BY LogFacts
<1>2. channel'["header"] = Append(channel["header"], Len(log) + 1) /\ channel'["body"] = channel["body"]
  BY Zenon, SubmitFacts, Names
<1>3. UNCHANGED pending
  BY DEF Submit
<1> QED
  BY Zenon, <1>1, <1>2, <1>3, SentFacts, Names DEF Members

LEMMA StatusMoves ==
  ASSUME PInv, Effect, NEW b \in Blocks
  PROVE  Moves(b)
<1>1. StatusMove(b)
  BY DEF Effect
<1>2. ASSUME NEW s \in Stages, NEW r \in Results, NEW v \in Statuses, Decides(s, b, r, v), status'[b] = v
      PROVE  Moves(b)
  BY Zenon, <1>2 DEF Moves, Decides
<1>3. CASE \/ status'[b] = status[b]
           \/ status[b] \in {"UTXOPendingVerification", "DisqualifiedFromChain"} /\ status'[b] \in Settled
  BY <1>3 DEF Moves, Settled
<1> QED
  BY Zenon, <1>1, <1>2, <1>3 DEF StatusMove

LEMMA MovesFacts ==
  ASSUME NEW b \in Blocks, Moves(b)
  PROVE  /\ status[b] # "None" => status'[b] # "None"
         /\ status[b] \in HasBody => status'[b] \in HasBody
         /\ status[b] \in Settled => status'[b] \in Settled
         /\ status[b] = "UTXOValid" => status'[b] = "UTXOValid"
         /\ status[b] \notin HasBody /\ status'[b] \in HasBody =>
              status[b] = "HeaderOnly" /\ status'[b] = "UTXOPendingVerification"
BY DEF Moves, HasBody, Settled

\* A verdict is not taken back.
LEMMA ParentsStaySettled ==
  ASSUME PInv, Effect, NEW b \in Blocks, ParentsSettled(b)
  PROVE  ParentsSettled(b)'
<1>1. \A p \in Parents[b] : p \in Blocks
  BY PipelineAssumption
<1>2. \A p \in Parents[b] : /\ status[p] \in Settled => status'[p] \in Settled
                            /\ status[p] = "UTXOValid" => status'[p] = "UTXOValid"
  BY Zenon, <1>1, StatusMoves, MovesFacts
<1> QED
  BY <1>2 DEF ParentsSettled

\* The log only grows.
LEMMA LogGrows ==
  ASSUME PInv, Effect
  PROVE  /\ DOMAIN log \subseteq DOMAIN log'
         /\ \A t \in DOMAIN log : block(t)' = block(t) /\ kind(t)' = kind(t)
<1>1. UNCHANGED log => \A t : block(t)' = block(t) /\ kind(t)' = kind(t)
  BY DEF block, kind
<1>2. ASSUME NEW b \in Blocks, NEW k \in Kinds, Submit(b, k)
      PROVE  DOMAIN log \subseteq DOMAIN log' /\ \A t \in DOMAIN log : block(t)' = block(t) /\ kind(t)' = kind(t)
  <2>1. Types
    BY DEF PInv
  <2> QED
    BY Zenon, <1>2, <2>1, SubmitFacts
<1>3. UNCHANGED log \/ \E b \in Blocks, k \in Kinds : Submit(b, k)
  <2>0. TaskMove
    BY DEF Effect
  <2>1. Quiet => UNCHANGED log
    BY DEF Quiet
  <2>2. \A s, t, c : Registers(s, t, c) => UNCHANGED log
    BY Zenon DEF Registers
  <2>3. \A s, t, c : Releases(s, c, t) => UNCHANGED log
    BY Zenon DEF Releases
  <2> QED
    BY Zenon, <2>0, <2>1, <2>2, <2>3 DEF TaskMove
<1> QED
  BY <1>1, <1>2, <1>3

LEMMA TasksKept ==
  ASSUME PInv, Effect
  PROVE  Tasks'
<1>0. Types /\ Tasks /\ TaskMove
  BY DEF PInv, Effect
<1>1. ASSUME NEW b \in Blocks, NEW k \in Kinds, Submit(b, k) PROVE Tasks'
  <2>1. /\ DOMAIN log' = DOMAIN log \cup {Len(log) + 1}
        /\ \A t \in DOMAIN log : block(t)' = block(t)
    BY Zenon, <1>0, <1>1, SubmitFacts
  <2>2. \A s \in Stages : Sent(s)' \subseteq Sent(s) \cup {Len(log) + 1}
    BY <1>0, <1>1, SubmitMoves, Names
  <2>3. \A s \in Stages : \A x \in Blocks : Members(s, x)' = Members(s, x)
    BY <1>0, <1>1, SubmitMoves
  <2>4. \A s \in Stages : Sent(s)' \subseteq {Exit} \cup DOMAIN log'
    BY <1>0, <2>1, <2>2 DEF Tasks
  <2>5. \A s \in Stages : \A x \in Blocks : \A t \in Members(s, x)' : t \in DOMAIN log' /\ block(t)' = x
    BY <1>0, <2>1, <2>3 DEF Tasks
  <2> QED
    BY <2>4, <2>5 DEF Tasks
<1>2. ASSUME UNCHANGED log, \A s \in Stages : Sent(s)' \subseteq Sent(s) \cup {Exit} \cup DOMAIN log,
             \A s \in Stages : \A x \in Blocks : \A t \in Members(s, x)' :
               t \in Members(s, x) \/ (t \in DOMAIN log /\ block(t) = x)
      PROVE  Tasks'
  <2>1. \A t : block(t)' = block(t)
    BY <1>2 DEF block
  <2> QED
    BY <1>0, <1>2, <2>1 DEF Tasks
<1>3. ASSUME Quiet PROVE Tasks'
  BY Zenon, <1>2, <1>3 DEF Quiet
<1>4. ASSUME NEW s \in Stages, NEW t \in DOMAIN log, NEW c \in Blocks, Registers(s, t, c) PROVE Tasks'
  <2>1. /\ UNCHANGED log /\ c = block(t) /\ \A r \in Stages : Sent(r)' \subseteq Sent(r)
        /\ \A r \in Stages : \A x \in Blocks : \A u \in Members(r, x)' : u \in Members(r, x) \/ (u = t /\ x = c)
    BY Zenon, <1>4 DEF Registers
  <2> QED
    BY <1>2, <2>1
<1>5. ASSUME NEW s \in Stages, NEW b \in Blocks, NEW t \in DOMAIN log, Releases(s, b, t) PROVE Tasks'
  <2>1. /\ UNCHANGED log /\ Sent("header")' = Sent("header")
        /\ Sent("body")' = Sent("body") \/ Sent("body")' = Sent("body") \cup {t}
        /\ \A r \in Stages : \A x \in Blocks : \A u \in Members(r, x)' : u \in Members(r, x)
    BY Zenon, <1>5 DEF Releases
  <2>2. \A r \in Stages : Sent(r)' \subseteq Sent(r) \cup {Exit} \cup DOMAIN log
    BY <2>1, Names
  <2> QED
    BY Zenon, <1>2, <2>1, <2>2
<1> QED
  BY Zenon, <1>0, <1>1, <1>3, <1>4, <1>5 DEF TaskMove

LEMMA StoredKept ==
  ASSUME PInv, Effect
  PROVE  Stored'
<1>0. Types /\ Tasks /\ Stored /\ TaskMove
  BY DEF PInv, Effect
<1>1. \A b \in Blocks : /\ status[b] # "None" => status'[b] # "None"
                        /\ status[b] \in HasBody => status'[b] \in HasBody
  BY Zenon, StatusMoves, MovesFacts
<1>2. ASSUME NEW s \in Stages, NEW b \in Blocks, step'[s][b] = "Ok", step[s][b] # "Ok"
      PROVE  status'[b] # "None" /\ (s = "body" => status'[b] \in HasBody)
  <2>1. StepMove(s, b)
    BY DEF Effect
  <2>2. PICK r \in Results : \E v \in Statuses : Decides(s, b, r, v) /\ step'[s][b] = r /\ status'[b] = v
    BY Zenon, <1>2, <2>1 DEF StepMove
  <2> QED
    BY Zenon, <1>2, <2>2 DEF Decides
<1>3. \A b \in Blocks : step'["header"][b] = "Ok" => status'[b] # "None"
  BY Zenon, <1>0, <1>1, <1>2, Names DEF Stored
<1>4. \A b \in Blocks : step'["body"][b] = "Ok" => status'[b] \in HasBody
  BY Zenon, <1>0, <1>1, <1>2, Names DEF Stored
<1>5. ASSUME NEW b \in Blocks, BodyWaits(b)' PROVE status'[b] = "HeaderOnly"
  <2>1. step'["body"][b] \in {"asking", "answered", "refused"}
    BY <1>5 DEF BodyWaits
  <2>2. StepMove("body", b) /\ StatusMove(b)
    BY Names DEF Effect
  <2>3. BodyWaits(b) \/ Asks(b)
    BY Zenon, <2>1, <2>2 DEF StepMove, BodyWaits, Results
  <2>4. CASE Asks(b)
    BY <2>4 DEF Asks
  <2>5. CASE BodyWaits(b)
    <3>1. status[b] = "HeaderOnly"
      BY Zenon, <1>0, <2>5 DEF Stored
    <3>2. ASSUME NEW s \in Stages, NEW r \in Results, NEW v \in Statuses,
                 Decides(s, b, r, v), step'[s][b] = r, status'[b] = v, v # status[b]
          PROVE  FALSE
      <4>1. s = "body"
        BY Zenon, <3>1, <3>2 DEF Decides
      <4> QED
        BY <2>1, <3>2, <4>1 DEF Results
    <3> QED
      BY Zenon, <2>2, <3>1, <3>2 DEF StatusMove
  <2> QED
    BY <2>3, <2>4, <2>5

<1>6. /\ \A b \in Blocks : Members("body", b)' # {} => status[b] # "None"
      /\ \A t \in Sent("body")' : t # Exit => t \in DOMAIN log /\ status[block(t)] # "None"
  <2>1. \A t \in Sent("body") : t # Exit => t \in DOMAIN log /\ status[block(t)] # "None"
    BY Zenon, <1>0, Names DEF Tasks, Stored
  <2>2. \A b \in Blocks : Members("body", b) # {} => status[b] # "None"
    BY Zenon, <1>0 DEF Stored
  <2>3. CASE Quiet
    <3>1. /\ \A t \in Sent("body")' : t = Exit \/ t \in Sent("body")
          /\ \A b \in Blocks : Members("body", b)' = Members("body", b)
      BY <2>3, Names DEF Quiet
    <3> QED
      BY Zenon, <2>1, <2>2, <3>1
  <2>4. CASE \E b \in Blocks, k \in Kinds : Submit(b, k)
    <3>1. Sent("body")' = Sent("body") /\ \A x \in Blocks : Members("body", x)' = Members("body", x)
      BY <1>0, <2>4, SubmitMoves, Names
    <3> QED
      BY <2>1, <2>2, <3>1
  <2>5. ASSUME NEW s \in Stages, NEW t \in DOMAIN log, NEW c \in Blocks, Registers(s, t, c)
        PROVE  /\ \A b \in Blocks : Members("body", b)' # {} => status[b] # "None"
               /\ \A u \in Sent("body")' : u # Exit => u \in DOMAIN log /\ status[block(u)] # "None"
    <3>1. /\ t # Exit /\ c = block(t) /\ (s = "body" => t \in Sent("body")) /\ Sent("body")' \subseteq Sent("body")
          /\ \A b \in Blocks : Members("body", b)' = Members("body", b) \/ (s = "body" /\ b = c)
      BY Zenon, <2>5, Names DEF Registers
    <3> QED
      BY <2>1, <2>2, <3>1
  <2>6. ASSUME NEW s \in Stages, NEW c \in Blocks, NEW t \in DOMAIN log, Releases(s, c, t)
        PROVE  /\ \A b \in Blocks : Members("body", b)' # {} => status[b] # "None"
               /\ \A u \in Sent("body")' : u # Exit => u \in DOMAIN log /\ status[block(u)] # "None"
    <3>1. \A b \in Blocks : Members("body", b)' \subseteq Members("body", b)
      BY Zenon, <2>6, Names DEF Releases
    <3>2. Passes(s, c) => status[c] # "None" /\ c = block(t)
      BY Zenon, <1>0, <2>6 DEF Passes, Stored, Releases
    <3>3. \A u \in Sent("body")' : u \in Sent("body") \/ (Passes(s, c) /\ u = t)
      BY Zenon, <2>6 DEF Releases
    <3> QED
      BY <2>1, <2>2, <3>1, <3>2, <3>3
  <2> QED
    BY Zenon, <2>3, <2>4, <2>5, <2>6, <1>0 DEF TaskMove
<1>7. \A t \in DOMAIN log : block(t) \in Blocks /\ block(t)' = block(t)
  BY <1>0, LogFacts, LogGrows
<1>8. \A b \in Blocks : Members("body", b)' # {} => status'[b] # "None"
  BY <1>1, <1>6
<1>9. \A t \in Sent("body")' : t # Exit => status'[block(t)'] # "None"
  BY <1>1, <1>6, <1>7
<1> QED
  BY Zenon, <1>3, <1>4, <1>5, <1>8, <1>9 DEF Stored

LEMMA DrainingKept ==
  ASSUME PInv, Effect
  PROVE  Draining'
<1>0. Types /\ Types' /\ Draining /\ WorkerMove /\ BatchMove /\ TaskMove
  BY DEF PInv, Effect
\* An idle stage whose worker has stopped receiving stays idle.
<1>1. ASSUME NEW s \in Stages, Idle(s), worker[s] # "recv" PROVE Idle(s)'
  <2>1. \A q \in Seq(Nat) : q = <<>> <=> Elems(q) = {}
    BY ElemsFacts
  <2>2. \A x \in Blocks : pending[s][x].tasks \in Seq(Nat) /\ pending'[s][x].tasks \in Seq(Nat)
    <3>1. \A x \in Blocks : pending[s][x] \in Group /\ pending'[s][x] \in Group
      BY <1>0 DEF Types
    <3> QED
      BY Zenon, <3>1 DEF Group
  <2>3. \A x \in Blocks : (IsPending(s, x) <=> Members(s, x) # {}) /\ (IsPending(s, x)' <=> Members(s, x)' # {})
    BY Zenon, <2>1, <2>2 DEF IsPending, Members, Elems
  <2>4. \A x \in Blocks : Members(s, x) = {}
    BY <1>1, <2>3 DEF Idle
  <2>5. ASSUME Quiet PROVE \A x \in Blocks : Members(s, x)' = {}
    BY Zenon, <2>4, <2>5 DEF Quiet
  <2>6. ASSUME NEW b \in Blocks, NEW k \in Kinds, Submit(b, k) PROVE \A x \in Blocks : Members(s, x)' = {}
    BY Zenon, <1>0, <2>4, <2>6, SubmitMoves
  <2>7. ASSUME NEW r \in Stages, worker[r] = "recv", NEW t \in DOMAIN log, NEW c \in Blocks, Registers(r, t, c)
        PROVE  \A x \in Blocks : Members(s, x)' = {}
    BY Zenon, <1>1, <2>4, <2>7 DEF Registers
  <2>8. ASSUME NEW r \in Stages, NEW b \in Blocks, NEW t \in DOMAIN log, Releases(r, b, t)
        PROVE  \A x \in Blocks : Members(s, x)' = {}
    BY Zenon, <2>4, <2>8 DEF Releases
  <2>9. \A x \in Blocks : Members(s, x)' = {}
    BY Zenon, <2>5, <2>6, <2>7, <2>8, <1>0 DEF TaskMove
  <2> QED
    BY <2>3, <2>9 DEF Idle
<1>2. ASSUME NEW s \in Stages, worker'[s] \in {"notified", "exited"} PROVE Idle(s)'
  <2>1. CASE worker'[s] = worker[s]
    BY <1>0, <1>1, <1>2, <2>1 DEF Draining
  <2>2. CASE WorkerExits(s)
    <3>1. Idle(s) /\ worker[s] # "recv"
      BY Zenon, <1>0, <2>2 DEF WorkerExits, Draining
    <3> QED
      BY <1>1, <3>1
  <2> QED
    BY Zenon, <1>0, <1>2, <2>1, <2>2 DEF WorkerMove
<1>3. worker["body"] = "exited" => worker'["body"] = "exited"
  BY Zenon, <1>0, Names DEF WorkerMove
<1>4. ASSUME VirtualExit \in Batch' \/ worker'["virtual"] = "exited" PROVE worker'["body"] = "exited"
  <2>1. CASE VirtualExit \in Batch \/ worker["virtual"] = "exited"
    BY <1>0, <1>3, <2>1 DEF Draining
  <2>2. CASE VirtualExit \in Batch' /\ VirtualExit \notin Batch
    BY <1>0, <2>2 DEF BatchMove, VirtualExit, Process, EnsurePalwParents
  <2> QED
    BY Zenon, <1>0, <1>4, <2>1, <2>2 DEF WorkerMove
<1> QED
  BY <1>2, <1>4 DEF Draining

LEMMA SettlingKept ==
  ASSUME PInv, Effect
  PROVE  Settling'
<1>0. Types /\ Calls /\ Tasks /\ Settling /\ BatchMove /\ \A b \in Blocks : StatusMove(b) /\ StepMove("body", b)
  BY Names DEF PInv, Effect
<1>1. ASSUME NEW b \in Blocks, EnsurePalwParents(b) \in Batch' PROVE step'["body"][b] = "asking"
  <2>1. CASE EnsurePalwParents(b) \in Batch
    <3>1. step["body"][b] = "asking"
      BY <1>0, <2>1 DEF Settling
    <3>2. \A r \in Results, v \in Statuses : ~Decides("body", b, r, v)
      BY <3>1 DEF Decides
    <3>3. StepMove("body", b) /\ Batch' # {}
      BY <1>0, <1>1
    <3> QED
      BY Zenon, <3>1, <3>2, <3>3 DEF StepMove, Results
  <2>2. CASE EnsurePalwParents(b) \notin Batch
    BY <1>0, <1>1, <2>2 DEF BatchMove, VirtualExit, Process, EnsurePalwParents
  <2> QED
    BY <2>1, <2>2
<1>2. ASSUME NEW b \in Blocks, step'["body"][b] = "answered" PROVE ParentsSettled(b)'
  <2>1. CASE step["body"][b] = "answered"
    <3>1. ParentsSettled(b)
      BY <1>0, <2>1 DEF Settling
    <3> QED
      BY <3>1, ParentsStaySettled
  <2>2. StepMove("body", b)
    BY <1>0
  <2> QED
    BY Zenon, <1>2, <2>1, <2>2 DEF StepMove, Results
<1>3. /\ DOMAIN log \subseteq DOMAIN log'
      /\ \A t \in DOMAIN log : block(t)' = block(t) /\ kind(t)' = kind(t)
  BY LogGrows
<1>4. ASSUME NEW b \in Blocks, HeaderV4, Parents[b] # {}, status'[b] \in HasBody,
             \A t \in DOMAIN log' : block(t)' = b => kind(t)' # "trusted"
      PROVE  ParentsSettled(b)'
  <2>1. \A t \in DOMAIN log : block(t) = b => kind(t) # "trusted"
    BY <1>3, <1>4
  <2>2. CASE status[b] \in HasBody
    <3>1. ParentsSettled(b)
      BY Zenon, <1>0, <1>4, <2>1, <2>2 DEF Settling, ParentsSettledFirst, ParentsSettled
    <3> QED
      BY <3>1, ParentsStaySettled
  <2>3. CASE status[b] \notin HasBody
    <3>1. status[b] = "HeaderOnly" /\ status'[b] = "UTXOPendingVerification"
      BY Zenon, <1>4, <2>3, StatusMoves, MovesFacts
    <3>2. PICK s \in Stages : \E r \in Results : Decides(s, b, r, "UTXOPendingVerification")
      BY <1>0, <3>1 DEF StatusMove
    <3>3. PICK r \in Results : Decides(s, b, r, "UTXOPendingVerification")
      BY <3>2
    <3>4. /\ s = "body" /\ step[s][b] # "none"
          /\ kind(Front(s, b)) = "trusted" \/ step[s][b] = "answered"
      BY Zenon, <1>4, <3>1, <3>3 DEF Decides
    <3>5. kind(Front(s, b)) # "trusted"
      BY Zenon, <1>0, <2>1, <3>4, FrontFacts
    <3>6. ParentsSettled(b)
      BY Zenon, <1>0, <3>4, <3>5 DEF Settling
    <3> QED
      BY <3>6, ParentsStaySettled
  <2> QED
    BY <2>2, <2>3
<1>5. ParentsSettledFirst'
  BY Zenon, <1>4 DEF ParentsSettledFirst, ParentsSettled
<1> QED
  BY Zenon, <1>1, <1>2, <1>5 DEF Settling

LEMMA EffectInv ==
  ASSUME PInv, Effect
  PROVE  PInv'
<1>1. Types' /\ Calls'
  BY DEF Effect
<1> QED
  BY <1>1, TasksKept, StoredKept, DrainingKept, SettlingKept DEF PInv

\* What holds initially.
LEMMA InitInv ==
  ASSUME Init
  PROVE  PInv
<1>1. Types
  <2>1. NoGroup \in Group
    BY DEF NoGroup, Group
  <2>2. log \in Seq(Entry) /\ Len(log) = 0 /\ MaxSubmissions \in Nat /\ MaxWrites \in Nat
    BY PipelineAssumption DEF Init
  <2>3. /\ channel = [w \in Workers |-> channel[w]]
        /\ \A s \in Stages : channel[s] \in Seq(Nat)
        /\ channel["virtual"] \in Seq(Message)
    BY Names DEF Init
  <2>4. worker \in [Workers -> WorkerStates] /\ writes = 0 /\ worker["pruning"] = "recv"
    BY Names DEF Init, WorkerStates
  <2>5. pending \in [Stages -> [Blocks -> Group]] /\ pool \in [Stages -> [Blocks -> Nat]]
    BY <2>1 DEF Init
  <2>6. step \in [Stages -> [Blocks -> Steps]] /\ status \in [Blocks -> Statuses]
    BY DEF Init, Steps, Statuses
  <2>7. blockRes \in [Task -> Results \cup {"open"}] /\ virtualRes \in [Task -> Results \cup {"open"}]
    BY DEF Init
  <2> QED
    BY <2>2, <2>3, <2>4, <2>5, <2>6, <2>7 DEF Types
<1>2. Calls
  <2>1. \A s \in Stages : \A b \in Blocks : pending[s][b] = NoGroup /\ pool[s][b] = 0 /\ step[s][b] = "none"
    BY DEF Init
  <2>2. NoGroup.tasks = <<>> /\ NoGroup.taken = FALSE /\ NoGroup.dependents = <<>> /\ DOMAIN <<>> = {}
    BY DEF NoGroup
  <2>3. \A s \in Stages : \A b, p \in Blocks : \A i : ~Waits(s, b, p, i)
    BY Zenon, <2>1, <2>2 DEF Waits
  <2> QED
    BY <2>1, <2>2, <2>3 DEF Calls, CallOK, Waiting, WaitsOnce, IsPending
<1>3. Tasks
  BY Names DEF Init, Tasks, Sent, Members, Elems, NoGroup
<1>4. Stored
  BY Names DEF Init, Stored, Members, NoGroup, Sent, Elems, BodyWaits
<1>5. Draining
  BY Names DEF Init, Draining, Batch
<1>6. Settling
  BY Names DEF Init, Settling, Batch, ParentsSettledFirst, HasBody
<1> QED
  BY <1>1, <1>2, <1>3, <1>4, <1>5, <1>6 DEF PInv

LEMMA StutterInv ==
  ASSUME PInv, UNCHANGED vars
  PROVE  PInv'
<1>0. UNCHANGED <<writes, log, channel, worker, pending, pool, step, status, blockRes, virtualRes>>
  BY DEF vars
<1>1. Types'
  BY Zenon, <1>0 DEF PInv, Types
<1>2. Calls'
  BY <1>0, CallsFrame DEF PInv
<1>3. /\ \A s : Sent(s)' = Sent(s)
      /\ \A s, b : Members(s, b)' = Members(s, b)
      /\ \A t : block(t)' = block(t) /\ kind(t)' = kind(t)
      /\ Batch' = Batch
  BY <1>0 DEF Sent, Members, block, kind, Batch
<1>4. Tasks'
  BY Zenon, <1>0, <1>3 DEF PInv, Tasks
<1>5. Stored'
  BY Zenon, <1>0, <1>3 DEF PInv, Stored, BodyWaits
<1>6. Draining'
  BY Zenon, <1>0, <1>3 DEF PInv, Draining, Idle, IsPending
<1>7. Settling'
  BY Zenon, <1>0, <1>3 DEF PInv, Settling, ParentsSettled, ParentsSettledFirst
<1> QED
  BY <1>1, <1>2, <1>4, <1>5, <1>6, <1>7 DEF PInv

\* What the invariant says of the properties.
LEMMA TypeCorrect ==
  ASSUME PInv
  PROVE  PipelineTypeOK
<1>1. Types /\ Tasks
  BY DEF PInv
<1>2. /\ log \in Seq(Entry) /\ Len(log) <= MaxSubmissions /\ worker \in [Workers -> WorkerStates]
      /\ writes \in 0 .. MaxWrites /\ pool \in [Stages -> [Blocks -> Nat]]
      /\ step \in [Stages -> [Blocks -> Steps]] /\ status \in [Blocks -> Statuses]
      /\ blockRes \in [Task -> Results \cup {"open"}] /\ virtualRes \in [Task -> Results \cup {"open"}]
  BY Zenon, <1>1 DEF Types
<1>3. DOMAIN channel = Workers
  BY Zenon, <1>1 DEF Types
<1>4. ASSUME NEW s \in Stages, NEW b \in Blocks
      PROVE  /\ \A i \in DOMAIN pending[s][b].tasks : block(pending[s][b].tasks[i]) = b
             /\ pending[s][b].taken \in BOOLEAN /\ pending[s][b].dependents \in Seq(Blocks)
  <2>1. pending[s][b] \in Group
    BY <1>1 DEF Types
  <2>2. pending[s][b].taken \in BOOLEAN
    BY <2>1 DEF Group
  <2>3. pending[s][b].dependents \in Seq(Blocks)
    BY <2>1 DEF Group
  <2>4. \A i \in DOMAIN pending[s][b].tasks : pending[s][b].tasks[i] \in Members(s, b)
    BY Zenon DEF Members, Elems
  <2>5. \A i \in DOMAIN pending[s][b].tasks : block(pending[s][b].tasks[i]) = b
    BY Zenon, <1>1, <2>4 DEF Tasks
  <2> QED
    BY Zenon, <2>2, <2>3, <2>5
<1> QED
  BY Zenon, <1>2, <1>3, <1>4 DEF PipelineTypeOK, Entry, WorkerStates, Steps

LEMMA OneCall ==
  ASSUME PInv
  PROVE  OneCallPerBlock
<1> SUFFICES ASSUME NEW s \in Stages, NEW b \in Blocks
             PROVE  LET waiting == Cardinality({p \in Blocks : \E i \in DOMAIN pending[s][p].dependents :
                                                                pending[s][p].dependents[i] = b})
                        running == IF step[s][b] = "none" THEN 0 ELSE 1
                    IN /\ pool[s][b] + waiting + running = (IF IsPending(s, b) THEN 1 ELSE 0)
                       /\ pending[s][b].taken <=> step[s][b] # "none"
  BY Zenon DEF OneCallPerBlock
<1> DEFINE W == {p \in Blocks : \E i \in DOMAIN pending[s][p].dependents : pending[s][p].dependents[i] = b}
<1>1. CallOK(s, b)
  BY DEF PInv, Calls
<1>2. W # {} <=> Waiting(s, b)
  BY Zenon DEF Waiting, Waits
<1>3. CASE Waiting(s, b)
  <2>1. PICK p \in W : TRUE
    BY Zenon, <1>2, <1>3
  <2>2. W = {p}
    <3>1. \A q \in W : \E i : Waits(s, b, q, i)
      BY Zenon DEF Waits
    <3>2. WaitsOnce(s, b) /\ W \subseteq Blocks
      BY Zenon, <1>1 DEF CallOK
    <3>3. \A q \in W : q = p
      BY Zenon, <3>1, <3>2 DEF WaitsOnce
    <3> QED
      BY Zenon, <3>3
  <2>3. Cardinality(W) = 1
    BY Zenon, <2>2, CountFacts
  <2>4. IsPending(s, b) /\ pool[s][b] = 0 /\ step[s][b] = "none"
    BY Zenon, <1>1, <1>3 DEF CallOK
  <2>5. pending[s][b].taken <=> step[s][b] # "none"
    BY Zenon, <1>1 DEF CallOK
  <2> QED
    BY <2>3, <2>4, <2>5
<1>4. CASE ~Waiting(s, b)
  <2>1. Cardinality(W) = 0
    BY Zenon, <1>2, <1>4, CountFacts
  <2>2. pending[s][b].taken <=> step[s][b] # "none"
    BY Zenon, <1>1 DEF CallOK
  <2>3. \/ ~IsPending(s, b) /\ pool[s][b] = 0 /\ step[s][b] = "none"
        \/ IsPending(s, b) /\ pool[s][b] = 1 /\ step[s][b] = "none"
        \/ IsPending(s, b) /\ pool[s][b] = 0 /\ step[s][b] # "none"
    BY Zenon, <1>1, <1>4 DEF CallOK
  <2> QED
    BY <2>1, <2>2, <2>3
<1> QED
  BY Zenon, <1>3, <1>4

LEMMA HeaderStored ==
  ASSUME PInv
  PROVE  BodyAfterHeader
<1> SUFFICES ASSUME NEW b \in Blocks, step["body"][b] = "begun" PROVE status[b] # "None"
  BY DEF BodyAfterHeader
<1>1. Types /\ Calls /\ Tasks /\ Stored
  BY DEF PInv
<1>2. Front("body", b) = pending["body"][b].tasks[1] /\ 1 \in DOMAIN pending["body"][b].tasks
  BY Zenon, <1>1, FrontFacts, Names
<1>3. Members("body", b) # {}
  BY Zenon, <1>2 DEF Members, Elems
<1> QED
  BY Zenon, <1>1, <1>3 DEF Stored

LEMMA NoWaiter ==
  ASSUME PInv
  PROVE  NoWaiterAtShutdown
<1> SUFFICES ASSUME worker["virtual"] = "exited", NEW b \in Blocks PROVE step["body"][b] = "none"
  BY DEF NoWaiterAtShutdown
<1>1. Idle("body")
  BY Names DEF PInv, Draining
<1>2. ~IsPending("body", b) /\ CallOK("body", b)
  BY <1>1, Names DEF Idle, PInv, Calls
<1> QED
  BY Zenon, <1>2 DEF CallOK

-----------------------------------------------------------------------------
(* What the actions do, one lemma per action.                              *)

\* A call that runs was spawned.
LEMMA TakesCall ==
  ASSUME Types, NEW s \in Stages, NEW b \in Blocks, try_begin(s, b)
  PROVE  /\ pool[s][b] > 0 /\ pool' \in [Stages -> [Blocks -> Nat]] /\ pool'[s][b] = pool[s][b] - 1
         /\ \A r \in Stages : \A x \in Blocks : ~(r = s /\ x = b) => pool'[r][x] = pool[r][x]
<1>1. pool[s][b] > 0 /\ pool' = [pool EXCEPT ![s][b] = pool[s][b] - 1]
  BY Zenon DEF try_begin
<1>2. pool \in [Stages -> [Blocks -> Nat]]
  BY DEF Types
<1>3. pool[s][b] - 1 \in Nat
  BY <1>1, <1>2
<1> QED
  BY Zenon, <1>1, <1>2, <1>3

\* A call whose block has a pending parent becomes a dependent of that one parent.
LEMMA DependEffect ==
  ASSUME Types, Calls, NEW s \in Stages, NEW b \in Blocks, NEW p \in Blocks, Depends(s, b, p)
  PROVE  Effect
<1> DEFINE g == pending[s][p]
           deps == g.dependents
           h == [g EXCEPT !.dependents = Append(deps, b)]
<1>0. UNCHANGED <<writes, log, channel, worker, step, status, blockRes, virtualRes>> /\ IsPending(s, p)
  BY Zenon DEF Depends, try_begin
<1>1. g \in Group /\ deps \in Seq(Blocks) /\ Append(deps, b) \in Seq(Blocks)
  BY DEF Types, Group
<1>2. h \in Group /\ h.taken = g.taken /\ h.tasks = g.tasks /\ h.dependents = Append(deps, b)
  BY Zenon, <1>1 DEF Group
<1>3. pending' = [pending EXCEPT ![s][p] = h]
  BY Zenon DEF Depends
<1> HIDE DEF h
<1>4. /\ pending' \in [Stages -> [Blocks -> Group]] /\ pending'[s][p] = h
      /\ \A r \in Stages : \A x \in Blocks : ~(r = s /\ x = p) => pending'[r][x] = pending[r][x]
  <2>1. pending \in [Stages -> [Blocks -> Group]]
    BY DEF Types
  <2> QED
    BY Zenon, <1>2, <1>3, <2>1
<1>5. /\ pool[s][b] > 0 /\ pool' \in [Stages -> [Blocks -> Nat]] /\ pool'[s][b] = pool[s][b] - 1
      /\ \A r \in Stages : \A x \in Blocks : ~(r = s /\ x = b) => pool'[r][x] = pool[r][x]
  BY Zenon, TakesCall DEF Depends
<1>6. Types'
  BY Zenon, <1>0, <1>4, <1>5 DEF Types
<1>7. /\ \A r \in Stages : \A x \in Blocks : /\ pending'[r][x].tasks = pending[r][x].tasks
                                            /\ pending'[r][x].taken = pending[r][x].taken
      /\ \A r \in Stages : \A x \in Blocks : ~(r = s /\ x = p) => pending'[r][x].dependents = pending[r][x].dependents
      /\ pending'[s][p].dependents = Append(deps, b)
  BY Zenon, <1>2, <1>4
<1> HIDE DEF deps
<1>8. PICK n \in Nat : /\ n = Len(deps) + 1 /\ n \notin DOMAIN deps
                       /\ DOMAIN Append(deps, b) = DOMAIN deps \cup {n}
                       /\ \A i \in DOMAIN deps : Append(deps, b)[i] = deps[i]
                       /\ Append(deps, b)[n] = b
  <2>1. /\ Len(deps) \in Nat /\ DOMAIN deps = 1 .. Len(deps)
        /\ DOMAIN Append(deps, b) = 1 .. Len(deps) + 1
        /\ \A i \in 1 .. Len(deps) : Append(deps, b)[i] = deps[i]
        /\ Append(deps, b)[Len(deps) + 1] = b
    OBVIOUS
  <2>2. 1 .. Len(deps) + 1 = (1 .. Len(deps)) \cup {Len(deps) + 1} /\ Len(deps) + 1 \notin 1 .. Len(deps)
    BY <2>1
  <2> QED
    OBVIOUS
<1>9. ASSUME NEW x \in Blocks, NEW q \in Blocks, NEW i
      PROVE  Waits(s, x, q, i)' <=> Waits(s, x, q, i) \/ (x = b /\ q = p /\ i = n)
  <2>1. CASE q # p
    BY Zenon, <1>7, <2>1 DEF Waits
  <2>2. CASE q = p
    BY Zenon, <1>7, <1>8, <2>2 DEF Waits, deps
  <2> QED
    BY <2>1, <2>2
<1>10. CallOK(s, b) /\ pool[s][b] \in Nat
  BY Zenon DEF Calls, Types
<1>11. IsPending(s, b) /\ pool[s][b] = 1 /\ step[s][b] = "none" /\ ~Waiting(s, b)
  BY <1>5, <1>10 DEF CallOK
<1>12. ASSUME NEW r \in Stages, NEW x \in Blocks PROVE CallOK(r, x)'
  <2>1. CallOK(r, x) /\ (IsPending(r, x)' <=> IsPending(r, x)) /\ step' = step
    BY Zenon, <1>0, <1>7 DEF Calls, IsPending
  <2>2. CASE r # s
    <3>1. pool'[r][x] = pool[r][x] /\ \A q \in Blocks : pending'[r][q].dependents = pending[r][q].dependents
      BY Zenon, <1>5, <1>7, <2>2
    <3> QED
      BY Zenon, <1>7, <2>1, <3>1, CallFrame
  <2>3. CASE r = s /\ x # b
    <3>1. \A q \in Blocks : \A i : Waits(s, x, q, i)' <=> Waits(s, x, q, i)
      BY Zenon, <1>9, <2>3
    <3>2. (Waiting(s, x)' <=> Waiting(s, x)) /\ (WaitsOnce(s, x)' <=> WaitsOnce(s, x))
      BY <3>1 DEF Waiting, WaitsOnce
    <3>3. pool'[s][x] = pool[s][x] /\ pending'[s][x].taken = pending[s][x].taken
      BY Zenon, <1>5, <1>7, <2>3
    <3>4. ~IsPending(s, x) => pending'[s][x].dependents = pending[s][x].dependents
      BY Zenon, <1>0, <1>7
    <3> QED
      BY Zenon, <2>1, <2>3, <3>2, <3>3, <3>4 DEF CallOK
  <2>4. CASE r = s /\ x = b
    <3>1. \A q \in Blocks : \A i : Waits(s, b, q, i)' <=> q = p /\ i = n
      BY <1>9, <1>11 DEF Waiting
    <3>2. Waiting(s, b)' /\ WaitsOnce(s, b)'
      BY <3>1 DEF Waiting, WaitsOnce
    <3>3. pool'[s][b] = 0 /\ pending'[s][b].taken = pending[s][b].taken
      BY <1>5, <1>7, <1>11
    <3> QED
      BY Zenon, <1>11, <2>1, <2>4, <3>2, <3>3 DEF CallOK
  <2> QED
    BY <2>2, <2>3, <2>4
<1>13. TaskMove
  BY Zenon, <1>0, <1>7, QuietFrame
<1> QED
  BY Zenon, <1>0, <1>6, <1>12, <1>13, Frames DEF Effect, Calls

\* A call that begins was spawned, for a pending block whose task is not taken, and
\* takes its front task.
LEMMA BeginEffect ==
  ASSUME Types, Calls, NEW s \in Stages, NEW b \in Blocks, Begins(s, b)
  PROVE  Effect
<1> DEFINE g == pending[s][b]
           h == [g EXCEPT !.taken = TRUE]
<1>0. UNCHANGED <<writes, log, channel, worker, status, blockRes, virtualRes>>
  BY Zenon DEF Begins, try_begin
<1>1. g \in Group
  BY DEF Types
<1>2. h \in Group /\ h.taken = TRUE /\ h.tasks = g.tasks /\ h.dependents = g.dependents
  BY Zenon, <1>1 DEF Group
<1>3. pending' = [pending EXCEPT ![s][b] = h]
  BY Zenon DEF Begins
<1> HIDE DEF h
<1>4. /\ pending' \in [Stages -> [Blocks -> Group]] /\ pending'[s][b] = h
      /\ \A r \in Stages : \A x \in Blocks : ~(r = s /\ x = b) => pending'[r][x] = pending[r][x]
  <2>1. pending \in [Stages -> [Blocks -> Group]]
    BY DEF Types
  <2> QED
    BY Zenon, <1>2, <1>3, <2>1
<1>5. /\ pool[s][b] > 0 /\ pool' \in [Stages -> [Blocks -> Nat]] /\ pool'[s][b] = pool[s][b] - 1
      /\ \A r \in Stages : \A x \in Blocks : ~(r = s /\ x = b) => pool'[r][x] = pool[r][x]
  BY Zenon, TakesCall DEF Begins
<1>6. /\ step' \in [Stages -> [Blocks -> Steps]] /\ step'[s][b] = "begun"
      /\ \A r \in Stages : \A x \in Blocks : ~(r = s /\ x = b) => step'[r][x] = step[r][x]
  BY Zenon DEF Begins, Types, Steps
<1>7. Types'
  BY Zenon, <1>0, <1>4, <1>5, <1>6 DEF Types
<1>8. \A r \in Stages : \A x \in Blocks : /\ pending'[r][x].tasks = pending[r][x].tasks
                                         /\ pending'[r][x].dependents = pending[r][x].dependents
  BY <1>2, <1>4
<1>9. CallOK(s, b) /\ pool[s][b] \in Nat
  BY Zenon DEF Calls, Types
<1>10. IsPending(s, b) /\ pool[s][b] = 1 /\ step[s][b] = "none" /\ ~Waiting(s, b)
  BY <1>5, <1>9 DEF CallOK
<1>11. ASSUME NEW r \in Stages, NEW x \in Blocks PROVE CallOK(r, x)'
  <2>1. CallOK(r, x) /\ (IsPending(r, x)' <=> IsPending(r, x))
    BY Zenon, <1>8 DEF Calls, IsPending
  <2>2. CASE ~(r = s /\ x = b)
    <3>1. pool'[r][x] = pool[r][x] /\ pending'[r][x].taken = pending[r][x].taken /\ step'[r][x] = step[r][x]
      BY Zenon, <1>4, <1>5, <1>6, <2>2
    <3> QED
      BY Zenon, <1>8, <2>1, <3>1, CallFrame
  <2>3. CASE r = s /\ x = b
    <3>1. pool'[s][b] = 0 /\ pending'[s][b].taken = TRUE /\ step'[s][b] # "none"
      BY <1>2, <1>4, <1>5, <1>6, <1>10
    <3>2. \A p \in Blocks : \A i : ~Waits(s, b, p, i)'
      BY <1>8, <1>10 DEF Waiting, Waits
    <3>3. ~Waiting(s, b)' /\ WaitsOnce(s, b)'
      BY <3>2 DEF Waiting, WaitsOnce
    <3> QED
      BY Zenon, <1>10, <2>1, <2>3, <3>1, <3>3 DEF CallOK
  <2> QED
    BY <2>2, <2>3
<1>12. TaskMove
  BY Zenon, <1>0, <1>8, QuietFrame
<1>13. \A r \in Stages : \A x \in Blocks : StepMove(r, x)
  BY <1>6, <1>10 DEF StepMove
<1> QED
  BY Zenon, <1>0, <1>7, <1>11, <1>12, <1>13, Frames DEF Effect, Calls

\* A worker takes the head of its channel: the exit message starts the draining, a task
\* joins the group of its block and brings a call with it if its block has none.
LEMMA ReceiveEffect ==
  ASSUME Types, Calls, Tasks, NEW s \in Stages, Receive(s)
  PROVE  Effect
<1>1. UNCHANGED <<writes, log, step, status, blockRes, virtualRes>> /\ worker[s] = "recv"
  BY DEF Receive
<1>2. /\ channel' = [w \in Workers |-> channel'[w]]
      /\ channel'[s] = Tail(channel[s]) /\ channel'[s] \in Seq(Nat)
      /\ \A w \in Workers \ {s} : channel'[w] = channel[w]
      /\ channel[s] \in Seq(Nat) /\ channel[s] # <<>>
      /\ Head(channel[s]) # Exit => Head(channel[s]) \in DOMAIN log

  <2>1. channel[s] \in Seq(Nat) /\ channel[s] # <<>>
    BY Zenon DEF Types, Receive
  <2>2. Head(channel[s]) = channel[s][1] /\ 1 \in DOMAIN channel[s] /\ Tail(channel[s]) \in Seq(Nat)
    BY <2>1, TailFacts
  <2>3. channel' = [channel EXCEPT ![s] = Tail(channel[s])] /\ channel = [w \in Workers |-> channel[w]]
    BY Zenon DEF Types, Receive
  <2>4. Head(channel[s]) # Exit => Head(channel[s]) \in DOMAIN log
    <3>1. Head(channel[s]) \in Sent(s)
      BY <2>2 DEF Sent, Elems
    <3> QED
      BY <3>1 DEF Tasks
  <2> QED
    BY Zenon, <2>1, <2>2, <2>3, <2>4, Names
<1>3. /\ Sent(s) = {Head(channel[s])} \cup Sent(s)'
      /\ \A r \in Stages \ {s} : channel'[r] = channel[r] /\ Sent(r)' = Sent(r)
  BY Zenon, <1>2, SentFacts, Names
<1>4. BatchMove
  BY Zenon, <1>2, Frames, Names
<1>5. CASE Head(channel[s]) = Exit
  <2>1. UNCHANGED <<pending, pool>> /\ worker' = [worker EXCEPT ![s] = "draining"] /\ s \in Workers
    BY Zenon, <1>5, Names DEF Receive
  <2>2. /\ worker' \in [Workers -> WorkerStates] /\ worker'[s] = "draining"
        /\ \A w \in Workers \ {s} : worker'[w] = worker[w]
    BY Zenon, <2>1 DEF Types, WorkerStates
  <2>3. Types'
    <3>1. /\ \A r \in Stages : channel'[r] \in Seq(Nat)
          /\ channel'["virtual"] \in Seq(Message) /\ worker'["pruning"] = worker["pruning"]
      BY Zenon, <1>2, <2>2, Names DEF Types
    <3> QED
      BY Zenon, <1>1, <1>2, <2>1, <2>2, <3>1 DEF Types
  <2>4. Calls'
    BY <1>1, <2>1, CallsFrame
  <2>5. Quiet
    BY Zenon, <1>1, <1>2, <1>3, <1>5, <2>1 DEF Quiet, Members
  <2>6. WorkerMove
    BY Zenon, <1>1, <2>2, Names DEF WorkerMove
  <2> QED
    BY Zenon, <1>1, <1>4, <2>3, <2>4, <2>5, <2>6, Frames DEF Effect, TaskMove
<1>6. CASE Head(channel[s]) # Exit
  <2>1. PICK t \in DOMAIN log : t = Head(channel[s])
    BY <1>2, <1>6
  <2>2. PICK c \in Blocks : c = block(t)
    BY LogFacts
  <2>3. register(s, t) /\ UNCHANGED worker /\ t \in Nat
    BY Zenon, <1>6, <2>1, LogFacts DEF Receive
  <2> DEFINE g == pending[s][c]
             h == [g EXCEPT !.tasks = Append(g.tasks, t)]
  <2>4. g \in Group /\ g.tasks \in Seq(Nat) /\ Append(g.tasks, t) \in Seq(Nat) /\ Append(g.tasks, t) # <<>>
    <3>1. g \in Group /\ g.tasks \in Seq(Nat)
      BY DEF Types, Group
    <3> HIDE DEF g
    <3> QED
      BY <2>3, <3>1
  <2>5. h \in Group /\ h.tasks = Append(g.tasks, t) /\ h.taken = g.taken /\ h.dependents = g.dependents
    BY Zenon, <2>4 DEF Group
  <2>6. pending' = [pending EXCEPT ![s][c] = h]
    BY Zenon, <2>2, <2>3 DEF register
  <2> HIDE DEF h
  <2>7. /\ pending' \in [Stages -> [Blocks -> Group]] /\ pending'[s][c] = h
        /\ \A r \in Stages : \A x \in Blocks : ~(r = s /\ x = c) => pending'[r][x] = pending[r][x]
    <3>1. pending \in [Stages -> [Blocks -> Group]]
      BY DEF Types
    <3> QED
      BY Zenon, <2>5, <2>6, <3>1
  <2>8. pool' = IF IsPending(s, c) THEN pool ELSE [pool EXCEPT ![s][c] = pool[s][c] + 1]
    BY Zenon, <2>2, <2>3 DEF register
  <2>9. /\ pool' \in [Stages -> [Blocks -> Nat]]
        /\ pool'[s][c] = IF IsPending(s, c) THEN pool[s][c] ELSE pool[s][c] + 1
        /\ \A r \in Stages : \A x \in Blocks : ~(r = s /\ x = c) => pool'[r][x] = pool[r][x]
    <3>1. pool \in [Stages -> [Blocks -> Nat]] /\ pool[s][c] + 1 \in Nat
      BY DEF Types
    <3>2. CASE IsPending(s, c)
      BY Zenon, <2>8, <3>1
    <3>3. CASE ~IsPending(s, c)
      <4>1. pool' = [pool EXCEPT ![s][c] = pool[s][c] + 1]
        BY <2>8, <3>3
      <4> QED
        BY Zenon, <3>1, <3>3, <4>1
    <3> QED
      BY Zenon, <3>2, <3>3
  <2>10. Types'
    <3>1. /\ \A r \in Stages : channel'[r] \in Seq(Nat)
          /\ channel'["virtual"] \in Seq(Message)
      BY Zenon, <1>2, Names DEF Types
    <3> QED
      BY Zenon, <1>1, <1>2, <2>3, <2>7, <2>9, <3>1 DEF Types
  <2>11. \A r \in Stages : \A x \in Blocks :
           pending'[r][x].taken = pending[r][x].taken /\ pending'[r][x].dependents = pending[r][x].dependents
    BY Zenon, <2>5, <2>7
  <2>12. Calls'
    <3> SUFFICES ASSUME NEW r \in Stages, NEW b \in Blocks PROVE CallOK(r, b)'
      BY DEF Calls
    <3>1. CallOK(r, b)
      BY DEF Calls
    <3>2. step' = step
      BY <1>1
    <3>3. CASE ~(r = s /\ b = c)
      <4>1. pool'[r][b] = pool[r][b] /\ (IsPending(r, b)' <=> IsPending(r, b))
        BY Zenon, <2>7, <2>9, <3>3 DEF IsPending
      <4> QED
        BY Zenon, <2>11, <3>1, <3>2, <4>1, CallFrame
    <3>4. IsPending(s, c)'
      BY Zenon, <2>4, <2>5, <2>7 DEF IsPending
    <3>5. CASE r = s /\ b = c /\ IsPending(s, c)
      <4>1. pool'[r][b] = pool[r][b] /\ IsPending(r, b)' /\ IsPending(r, b)
        BY Zenon, <2>9, <3>4, <3>5
      <4> QED
        BY Zenon, <2>11, <3>1, <3>2, <4>1, CallFrame
    <3>6. CASE r = s /\ b = c /\ ~IsPending(s, c)
      <4>1. pool'[s][c] = 1 /\ step'[s][c] = "none" /\ ~Waiting(s, c) /\ ~pending[s][c].taken
        BY <2>9, <3>1, <3>2, <3>6 DEF CallOK
      <4>2. \A p \in Blocks : \A i : ~Waits(s, c, p, i)'
        BY <2>11, <4>1 DEF Waiting, Waits
      <4>3. ~Waiting(s, c)' /\ WaitsOnce(s, c)'
        BY <4>2 DEF Waiting, WaitsOnce
      <4> QED
        BY Zenon, <2>11, <3>4, <3>6, <4>1, <4>3 DEF CallOK
    <3> QED
      BY <3>3, <3>5, <3>6
  <2>13. /\ pending'[s][c].tasks = Append(pending[s][c].tasks, t)
         /\ \A r \in Stages : \A x \in Blocks : ~(r = s /\ x = c) => pending'[r][x].tasks = pending[r][x].tasks
    BY Zenon, <2>5, <2>7
  <2>14. /\ Members(s, c)' = Members(s, c) \cup {t}
         /\ \A r \in Stages : \A x \in Blocks : ~(r = s /\ x = c) => Members(r, x)' = Members(r, x)
    BY Zenon, <2>3, <2>13, MembersFacts
  <2>15. Registers(s, t, c)
    BY Zenon, <1>1, <1>2, <1>3, <1>6, <2>1, <2>2, <2>13, <2>14 DEF Registers
  <2>16. TaskMove
    BY Zenon, <1>1, <2>15 DEF TaskMove
  <2> QED
    BY Zenon, <1>1, <1>4, <2>3, <2>10, <2>12, <2>16, Frames DEF Effect
<1> QED
  BY <1>5, <1>6

\* A batch of the virtual worker answers or refuses those who ask, and no others; with the
\* exit message in it, it refuses them all.
LEMMA VirtualEffect ==
  ASSUME Types, Calls, Settling, VirtualWorker \/ VirtualWorkerExits
  PROVE  Effect
<1>1. UNCHANGED <<writes, log, pending, pool, blockRes>>
  BY Zenon DEF VirtualWorker, VirtualWorkerExits
<1>2. /\ channel' = [w \in Workers |-> channel'[w]] /\ channel'["virtual"] = <<>>
      /\ \A s \in Stages : channel'[s] = channel[s]
  BY Zenon, Names DEF VirtualWorker, VirtualWorkerExits, Types
<1>3. <<>> \in Seq(Message) /\ Batch' = {}
  BY <1>2 DEF Batch
<1>4. Asking \subseteq Blocks /\ \A b \in Asking : step["body"][b] = "asking"
  BY DEF Asking, Settling
<1>5. /\ step' \in [Stages -> [Blocks -> Steps]] /\ step'["header"] = step["header"]
      /\ \A b \in Asking : step'["body"][b] = "refused" \/ (step'["body"][b] = "answered" /\ ParentsSettled(b)')
      /\ \A b \in Blocks \ Asking : step'["body"][b] = step["body"][b]
  <2>1. CASE VirtualWorker
    <3>1. PICK refused \in SUBSET Asking :
            /\ \A b \in Asking \ refused : ensure_palw_parent_provenance(b)
            /\ step' = [step EXCEPT !["body"] = [b \in Blocks |->
                          IF b \in refused THEN "refused" ELSE IF b \in Asking THEN "answered" ELSE step["body"][b]]]
      BY Zenon, <2>1 DEF VirtualWorker
    <3> DEFINE st == [b \in Blocks |->
                        IF b \in refused THEN "refused" ELSE IF b \in Asking THEN "answered" ELSE step["body"][b]]
    <3>2. st \in [Blocks -> Steps]
      BY Names DEF Types, Steps
    <3>3. step' = [step EXCEPT !["body"] = st]
      BY <3>1
    <3>4. /\ \A b \in refused : st[b] = "refused"
          /\ \A b \in Asking \ refused : st[b] = "answered"
          /\ \A b \in Blocks \ Asking : st[b] = step["body"][b]
      BY Zenon, <1>4
    <3> HIDE DEF st
    <3>5. step' \in [Stages -> [Blocks -> Steps]] /\ step'["header"] = step["header"] /\ step'["body"] = st
      BY Zenon, <3>2, <3>3, Names DEF Types
    <3>6. \A b \in Asking : ensure_palw_parent_provenance(b) => ParentsSettled(b)'
      BY Zenon DEF ensure_palw_parent_provenance, ParentsSettled
    <3> QED
      BY Zenon, <3>1, <3>4, <3>5, <3>6
  <2>2. CASE VirtualWorkerExits
    <3> DEFINE st == [b \in Blocks |-> IF b \in Asking THEN "refused" ELSE step["body"][b]]
    <3>1. step' = [step EXCEPT !["body"] = st]
      BY Zenon, <2>2 DEF VirtualWorkerExits
    <3>2. st \in [Blocks -> Steps]
      BY Names DEF Types, Steps
    <3>3. /\ \A b \in Asking : st[b] = "refused"
          /\ \A b \in Blocks \ Asking : st[b] = step["body"][b]
      BY <1>4
    <3> HIDE DEF st
    <3>4. step' \in [Stages -> [Blocks -> Steps]] /\ step'["header"] = step["header"] /\ step'["body"] = st
      BY Zenon, <3>1, <3>2, Names DEF Types
    <3> QED
      BY Zenon, <3>3, <3>4
  <2> QED
    BY Zenon, <2>1, <2>2
<1>6. /\ status' \in [Blocks -> Statuses] /\ virtualRes' \in [Task -> Results \cup {"open"}]
      /\ \A b \in Blocks : StatusMove(b)
  <2>1. CASE VirtualWorker
    <3>1. status' \in [Blocks -> Statuses]
      BY Zenon, <2>1 DEF VirtualWorker, Resolved
    <3>2. virtualRes' \in [Task -> Results \cup {"open"}]
      BY Zenon, <2>1 DEF VirtualWorker, Types, Results
    <3>3. \A b \in Blocks :
            \/ status'[b] = status[b]
            \/ status[b] \in {"UTXOPendingVerification", "DisqualifiedFromChain"} /\ status'[b] \in Settled
      BY Zenon, <2>1 DEF VirtualWorker, Resolved
    <3> QED
      BY Zenon, <3>1, <3>2, <3>3 DEF StatusMove
  <2>2. CASE VirtualWorkerExits
    <3>1. UNCHANGED <<status, virtualRes>>
      BY Zenon, <2>2 DEF VirtualWorkerExits
    <3> QED
      BY Zenon, <3>1, Frames DEF Types
  <2> QED
    BY <2>1, <2>2
<1>7. worker' \in [Workers -> WorkerStates] /\ worker'["pruning"] = worker["pruning"] /\ WorkerMove
  <2>1. CASE VirtualWorker
    <3>1. UNCHANGED worker
      BY Zenon, <2>1 DEF VirtualWorker
    <3> QED
      BY Zenon, <3>1, Frames DEF Types
  <2>2. CASE VirtualWorkerExits
    <3>1. worker' = [worker EXCEPT !["virtual"] = "exited"] /\ VirtualExit \in Batch
      BY Zenon, <2>2 DEF VirtualWorkerExits
    <3>2. worker' \in [Workers -> WorkerStates] /\ \A w \in Workers \ {"virtual"} : worker'[w] = worker[w]
      BY Zenon, <3>1 DEF Types, WorkerStates
    <3>3. worker'["pruning"] = worker["pruning"] /\ \A s \in Stages : worker'[s] = worker[s]
      BY <3>2, Names
    <3> QED
      BY Zenon, <3>1, <3>2, <3>3 DEF WorkerMove
  <2> QED
    BY <2>1, <2>2
<1>8. Types'
  BY Zenon, <1>1, <1>2, <1>3, <1>5, <1>6, <1>7 DEF Types
<1>9. Calls'
  <2>1. \A q \in Stages : \A x \in Blocks : step'[q][x] = "none" <=> step[q][x] = "none"
    BY <1>4, <1>5, Names
  <2> QED
    BY <1>1, <2>1, CallsFrame
<1>10. TaskMove
  BY Zenon, <1>1, <1>2, QuietFrame
<1>11. BatchMove
  BY <1>3 DEF BatchMove
<1>12. \A s \in Stages : \A b \in Blocks : StepMove(s, b)
  BY <1>3, <1>4, <1>5, Names DEF StepMove
<1> QED
  BY Zenon, <1>6, <1>7, <1>8, <1>9, <1>10, <1>11, <1>12 DEF Effect

LEMMA HeaderDecides ==
  ASSUME Types, NEW b \in Blocks, process_header(b)
  PROVE  Decided("header", b)
<1> DEFINE begun == step["header"][b] = "begun"
<1>1. begun /\ status[b] \in Statuses
  BY Zenon DEF process_header, Types
<1>2. \/ status[b] = "Invalid" /\ Finish("header", b, "Err", "Invalid")
      \/ status[b] \notin {"None", "Invalid"} /\ Finish("header", b, "Ok", status[b])
      \/ status[b] = "None" /\ Finish("header", b, "Err", "None")
      \/ status[b] = "None" /\ (\E p \in Parents[b] : status[p] = "None") /\ Finish("header", b, "MissingParents", "None")
      \/ status[b] = "None" /\ Finish("header", b, "Err", "Invalid")
      \/ status[b] = "None" /\ Finish("header", b, "Ok", "HeaderOnly")
  BY Zenon DEF process_header
<1>3. CASE status[b] = "Invalid" /\ Finish("header", b, "Err", "Invalid")
  <2>1. Decides("header", b, "Err", "Invalid")
    BY Zenon, <1>1, <1>3 DEF Decides
  <2> QED
    BY <2>1 DEF Decided, Results, Statuses
<1>4. CASE status[b] \notin {"None", "Invalid"} /\ Finish("header", b, "Ok", status[b])
  <2>1. Decides("header", b, "Ok", status[b])
    BY Zenon, <1>1, <1>4 DEF Decides
  <2> QED
    BY <1>1, <2>1 DEF Decided, Results
<1>5. CASE status[b] = "None" /\ Finish("header", b, "Err", "None")
  <2>1. Decides("header", b, "Err", "None")
    BY Zenon, <1>1, <1>5 DEF Decides
  <2> QED
    BY <2>1 DEF Decided, Results, Statuses
<1>6. CASE /\ status[b] = "None" /\ \E p \in Parents[b] : status[p] = "None"
           /\ Finish("header", b, "MissingParents", "None")
  <2>1. Decides("header", b, "MissingParents", "None")
    BY Zenon, <1>1, <1>6 DEF Decides
  <2> QED
    BY <2>1 DEF Decided, Results, Statuses
<1>7. CASE status[b] = "None" /\ Finish("header", b, "Err", "Invalid")
  <2>1. Decides("header", b, "Err", "Invalid")
    BY Zenon, <1>1, <1>7 DEF Decides
  <2> QED
    BY <2>1 DEF Decided, Results, Statuses
<1>8. CASE status[b] = "None" /\ Finish("header", b, "Ok", "HeaderOnly")
  <2>1. Decides("header", b, "Ok", "HeaderOnly")
    BY Zenon, <1>1, <1>8 DEF Decides
  <2> QED
    BY <2>1 DEF Decided, Results, Statuses
<1> QED
  BY Zenon, <1>2, <1>3, <1>4, <1>5, <1>6, <1>7, <1>8

\* The verdict on a body whose parents need no (further) answer.
LEMMA VerdictDecides ==
  ASSUME NEW b \in Blocks, BodyVerdict(b), status[b] = "HeaderOnly",
         \/ step["body"][b] = "answered"
         \/ step["body"][b] = "begun" /\ (kind(Front("body", b)) = "trusted" \/ ~(HeaderV4 /\ Parents[b] # {}))
  PROVE  Decided("body", b)
<1>1. CASE Finish("body", b, "Err", "HeaderOnly")
  <2>1. Decides("body", b, "Err", "HeaderOnly")
    BY Zenon, <1>1 DEF Decides
  <2> QED
    BY <2>1 DEF Decided, Results, Statuses
<1>2. CASE Finish("body", b, "Err", "Invalid")
  <2>1. Decides("body", b, "Err", "Invalid")
    BY Zenon, <1>2 DEF Decides
  <2> QED
    BY <2>1 DEF Decided, Results, Statuses
<1>3. CASE Finish("body", b, "Ok", "UTXOPendingVerification")
  <2>1. Decides("body", b, "Ok", "UTXOPendingVerification")
    BY Zenon, <1>3 DEF Decides, HasBody
  <2> QED
    BY <2>1 DEF Decided, Results, Statuses, HasBody
<1> QED
  BY Zenon, <1>1, <1>2, <1>3 DEF BodyVerdict

LEMMA BodyDecides ==
  ASSUME Types, NEW b \in Blocks, process_body(b)
  PROVE  Asks(b) \/ Decided("body", b)
<1>1. step["body"][b] = "begun" /\ status[b] \in Statuses
  BY Zenon DEF process_body, Types
<1>2. \/ status[b] = "Invalid" /\ Finish("body", b, "Err", "Invalid")
      \/ status[b] \in HasBody /\ Finish("body", b, "Ok", status[b])
      \/ status[b] = "HeaderOnly" /\ Finish("body", b, "Err", "HeaderOnly")
      \/ status[b] = "HeaderOnly" /\ Finish("body", b, "Err", "Invalid")
      \/ /\ status[b] = "HeaderOnly" /\ \E p \in Parents[b] : status[p] \notin HasBody
         /\ Finish("body", b, "MissingParents", "HeaderOnly")
      \/ /\ status[b] = "HeaderOnly" /\ BodyVerdict(b)
         /\ kind(Front("body", b)) = "trusted" \/ ~(HeaderV4 /\ Parents[b] # {})
      \/ Asks(b)
  BY Zenon DEF process_body, Asks
<1>3. CASE status[b] = "Invalid" /\ Finish("body", b, "Err", "Invalid")
  <2>1. Decides("body", b, "Err", "Invalid")
    BY Zenon, <1>1, <1>3 DEF Decides
  <2> QED
    BY <2>1 DEF Decided, Results, Statuses
<1>4. CASE status[b] \in HasBody /\ Finish("body", b, "Ok", status[b])
  <2>1. Decides("body", b, "Ok", status[b])
    BY Zenon, <1>1, <1>4 DEF Decides, HasBody
  <2> QED
    BY <1>1, <2>1 DEF Decided, Results
<1>5. CASE status[b] = "HeaderOnly" /\ Finish("body", b, "Err", "HeaderOnly")
  <2>1. Decides("body", b, "Err", "HeaderOnly")
    BY Zenon, <1>1, <1>5 DEF Decides
  <2> QED
    BY <2>1 DEF Decided, Results, Statuses
<1>6. CASE status[b] = "HeaderOnly" /\ Finish("body", b, "Err", "Invalid")
  <2>1. Decides("body", b, "Err", "Invalid")
    BY Zenon, <1>1, <1>6 DEF Decides
  <2> QED
    BY <2>1 DEF Decided, Results, Statuses
<1>7. CASE /\ status[b] = "HeaderOnly" /\ \E p \in Parents[b] : status[p] \notin HasBody
           /\ Finish("body", b, "MissingParents", "HeaderOnly")
  <2>1. Decides("body", b, "MissingParents", "HeaderOnly")
    BY Zenon, <1>1, <1>7 DEF Decides
  <2> QED
    BY <2>1 DEF Decided, Results, Statuses
<1>8. CASE /\ status[b] = "HeaderOnly" /\ BodyVerdict(b)
           /\ kind(Front("body", b)) = "trusted" \/ ~(HeaderV4 /\ Parents[b] # {})
  BY Zenon, <1>1, <1>8, VerdictDecides
<1> QED
  BY Zenon, <1>2, <1>3, <1>4, <1>5, <1>6, <1>7, <1>8

LEMMA ResumeDecides ==
  ASSUME Stored, NEW b \in Blocks, process_body_resumes(b)
  PROVE  Decided("body", b)
<1>1. BodyWaits(b) /\ status[b] = "HeaderOnly"
  BY DEF process_body_resumes, Stored, BodyWaits
<1>2. CASE step["body"][b] = "answered" /\ BodyVerdict(b)
  BY <1>1, <1>2, VerdictDecides
<1>3. CASE step["body"][b] = "refused" /\ Finish("body", b, "Err", "Invalid")
  <2>1. Decides("body", b, "Err", "Invalid")
    BY Zenon, <1>1, <1>3 DEF Decides
  <2> QED
    BY <2>1 DEF Decided, Results, Statuses
<1> QED
  BY <1>2, <1>3 DEF process_body_resumes

\* Processing ends: the step gets its result and the block its status.
LEMMA DecideEffect ==
  ASSUME Types, Calls, NEW s \in Stages, NEW b \in Blocks, NEW r \in Results, NEW v \in Statuses,
         Decides(s, b, r, v)
  PROVE  Effect
<1>1. Finish(s, b, r, v) /\ step[s][b] # "none" /\ r # "none"
  BY Zenon DEF Decides, Results
<1>2. /\ step' = [step EXCEPT ![s][b] = r] /\ status' = [status EXCEPT ![b] = v]
      /\ UNCHANGED <<writes, log, channel, worker, pending, pool, blockRes, virtualRes>>
  BY Zenon, <1>1 DEF Finish
<1>3. /\ step' \in [Stages -> [Blocks -> Steps]] /\ step'[s][b] = r
      /\ \A q \in Stages : \A x \in Blocks : ~(q = s /\ x = b) => step'[q][x] = step[q][x]
  BY Zenon, <1>2 DEF Types, Steps
<1>4. status' \in [Blocks -> Statuses] /\ status'[b] = v /\ \A x \in Blocks : x # b => status'[x] = status[x]
  BY Zenon, <1>2 DEF Types
<1>5. Types'
  BY Zenon, <1>2, <1>3 DEF Types
<1>6. Calls'
  <2>1. \A q \in Stages : \A x \in Blocks : step'[q][x] = "none" <=> step[q][x] = "none"
    BY <1>1, <1>3
  <2> QED
    BY Zenon, <1>2, <2>1, CallsFrame
<1>7. TaskMove
  BY Zenon, <1>2, QuietFrame
<1>8. \A q \in Stages : \A x \in Blocks : StepMove(q, x)
  BY <1>3, <1>4 DEF StepMove
<1>9. \A x \in Blocks : StatusMove(x)
  BY <1>3, <1>4 DEF StatusMove
<1> QED
  BY Zenon, <1>2, <1>5, <1>6, <1>7, <1>8, <1>9, Frames DEF Effect

\* A body asks for the verdicts of its parents.
LEMMA AskEffect ==
  ASSUME Types, Calls, NEW b \in Blocks, Asks(b)
  PROVE  Effect
<1>1. /\ Send("virtual", EnsurePalwParents(b)) /\ "virtual" \in Workers /\ step["body"][b] = "begun"
      /\ UNCHANGED <<writes, log, worker, pending, pool, status, blockRes, virtualRes>>
  BY Zenon, Names DEF Asks, process_body
<1>2. /\ step' \in [Stages -> [Blocks -> Steps]] /\ step'["body"][b] = "asking"
      /\ \A r \in Stages : \A x \in Blocks : ~(r = "body" /\ x = b) => step'[r][x] = step[r][x]
  BY Names DEF Asks, Types, Steps
<1>3. /\ channel' = [w \in Workers |-> channel'[w]]
      /\ channel'["virtual"] = Append(channel["virtual"], EnsurePalwParents(b))
      /\ \A w \in Workers \ {"virtual"} : channel'[w] = channel[w]
  BY Zenon, <1>1, SendFacts
<1>4. EnsurePalwParents(b) \in Message /\ channel["virtual"] \in Seq(Message)
  BY Zenon DEF Message, Types
<1>5. Append(channel["virtual"], EnsurePalwParents(b)) \in Seq(Message)
  BY <1>4
<1>6. \A s \in Stages : channel'[s] = channel[s]
  BY <1>3, Names
<1>7. Types'
  <2>1. /\ \A r \in Stages : channel'[r] \in Seq(Nat)
        /\ channel'["virtual"] \in Seq(Message)
    BY Zenon, <1>3, <1>5, Names DEF Types
  <2> QED
    BY Zenon, <1>1, <1>2, <1>3, <2>1 DEF Types
<1>8. Calls'
  <2>1. \A q \in Stages : \A x \in Blocks : step'[q][x] = "none" <=> step[q][x] = "none"
    BY <1>1, <1>2
  <2> QED
    BY Zenon, <1>1, <2>1, CallsFrame
<1>9. TaskMove
  BY Zenon, <1>1, <1>6, QuietFrame
<1>10. \A q \in Stages : \A x \in Blocks : StepMove(q, x)
  BY Zenon, <1>1, <1>2 DEF StepMove
<1>11. BatchMove
  <2>1. Batch' = Batch \cup {EnsurePalwParents(b)}
    BY Zenon, <1>3, <1>4, BatchFacts
  <2> QED
    BY Zenon, <1>2, <2>1 DEF BatchMove
<1> QED
  BY Zenon, <1>1, <1>7, <1>8, <1>9, <1>10, <1>11, Frames DEF Effect

LEMMA SubmitEffect ==
  ASSUME Types, Calls, NEW b \in Blocks, NEW k \in Kinds, Submit(b, k)
  PROVE  Effect
<1>1. UNCHANGED <<writes, worker, pending, pool, step, status, blockRes, virtualRes>>
  BY DEF Submit
<1>2. log' \in Seq(Entry) /\ Len(log') <= MaxSubmissions
  BY SubmitFacts DEF Task
<1>3. /\ channel' = [w \in Workers |-> channel'[w]] /\ channel'["header"] \in Seq(Nat)
      /\ \A w \in Workers \ {"header"} : channel'[w] = channel[w]
  <2>1. Len(log) + 1 \in Nat /\ channel["header"] \in Seq(Nat)
    BY Names DEF Types
  <2>2. Append(channel["header"], Len(log) + 1) \in Seq(Nat)
    BY <2>1
  <2> QED
    BY Zenon, <2>2, SubmitFacts
<1>4. Types'
  <2>1. /\ \A r \in Stages : channel'[r] \in Seq(Nat)
        /\ channel'["virtual"] \in Seq(Message)
    BY Zenon, <1>3, Names DEF Types
  <2> QED
    BY Zenon, <1>1, <1>2, <1>3, <2>1 DEF Types
<1>5. Calls'
  <2>1. \A q \in Stages : \A x \in Blocks : step'[q][x] = "none" <=> step[q][x] = "none"
    BY <1>1, Zenon
  <2> QED
    BY Zenon, <1>1, <2>1, CallsFrame
<1>6. TaskMove
  BY DEF TaskMove
<1> QED
  BY Zenon, <1>1, <1>3, <1>4, <1>5, <1>6, Frames, Names DEF Effect

LEMMA SignalEffect ==
  ASSUME Types, Calls, signal_exit
  PROVE  Effect
<1>1. Send("header", Exit) /\ UNCHANGED <<writes, log, worker, pending, pool, step, status, blockRes, virtualRes>>
  BY DEF signal_exit
<1>2. channel["header"] \in Seq(Nat) /\ Exit \in Nat /\ "header" \in Workers
  BY Zenon, Names DEF Types
<1>3. Append(channel["header"], Exit) \in Seq(Nat)
  BY <1>2
<1>4. /\ channel' = [w \in Workers |-> channel'[w]] /\ channel'["header"] = Append(channel["header"], Exit)
      /\ \A w \in Workers \ {"header"} : channel'[w] = channel[w]
  BY Zenon, <1>1, <1>2, SendFacts
<1>5. Types'
  BY Zenon, <1>1, <1>3, <1>4, Names DEF Types
<1>6. Calls'
  BY <1>1, CallsFrame
<1>7. TaskMove
  BY Zenon, <1>1, <1>4, QuietFrame, Names
<1> QED
  BY Zenon, <1>1, <1>4, <1>5, <1>6, <1>7, Frames, Names DEF Effect

\* A draining worker whose stage is not idle sleeps.
LEMMA WaitEffect ==
  ASSUME Types, Calls, NEW s \in Stages, wait_for_idle(s)
  PROVE  Effect
<1>1. /\ worker' = [worker EXCEPT ![s] = "waiting"] /\ worker[s] = "draining" /\ s \in Workers
      /\ UNCHANGED <<writes, log, channel, pending, pool, step, status, blockRes, virtualRes>>
  BY Names DEF wait_for_idle
<1>2. /\ worker' \in [Workers -> WorkerStates] /\ worker'[s] = "waiting"
      /\ \A w \in Workers \ {s} : worker'[w] = worker[w]
  BY Zenon, <1>1 DEF Types, WorkerStates
<1>3. Types'
  BY Zenon, <1>1, <1>2, Names DEF Types
<1>4. Calls'
  BY <1>1, CallsFrame
<1>5. TaskMove
  BY <1>1, QuietFrame
<1>6. WorkerMove
  BY Zenon, <1>1, <1>2, Names DEF WorkerMove
<1> QED
  BY Zenon, <1>1, <1>3, <1>4, <1>5, <1>6, Frames DEF Effect

\* A drained worker passes the exit message on.
LEMMA ExitEffect ==
  ASSUME Types, Calls, NEW s \in Stages, WorkerExits(s)
  PROVE  Effect
<1>1. /\ worker' = [worker EXCEPT ![s] = "exited"] /\ s \in Workers
      /\ s = "header" => Send("body", Exit)
      /\ s = "body" => Send("virtual", VirtualExit)
      /\ UNCHANGED <<writes, log, pending, pool, step, status, blockRes, virtualRes>>
  BY Names DEF WorkerExits
<1>2. /\ worker' \in [Workers -> WorkerStates] /\ worker'[s] = "exited"
      /\ \A w \in Workers \ {s} : worker'[w] = worker[w]
  BY Zenon, <1>1 DEF Types, WorkerStates
<1>3. /\ channel["body"] \in Seq(Nat) /\ channel["virtual"] \in Seq(Message) /\ Exit \in Nat
      /\ VirtualExit \in Message /\ "body" \in Workers /\ "virtual" \in Workers
  BY Zenon, Names DEF Types, Message
<1>4. Calls'
  BY <1>1, CallsFrame
<1>5. WorkerMove
  BY Zenon, <1>2, Names DEF WorkerMove
<1>6. CASE s = "header"
  <2>1. /\ channel' = [w \in Workers |-> channel'[w]] /\ channel'["body"] = Append(channel["body"], Exit)
        /\ \A w \in Workers \ {"body"} : channel'[w] = channel[w]
    BY Zenon, <1>1, <1>3, <1>6, SendFacts
  <2>2. Append(channel["body"], Exit) \in Seq(Nat)
    BY <1>3
  <2>3. Types'
    <3>1. /\ \A r \in Stages : channel'[r] \in Seq(Nat)
          /\ channel'["virtual"] \in Seq(Message) /\ worker'["pruning"] = worker["pruning"]
      BY Zenon, <1>2, <2>1, <2>2, Names DEF Types
    <3> QED
      BY Zenon, <1>1, <1>2, <2>1, <3>1 DEF Types
  <2>4. TaskMove
    BY Zenon, <1>1, <2>1, QuietFrame, Names
  <2> QED
    BY Zenon, <1>1, <1>4, <1>5, <2>1, <2>3, <2>4, Frames, Names DEF Effect
<1>7. CASE s = "body"
  <2>1. /\ channel' = [w \in Workers |-> channel'[w]]
        /\ channel'["virtual"] = Append(channel["virtual"], VirtualExit)
        /\ \A w \in Workers \ {"virtual"} : channel'[w] = channel[w]
    BY Zenon, <1>1, <1>3, <1>7, SendFacts
  <2>2. Append(channel["virtual"], VirtualExit) \in Seq(Message)
    BY <1>3
  <2>3. Types'
    <3>1. /\ \A r \in Stages : channel'[r] \in Seq(Nat)
          /\ channel'["virtual"] \in Seq(Message) /\ worker'["pruning"] = worker["pruning"]
      BY Zenon, <1>2, <2>1, <2>2, Names DEF Types
    <3> QED
      BY Zenon, <1>1, <1>2, <2>1, <3>1 DEF Types
  <2>4. TaskMove
    BY Zenon, <1>1, <2>1, QuietFrame, Names
  <2>5. Batch' = Batch \cup {VirtualExit}
    BY Zenon, <1>3, <2>1, BatchFacts
  <2>6. BatchMove
    BY Zenon, <1>2, <1>7, <2>5 DEF BatchMove
  <2> QED
    BY Zenon, <1>1, <1>4, <1>5, <2>3, <2>4, <2>6, Frames DEF Effect
<1> QED
  BY <1>6, <1>7, Names

\* The pruning worker touches its own channel and state only.
LEMMA PruningEffect ==
  ASSUME Types, Calls, PruningReceive \/ PruningLocks \/ PruningUnlocks
  PROVE  Effect
<1>1. /\ channel' = [w \in Workers |-> channel'[w]]
      /\ \A w \in Workers \ {"pruning"} : channel'[w] = channel[w] /\ worker'[w] = worker[w]
      /\ worker' \in [Workers -> WorkerStates]
      /\ writes' \in 0 .. MaxWrites /\ (worker'["pruning"] = "waiting" => writes' > 0)
      /\ UNCHANGED <<log, pending, pool, step, status, blockRes, virtualRes>>
  <2>1. MaxWrites \in Nat /\ MaxWrites > 0 /\ "pruning" \in Workers
    BY PipelineAssumption, Names
  <2>2. CASE PruningReceive
    <3>1. channel' = [w \in Workers |-> channel'[w]] /\ \A w \in Workers \ {"pruning"} : channel'[w] = channel[w]
      BY Zenon, <2>2 DEF PruningReceive, Types
    <3>2. \/ worker' = [worker EXCEPT !["pruning"] = "exited"] /\ writes' = writes
          \/ worker' = [worker EXCEPT !["pruning"] = "waiting"] /\ writes' = MaxWrites
      BY Zenon, <2>2 DEF PruningReceive
    <3>3. /\ worker' \in [Workers -> WorkerStates] /\ \A w \in Workers \ {"pruning"} : worker'[w] = worker[w]
          /\ \/ worker'["pruning"] = "exited" /\ writes' = writes
             \/ worker'["pruning"] = "waiting" /\ writes' = MaxWrites
      <4>1. worker \in [Workers -> WorkerStates] /\ "exited" \in WorkerStates /\ "waiting" \in WorkerStates
        BY Zenon DEF Types, WorkerStates
      <4> QED
        BY <2>1, <3>2, <4>1
    <3>4. writes' \in 0 .. MaxWrites /\ (worker'["pruning"] = "waiting" => writes' > 0)
      BY <2>1, <3>3 DEF Types
    <3> QED
      BY Zenon, <2>2, <3>1, <3>3, <3>4 DEF PruningReceive
  <2>3. CASE PruningLocks
    BY <2>1, <2>3 DEF PruningLocks, Types, WorkerStates
  <2>4. CASE PruningUnlocks
    BY <2>1, <2>4 DEF PruningUnlocks, Types, WorkerStates
  <2> QED
    BY Zenon, <2>2, <2>3, <2>4
<1>2. /\ \A s \in Stages : channel'[s] = channel[s] /\ worker'[s] = worker[s]
      /\ channel'["virtual"] = channel["virtual"] /\ worker'["virtual"] = worker["virtual"]
  BY <1>1, Names
<1>3. Types'
  BY Zenon, <1>1, Names DEF Types
<1>4. Calls'
  BY <1>1, CallsFrame
<1>5. TaskMove
  BY Zenon, <1>1, <1>2, QuietFrame
<1>6. WorkerMove
  BY Zenon, <1>2 DEF WorkerMove
<1> QED
  BY Zenon, <1>1, <1>2, <1>3, <1>4, <1>5, <1>6, Frames DEF Effect

\* The steps of the pipeline.
LEMMA Actions ==
  ASSUME PInv, Next
  PROVE  \/ \E b \in Blocks, k \in Kinds : Submit(b, k)
         \/ signal_exit
         \/ \E s \in Stages : Receive(s) \/ wait_for_idle(s) \/ WorkerExits(s)
         \/ \E s \in Stages, b \in Blocks : Begins(s, b) \/ end(s, b) \/ Decided(s, b)
         \/ \E s \in Stages, b \in Blocks, p \in Blocks : Depends(s, b, p)
         \/ \E b \in Blocks : Asks(b)
         \/ VirtualWorker \/ VirtualWorkerExits
         \/ PruningReceive \/ PruningLocks \/ PruningUnlocks
<1>1. ASSUME NEW s \in Stages, NEW b \in Blocks, try_begin(s, b)
      PROVE  Begins(s, b) \/ \E p \in Blocks : Depends(s, b, p)
  BY Zenon, <1>1, PipelineAssumption DEF try_begin, Begins, Depends
<1>2. ASSUME NEW b \in Blocks, process_header(b) PROVE Decided("header", b)
  BY <1>2, HeaderDecides DEF PInv
<1>3. ASSUME NEW b \in Blocks, process_body(b) PROVE Asks(b) \/ Decided("body", b)
  BY <1>3, BodyDecides DEF PInv
<1>4. ASSUME NEW b \in Blocks, process_body_resumes(b) PROVE Decided("body", b)
  BY <1>4, ResumeDecides DEF PInv
<1> QED
  BY Zenon, <1>1, <1>2, <1>3, <1>4, Names DEF Next, Threads, Stage

LEMMA StepEffect ==
  ASSUME PInv, Next
  PROVE  Effect
<1>1. Types /\ Calls /\ Tasks /\ Settling
  BY DEF PInv
<1>2. ASSUME NEW s \in Stages, NEW b \in Blocks, Decided(s, b) PROVE Effect
  BY <1>1, <1>2, DecideEffect DEF Decided
<1>3. ASSUME NEW s \in Stages, NEW b \in Blocks, Begins(s, b) \/ end(s, b) \/ \E p \in Blocks : Depends(s, b, p)
      PROVE  Effect
  BY Zenon, <1>1, <1>3, BeginEffect, EndEffect, DependEffect
<1>4. ASSUME NEW s \in Stages, Receive(s) \/ wait_for_idle(s) \/ WorkerExits(s) PROVE Effect
  BY <1>1, <1>4, ReceiveEffect, WaitEffect, ExitEffect
<1> QED
  BY Zenon, <1>1, <1>2, <1>3, <1>4, Actions, SubmitEffect, SignalEffect, AskEffect, VirtualEffect, PruningEffect

-----------------------------------------------------------------------------
(* The theorems that rest on the invariant of the pipeline.                *)

(* The invariant of the pipeline: at most one queue_block call is under     *)
(* way per pending block, the tasks are where the channels and the          *)
(* dependency managers say, statuses keep up with the stages, an exited     *)
(* stage is idle and the virtual worker's requests are asked for.           *)
THEOREM PipelineInvariant == Spec => []PInv
<1>1. Init => PInv
  BY InitInv
<1>2. PInv /\ Next => PInv'
  BY StepEffect, EffectInv
<1>3. PInv /\ UNCHANGED vars => PInv'
  BY StutterInv
<1> QED
  BY <1>1, <1>2, <1>3, PTL DEF Spec

(* Type correctness: channels, groups, spawned calls, steps, statuses and  *)
(* answers have their types, and a group holds tasks of its block only.    *)
THEOREM PipelineTypeCorrect == Spec => []PipelineTypeOK
<1>1. PInv => PipelineTypeOK
  BY TypeCorrect
<1> QED
  BY <1>1, PipelineInvariant, PTL

(* What the expects and the assert of try_begin and end take for granted:  *)
(* a pending block has exactly one queue_block call spawned, waiting for a  *)
(* parent or under way, and a block that is not pending has none.           *)
THEOREM PipelineOneCallPerBlock == Spec => []OneCallPerBlock
<1>1. PInv => OneCallPerBlock
  BY OneCall
<1> QED
  BY <1>1, PipelineInvariant, PTL

(* process_body never meets a block without a status: the header of every   *)
(* block in the body stage is stored, and no status is ever taken back.     *)
THEOREM PipelineBodyAfterHeader == Spec => []BodyAfterHeader
<1>1. PInv => BodyAfterHeader
  BY HeaderStored
<1> QED
  BY <1>1, PipelineInvariant, PTL

(* The virtual worker exits after the body stage has drained: no body is    *)
(* under way that could be failed for the shutdown.                         *)
THEOREM PipelineNoWaiterAtShutdown == Spec => []NoWaiterAtShutdown
<1>1. PInv => NoWaiterAtShutdown
  BY NoWaiter
<1> QED
  BY <1>1, PipelineInvariant, PTL

(* Under the Header-v4 rules a body that did not come with a pruning proof *)
(* is stored only after its parents got their UTXO verdicts.                *)
THEOREM PipelineParentsSettledFirst == Spec => []ParentsSettledFirst
<1>1. PInv => ParentsSettledFirst
  BY DEF PInv, Settling
<1> QED
  BY <1>1, PipelineInvariant, PTL

(* No step of any thread takes a status back.                              *)
THEOREM PipelineStatusMonotone == Spec => StatusMonotone
<1>1. PInv /\ [Next]_vars =>
        [\A b \in Blocks :
           \/ status'[b] = status[b]
           \/ status[b] = "None" /\ status'[b] \in {"HeaderOnly", "Invalid"}
           \/ status[b] = "HeaderOnly" /\ status'[b] \in {"UTXOPendingVerification", "Invalid"}
           \/ status[b] = "UTXOPendingVerification" /\ status'[b] \in Settled
           \/ status[b] = "DisqualifiedFromChain" /\ status'[b] = "UTXOValid"
        ]_status
  <2> SUFFICES ASSUME PInv, [Next]_vars, NEW b \in Blocks, status' # status PROVE Moves(b)
    BY DEF Moves
  <2>1. Next
    BY DEF vars
  <2> QED
    BY <2>1, StepEffect, StatusMoves
<1> QED
  BY <1>1, PipelineInvariant, PTL DEF Spec, StatusMonotone

=============================================================================
