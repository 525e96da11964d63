---------------------------- MODULE SchedulerProofs ----------------------------
(* Proofs about IterationScheduler: the worker and the engine know the same    *)
(* requests, no request loses its session while it generates, memory and lanes *)
(* are never promised twice and come back, and tokens, cursors and sessions    *)
(* agree.                                                                      *)
EXTENDS IterationScheduler, SequenceTheorems, Sums, TLAPS

-----------------------------------------------------------------------------
(* The inductive invariant.                                                    *)

Ops == {"submit", "cancel", "direct", "drop"}

\* A request's thread is past its prompt, or past listening: for good.
Begun(c) == pc[c] \notin {"idle", "prefilling"}
Left(c) == pc[c] \in {"leaving", "dropping", "done"}

\* Commands come from threads at the places that send them.
Message == [op : Ops, client : Client]
Belongs(m, at) ==
    /\ m.op = "submit" => at[m.client] \notin {"idle", "prefilling"}
    /\ m.op \in {"cancel", "drop"} => at[m.client] \in {"leaving", "dropping", "done"}
    /\ m.op = "direct" => at[m.client] # "idle"

QueueShape ==
    /\ commands \in Seq(Message)
    /\ \A i \in 1 .. Len(commands) : Belongs(commands[i], pc)
    /\ pc \in [Client -> PC]
    /\ reply \in [Client -> {"none", "ok", "error"}]

\* Direct iterations, queued or running, are of threads that began.
DirectShape ==
    /\ direct \in Seq(Client)
    /\ \A i \in 1 .. Len(direct) : pc[direct[i]] # "idle"
    /\ batch \subseteq Client /\ \A c \in batch : pc[c] # "idle"
    /\ \A c \in Client : pc[c] = "idle" => reply[c] = "none"

\* What the worker knows of its requests is about them.
RequestShape ==
    /\ requests \subseteq Client
    /\ \A c \in requests : Begun(c)
    /\ configured \subseteq requests /\ stopped \subseteq requests
    /\ DOMAIN plan \subseteq active
    /\ worker \notin {"setup", "run"} => DOMAIN plan = {}

\* A feature request has its session from its direct prefill on, any other once
\* it is set up.
SessionShape ==
    \A c \in Client :
        \/ c \in Feature /\ (pc[c] = "generating" \/ (pc[c] = "prefilling" /\ reply[c] = "ok"))
        \/ c \in configured /\ pc[c] = "generating"
        => c \in DOMAIN sessions

IInv == QueueShape /\ DirectShape /\ RequestShape /\ Tracked /\ SessionShape

-----------------------------------------------------------------------------
(* Lemmas.                                                                     *)

\* What is sent is put behind the rest, or not at all.
LEMMA SendShape ==
    ASSUME NEW op \in Ops, NEW c \in Client, Send(op, c), commands \in Seq(Message)
    PROVE  /\ commands' \in Seq(Message)
           /\ \A i \in 1 .. Len(commands') :
                 \/ i \in 1 .. Len(commands) /\ commands'[i] = commands[i]
                 \/ Accepts /\ commands'[i] = [op |-> op, client |-> c]
<1> DEFINE m == [op |-> op, client |-> c]
<1>1. m \in Message
  BY DEF Message
<1>2. CASE Accepts
  <2>1. commands' = Append(commands, m)
    BY <1>2 DEF Send, Command
  <2> HIDE DEF m
  <2>2. /\ Append(commands, m) \in Seq(Message)
        /\ Len(Append(commands, m)) = Len(commands) + 1
        /\ \A i \in 1 .. Len(commands) : Append(commands, m)[i] = commands[i]
        /\ Append(commands, m)[Len(commands) + 1] = m
        /\ Len(commands) \in Nat
    BY <1>1, AppendProperties, LenProperties
  <2>3. \A i \in 1 .. Len(commands') :
            (i \in 1 .. Len(commands) /\ commands'[i] = commands[i]) \/ commands'[i] = m
    BY <2>1, <2>2
  <2> QED BY <1>2, <2>1, <2>2, <2>3 DEF m
<1>3. CASE ~Accepts
  BY <1>3 DEF Send
<1> QED BY <1>2, <1>3

\* What is left of the queue is its tail.
LEMMA TailShape ==
    ASSUME commands \in Seq(Message), commands # <<>>
    PROVE  /\ Tail(commands) \in Seq(Message)
           /\ \A i \in 1 .. Len(Tail(commands)) :
                 i + 1 \in 1 .. Len(commands) /\ Tail(commands)[i] = commands[i + 1]
           /\ 1 \in 1 .. Len(commands) /\ Head(commands) = commands[1]
           /\ Head(commands) \in Message
<1>1. /\ Tail(commands) \in Seq(Message) /\ Head(commands) \in Message
      /\ Len(Tail(commands)) = Len(commands) - 1
      /\ \A i \in 1 .. Len(Tail(commands)) : Tail(commands)[i] = commands[i + 1]
  BY HeadTailProperties
<1>2. Len(commands) \in Nat \ {0} /\ Head(commands) = commands[1]
  OBVIOUS
<1> QED BY <1>1, <1>2

\* The plan is for active sequences.
LEMMA PlanShape ==
    ASSUME NEW S PROVE DOMAIN Plan(S) \subseteq S
<1>1. \A room : DOMAIN PrefillRows(S, room) \subseteq S
  BY DEF PrefillRows
<1>2. DOMAIN DecodeRows(S) \subseteq S
  BY DEF DecodeRows
<1> QED BY <1>1, <1>2 DEF Plan, Union

\* Sequences are removed wherever they are.
LEMMA RemovedShape ==
    ASSUME NEW S, NEW count, Removed(S, count)
    PROVE  waiting' = waiting \ S /\ active' = active \ S
BY DEF Removed

\* Planning moves sequences from waiting to active.
LEMMA PlanIterationShape ==
    ASSUME NEW S, PlanIteration(S)
    PROVE  S \subseteq waiting /\ waiting' = waiting \ S /\ active' = active \cup S
BY DEF PlanIteration, Admissible

\* A thread goes on, never back.
Goes == \A d \in Client :
    /\ Begun(d) => Begun(d)'
    /\ Left(d) => Left(d)'
    /\ pc[d] # "idle" => pc'[d] # "idle"

\* So what it sent still belongs to its place.
LEMMA StillBelongs ==
    ASSUME Goes, NEW m \in Message, Belongs(m, pc)
    PROVE  Belongs(m, pc')
BY DEF Goes, Belongs, Message, Begun, Left

\* The queue keeps its shape when a thread sends what belongs to its place.
LEMMA SendKeeps ==
    ASSUME QueueShape, Goes, NEW op \in Ops, NEW c \in Client, Send(op, c),
           pc' \in [Client -> PC], reply' \in [Client -> {"none", "ok", "error"}],
           Accepts => Belongs([op |-> op, client |-> c], pc')
    PROVE  QueueShape'
<1>1. /\ commands' \in Seq(Message)
      /\ \A i \in 1 .. Len(commands') :
            \/ i \in 1 .. Len(commands) /\ commands'[i] = commands[i]
            \/ Accepts /\ commands'[i] = [op |-> op, client |-> c]
  BY SendShape DEF QueueShape
<1>2. \A i \in 1 .. Len(commands) : commands[i] \in Message
  BY ElementOfSeq DEF QueueShape
<1>3. ASSUME NEW i \in 1 .. Len(commands') PROVE Belongs(commands'[i], pc')
  <2>1. CASE i \in 1 .. Len(commands) /\ commands'[i] = commands[i]
    BY <1>2, <2>1, StillBelongs DEF QueueShape
  <2>2. CASE Accepts /\ commands'[i] = [op |-> op, client |-> c]
    BY <2>2
  <2> QED BY <1>1, <2>1, <2>2
<1> QED BY <1>1, <1>3 DEF QueueShape

\* And when the worker takes its head.
LEMMA TailKeeps ==
    ASSUME QueueShape, Goes, commands # <<>>, commands' = Tail(commands),
           pc' \in [Client -> PC], reply' \in [Client -> {"none", "ok", "error"}]
    PROVE  QueueShape'
<1>1. /\ commands' \in Seq(Message)
      /\ \A i \in 1 .. Len(commands') :
            i + 1 \in 1 .. Len(commands) /\ commands'[i] = commands[i + 1]
  BY TailShape DEF QueueShape
<1>2. \A i \in 1 .. Len(commands) : commands[i] \in Message
  BY ElementOfSeq DEF QueueShape
<1>3. ASSUME NEW i \in 1 .. Len(commands') PROVE Belongs(commands'[i], pc')
  BY <1>1, <1>2, StillBelongs DEF QueueShape
<1> QED BY <1>1, <1>3 DEF QueueShape

\* And when threads go on without it.
LEMMA QueueKeeps ==
    ASSUME QueueShape, Goes, UNCHANGED commands,
           pc' \in [Client -> PC], reply' \in [Client -> {"none", "ok", "error"}]
    PROVE  QueueShape'
<1>1. \A i \in 1 .. Len(commands) : commands[i] \in Message
  BY ElementOfSeq DEF QueueShape
<1>2. ASSUME NEW i \in 1 .. Len(commands') PROVE Belongs(commands'[i], pc')
  BY <1>1, StillBelongs DEF QueueShape
<1> QED BY <1>2 DEF QueueShape

\* A direct batch makes sessions and takes none.
LEMMA DirectBatchShape ==
    ASSUME RunDirect, reply \in [Client -> {"none", "ok", "error"}]
    PROVE  /\ DOMAIN sessions \subseteq DOMAIN sessions'
           /\ reply' \in [Client -> {"none", "ok", "error"}]
           /\ \A c \in Client : reply'[c] = "ok" => reply[c] = "ok" \/ c \in DOMAIN sessions'
           /\ \A c \in Client : c \notin batch => reply'[c] = reply[c]
<1> DEFINE Batch(S) == Evaluated(S, Prompt)
<1>1. PICK live \in SUBSET batch :
          \/ /\ sessions' = Batch(live)
             /\ reply' = [c \in Client |-> IF c \in live THEN "ok"
                                           ELSE IF c \in batch THEN "error"
                                           ELSE reply[c]]
          \/ /\ sessions' = sessions \/ \E S \in SUBSET live : sessions' = Batch(S)
             /\ reply' = [c \in Client |-> IF c \in batch THEN "error" ELSE reply[c]]
  BY DEF RunDirect
<1>2. \A S : DOMAIN Batch(S) = DOMAIN sessions \cup S
  BY DEF Evaluated
<1> HIDE DEF Batch
<1> QED BY <1>1, <1>2

\* Requests end: the worker and the engine forget the same ones, and only those
\* the worker kept a session for lose it.
Ends(S) ==
    /\ waiting' = waiting \ S /\ active' = active \ S
    /\ requests' = requests \ S /\ configured' = configured \ S /\ stopped' = stopped \ S
    /\ \A c \in DOMAIN sessions : c \in DOMAIN sessions' \/ (c \in S /\ c \notin Feature)

\* Nobody's direct iteration becomes fine by it.
RepliesKeep ==
    /\ reply' \in [Client -> {"none", "ok", "error"}]
    /\ \A c \in Client : reply'[c] = "ok" => reply[c] = "ok"
    /\ direct \in Seq(Client) /\ (\A i \in 1 .. Len(direct) : pc[direct[i]] # "idle")
         => \A c \in Client : pc[c] = "idle" => reply'[c] = reply[c]
    /\ direct' \in {direct, <<>>}

\* The direct queue stays, or is emptied.
LEMMA DirectKeeps ==
    ASSUME DirectShape, RepliesKeep
    PROVE  /\ direct' \in Seq(Client)
           /\ \A i \in 1 .. Len(direct') : direct'[i] \in Client /\ pc[direct'[i]] # "idle"
<1>1. CASE direct' = direct
  <2>1. \A i \in 1 .. Len(direct) : direct[i] \in Client
    BY ElementOfSeq DEF DirectShape
  <2> QED BY <1>1, <2>1 DEF DirectShape
<1>2. CASE direct' = <<>>
  BY <1>2
<1> QED BY <1>1, <1>2 DEF RepliesKeep

LEMMA FailAllShape ==
    ASSUME FailAll, reply \in [Client -> {"none", "ok", "error"}]
    PROVE  /\ waiting' = waiting \ requests /\ active' = active \ requests
           /\ requests' = requests \ requests /\ configured' = configured \ requests
           /\ stopped' = stopped \ requests
           /\ RepliesKeep
<1>1. waiting' = waiting \ requests /\ active' = active \ requests
  BY RemovedShape DEF FailAll
<1>2. /\ requests' = requests \ requests /\ configured' = configured \ requests
      /\ stopped' = stopped \ requests
  BY DEF FailAll, Dismiss, Forget
<1>3. RepliesKeep
  <2>1. /\ reply' = [c \in Client |-> IF \E i \in DOMAIN direct : direct[i] = c
                                      THEN "error" ELSE reply[c]]
        /\ direct' = <<>>
    BY DEF FailAll
  <2>2. direct \in Seq(Client) => DOMAIN direct = 1 .. Len(direct)
    OBVIOUS
  <2> QED BY <2>1, <2>2 DEF RepliesKeep
<1> QED BY <1>1, <1>2, <1>3

\* An iteration ends some of the worker's requests.
LEMMA RunShape ==
    ASSUME Run, reply \in [Client -> {"none", "ok", "error"}]
    PROVE  (\E S : Ends(S)) /\ RepliesKeep /\ plan' = <<>> /\ UNCHANGED <<commands, pc, batch>>
<1>1. plan' = <<>> /\ UNCHANGED <<commands, pc, batch>>
  BY DEF Run
<1>2. CASE RunFails
  <2> DEFINE Rows(S) == Evaluated(S, [c \in DOMAIN plan |-> plan[c].count])
  <2>1. \/ sessions' = Dropped(requests, sessions)
        \/ \E S \in SUBSET DOMAIN plan : sessions' = Dropped(requests, Rows(S))
    BY <1>2 DEF RunFails
  <2>2. \A S : DOMAIN Rows(S) = DOMAIN sessions \cup S
    BY DEF Evaluated
  <2> HIDE DEF Rows
  <2>3. \A c \in DOMAIN sessions : c \in DOMAIN sessions' \/ (c \in requests /\ c \notin Feature)
    BY <2>1, <2>2 DEF Dropped, Without, Restricted
  <2>4. FailAll
    BY <1>2 DEF RunFails
  <2> QED BY <1>1, <2>3, <2>4, FailAllShape DEF Ends
<1>3. CASE RunSucceeds
  <2> DEFINE Rows == Evaluated(DOMAIN plan, [c \in DOMAIN plan |-> plan[c].count])
  <2>1. PICK over, count : /\ Removed(over, count) /\ Forget(over)
                           /\ sessions' = Dropped(over, Rows)
    BY <1>3 DEF RunSucceeds
  <2>2. DOMAIN Rows = DOMAIN sessions \cup DOMAIN plan
    BY DEF Evaluated
  <2> HIDE DEF Rows
  <2>3. \A c \in DOMAIN sessions : c \in DOMAIN sessions' \/ (c \in over /\ c \notin Feature)
    BY <2>1, <2>2 DEF Dropped, Without, Restricted
  <2>4. Ends(over)
    BY <2>1, <2>3, RemovedShape DEF Ends, Forget
  <2>5. UNCHANGED <<direct, reply>>
    BY <1>3 DEF RunSucceeds
  <2> QED BY <1>1, <2>4, <2>5 DEF RepliesKeep
<1> QED BY <1>2, <1>3 DEF Run

\* What the worker knows stays right when requests end, and threads go on.
LEMMA EndsKeep ==
    ASSUME RequestShape, Tracked, SessionShape, NEW S, Ends(S), Goes,
           DOMAIN plan' \subseteq active', worker' \notin {"setup", "run"} => DOMAIN plan' = {},
           \A c \in Client : reply'[c] = "ok" => reply[c] = "ok",
           \A c \in Client : pc'[c] \in {"generating", "prefilling"} => pc'[c] = pc[c]
    PROVE  RequestShape' /\ Tracked' /\ SessionShape'
<1>1. RequestShape' /\ Tracked'
  BY DEF RequestShape, Tracked, Ends, Goes
<1>2. SessionShape'
  BY DEF SessionShape, Ends
<1> QED BY <1>1, <1>2

-----------------------------------------------------------------------------
(* Steps of the request threads.                                               *)

LEMMA BeginKeeps == ASSUME IInv, NEW c \in Client, Begin(c) PROVE IInv'
<1>1. Goes /\ pc' \in [Client -> PC] /\ reply' = reply
  BY DEF IInv, QueueShape, Goes, Begin, Go, Begun, Left, PC
<1>2. QueueShape'
  <2>1. CASE c \in Feature
    <3>1. Send("direct", c) /\ (Accepts => pc'[c] = "prefilling")
      BY <2>1 DEF IInv, QueueShape, Begin, Go
    <3> QED BY <1>1, <3>1, SendKeeps DEF IInv, QueueShape, Belongs, Ops
  <2>2. CASE c \notin Feature
    <3>1. Send("submit", c) /\ (Accepts => pc'[c] = "generating")
      BY <2>2 DEF IInv, QueueShape, Begin, Go
    <3> QED BY <1>1, <3>1, SendKeeps DEF IInv, QueueShape, Belongs, Ops
  <2> QED BY <2>1, <2>2
<1>3. DirectShape'
  BY <1>1 DEF IInv, DirectShape, Goes, Begin, workerVars
<1>4. RequestShape' /\ Tracked'
  BY <1>1 DEF IInv, RequestShape, Tracked, Goes, Begin, workerVars, engine
<1>5. SessionShape'
  BY DEF IInv, QueueShape, DirectShape, RequestShape, SessionShape, Begin, Go, Begun, workerVars
<1> QED BY <1>2, <1>3, <1>4, <1>5 DEF IInv

\* The hand-over of a feature request.
LEMMA ResumeKeeps == ASSUME IInv, NEW c \in Client, Resume(c) PROVE IInv'
<1>1. Goes /\ pc' \in [Client -> PC] /\ reply' \in [Client -> {"none", "ok", "error"}]
  BY DEF IInv, QueueShape, Goes, Resume, Leave, Go, Begun, Left, PC
<1>2. QueueShape'
  <2>1. CASE UNCHANGED commands
    BY <1>1, <2>1, QueueKeeps DEF IInv
  <2>2. CASE Send("submit", c)
    <3>1. pc'[c] \in {"generating", "leaving"}
      BY DEF IInv, QueueShape, Resume, Leave, Go
    <3> QED BY <1>1, <2>2, <3>1, SendKeeps DEF IInv, Belongs, Ops
  <2> QED BY <2>1, <2>2 DEF Resume
<1>3. DirectShape'
  BY <1>1 DEF IInv, QueueShape, DirectShape, Goes, Resume, Leave, Go, workerVars
<1>4. RequestShape' /\ Tracked'
  BY <1>1 DEF IInv, RequestShape, Tracked, Goes, Resume, Leave, workerVars, engine
<1>5. SessionShape'
  BY DEF IInv, QueueShape, RequestShape, SessionShape, Resume, Leave, Go, Begun, workerVars
<1> QED BY <1>2, <1>3, <1>4, <1>5 DEF IInv

\* A thread that leaves, for whatever reason, leaves the rest as it is.
LEMMA LeaveKeeps ==
    ASSUME IInv, NEW c \in Client, Leave(c), pc[c] \in {"generating", "prefilling"},
           UNCHANGED <<engine, workerVars>>,
           UNCHANGED commands \/ Send("cancel", c)
    PROVE  IInv'
<1>1. /\ Goes /\ pc' \in [Client -> PC] /\ reply' \in [Client -> {"none", "ok", "error"}]
      /\ pc'[c] = "leaving"
  BY DEF IInv, QueueShape, Goes, Leave, Go, Begun, Left, PC
<1>2. QueueShape'
  BY <1>1, QueueKeeps, SendKeeps DEF IInv, Belongs, Ops
<1>3. DirectShape'
  BY <1>1 DEF IInv, QueueShape, DirectShape, Goes, Leave, Go, workerVars
<1>4. RequestShape' /\ Tracked'
  BY <1>1 DEF IInv, RequestShape, Tracked, Goes, Leave, workerVars, engine
<1>5. SessionShape'
  BY DEF IInv, QueueShape, SessionShape, Leave, Go, workerVars
<1> QED BY <1>2, <1>3, <1>4, <1>5 DEF IInv

LEMMA TakeTokenKeeps == ASSUME IInv, NEW c \in Client, TakeToken(c) PROVE IInv'
<1>1. Goes
  BY DEF Goes, TakeToken, Begun, Left
<1>2. QueueShape'
  BY <1>1, QueueKeeps DEF IInv, QueueShape, TakeToken
<1> QED BY <1>2 DEF IInv, DirectShape, RequestShape, Tracked, SessionShape, TakeToken, Begun,
                    workerVars, engine

LEMMA CleanupKeeps == ASSUME IInv, NEW c \in Client, Cleanup(c) PROVE IInv'
<1>1. Goes /\ pc' \in [Client -> PC] /\ (Accepts => pc'[c] = "dropping")
  BY DEF IInv, QueueShape, Goes, Cleanup, Go, Begun, Left, PC
<1>2. QueueShape'
  BY <1>1, SendKeeps DEF IInv, QueueShape, Cleanup, Belongs, Ops
<1>3. DirectShape'
  BY <1>1 DEF IInv, QueueShape, DirectShape, Goes, Cleanup, Go, workerVars
<1>4. RequestShape' /\ Tracked'
  BY <1>1 DEF IInv, RequestShape, Tracked, Goes, Cleanup, workerVars, engine
<1>5. SessionShape'
  BY DEF IInv, QueueShape, SessionShape, Cleanup, Go, workerVars
<1> QED BY <1>2, <1>3, <1>4, <1>5 DEF IInv

-----------------------------------------------------------------------------
(* Steps of the worker.                                                        *)

LEMMA HandleKeeps == ASSUME IInv, Handle PROVE IInv'
<1> DEFINE op == Head(commands).op
           c == Head(commands).client
<1>1. /\ op \in Ops /\ c \in Client /\ Belongs(Head(commands), pc)
      /\ commands # <<>> /\ commands' = Tail(commands)
      /\ UNCHANGED <<worker, plan, batch, reply>> /\ DOMAIN plan = {}
  <2>1. commands # <<>> /\ commands \in Seq(Message)
    BY DEF IInv, QueueShape, Handle
  <2>2. Head(commands) \in Message /\ Belongs(Head(commands), pc)
    BY <2>1, TailShape DEF IInv, QueueShape
  <2> QED BY <2>1, <2>2 DEF Handle, Message, IInv, RequestShape
<1>2. PICK m \in Message : m = Head(commands) /\ m.op = op /\ m.client = c
  <2>1. Head(commands) \in Message
    BY <1>1, TailShape DEF IInv, QueueShape
  <2> QED BY <2>1
<1>3. \/ op = "submit" /\ Submit(c) /\ UNCHANGED <<pc, direct, sessions, stopped>>
      \/ op = "cancel" /\ Cancel(c) /\ UNCHANGED <<pc, direct, verdict>>
      \/ /\ op = "direct" /\ direct' = Append(direct, c)
         /\ UNCHANGED <<engine, pc, requests, configured, sessions, verdict, stopped>>
      \/ /\ op = "drop" /\ sessions' = Without(sessions, {c}) /\ Go(c, "done")
         /\ UNCHANGED <<engine, requests, configured, direct, verdict, stopped>>
  BY DEF Handle
<1> HIDE DEF op, c
<1>4. /\ op = "submit" => Begun(c)
      /\ op \in {"cancel", "drop"} => Left(c)
      /\ op = "direct" => pc[c] # "idle"
  BY <1>1, <1>2 DEF Belongs, Begun, Left
<1>5. CASE op = "submit" /\ Submit(c) /\ UNCHANGED <<pc, direct, sessions, stopped>>
  <2>1. QueueShape'
    BY <1>1, <1>5, TailKeeps DEF IInv, QueueShape, Goes, Begun, Left
  <2>2. DirectShape'
    BY <1>1, <1>5 DEF IInv, DirectShape
  <2>3. RequestShape' /\ Tracked'
    BY <1>1, <1>4, <1>5 DEF IInv, RequestShape, Tracked, Submit, Known, RuntimeConfigured, Begun,
                            engine
  <2>4. SessionShape'
    BY <1>1, <1>5 DEF IInv, SessionShape, Submit, RuntimeConfigured
  <2> QED BY <2>1, <2>2, <2>3, <2>4 DEF IInv
<1>6. CASE op = "cancel" /\ Cancel(c) /\ UNCHANGED <<pc, direct, verdict>>
  <2>1. QueueShape'
    BY <1>1, <1>6, TailKeeps DEF IInv, QueueShape, Goes, Begun, Left
  <2>2. DirectShape'
    BY <1>1, <1>6 DEF IInv, DirectShape
  <2>3. waiting' = waiting \ {c} /\ active' = active \ {c}
    BY <1>6, RemovedShape DEF Cancel
  <2>4. RequestShape' /\ Tracked'
    BY <1>1, <1>6, <2>3 DEF IInv, RequestShape, Tracked, Cancel, Forget, Begun
  <2>5. SessionShape'
    BY <1>1, <1>4, <1>6 DEF IInv, SessionShape, Cancel, Forget, Without, Restricted, Left
  <2> QED BY <2>1, <2>2, <2>4, <2>5 DEF IInv
<1>7. CASE /\ op = "direct" /\ direct' = Append(direct, c)
           /\ UNCHANGED <<engine, pc, requests, configured, sessions, verdict, stopped>>
  <2>1. QueueShape'
    BY <1>1, <1>7, TailKeeps DEF IInv, QueueShape, Goes, Begun, Left
  <2>2. DirectShape'
    <3>1. /\ direct' \in Seq(Client) /\ Len(direct') = Len(direct) + 1
          /\ \A i \in 1 .. Len(direct) : direct'[i] = direct[i]
          /\ direct'[Len(direct) + 1] = c /\ Len(direct) \in Nat
      BY <1>1, <1>7, AppendProperties, LenProperties DEF IInv, DirectShape
    <3> QED BY <1>1, <1>4, <1>7, <3>1 DEF IInv, DirectShape
  <2>3. RequestShape' /\ Tracked' /\ SessionShape'
    BY <1>1, <1>7 DEF IInv, RequestShape, Tracked, SessionShape, Begun, engine
  <2> QED BY <2>1, <2>2, <2>3 DEF IInv
<1>8. CASE /\ op = "drop" /\ sessions' = Without(sessions, {c}) /\ Go(c, "done")
           /\ UNCHANGED <<engine, requests, configured, direct, verdict, stopped>>
  <2>1. Goes /\ pc' \in [Client -> PC]
    BY <1>1, <1>8 DEF IInv, QueueShape, Goes, Go, Begun, Left, PC
  <2>2. QueueShape'
    BY <1>1, <2>1, TailKeeps DEF IInv, QueueShape
  <2>3. DirectShape'
    BY <1>1, <1>4, <1>8, <2>1 DEF IInv, QueueShape, DirectShape, Go, Left
  <2>4. RequestShape' /\ Tracked'
    BY <1>1, <1>8, <2>1 DEF IInv, RequestShape, Tracked, Goes, engine
  <2>5. SessionShape'
    BY <1>1, <1>4, <1>8 DEF IInv, QueueShape, SessionShape, Go, Without, Restricted, Left
  <2> QED BY <2>2, <2>3, <2>4, <2>5 DEF IInv
<1> QED BY <1>3, <1>5, <1>6, <1>7, <1>8

LEMMA ApplyControlsKeeps == ASSUME IInv, ApplyControls PROVE IInv'
<1>1. /\ UNCHANGED <<commands, plan, batch, direct, pc, reply>> /\ DOMAIN plan = {}
      /\ worker' = "turn"
  BY DEF ApplyControls, HasTurn, IInv, RequestShape
<1>2. Goes
  BY <1>1 DEF Goes, Begun, Left
<1>3. QueueShape' /\ DirectShape'
  BY <1>1, <1>2, QueueKeeps DEF IInv, QueueShape, DirectShape
<1>4. Ends(stopped)
  BY RemovedShape DEF ApplyControls, Dismiss, Forget, Dropped, Without, Restricted, Ends
<1> QED BY <1>1, <1>2, <1>3, <1>4, EndsKeep DEF IInv

LEMMA TakeDirectKeeps == ASSUME IInv, TakeDirect PROVE IInv'
<1>1. /\ UNCHANGED <<engine, commands, requests, configured, stopped, plan, sessions, pc, reply>>
      /\ DOMAIN plan = {}
  BY DEF TakeDirect, InTurn, HasTurn, IInv, RequestShape, clientVars, threads
<1>2. QueueShape'
  BY <1>1, QueueKeeps DEF IInv, QueueShape, Goes, Begun, Left
<1>3. DirectShape'
  <2>1. PICK n \in 1 .. Len(direct) : /\ batch' = {direct[i] : i \in 1 .. n}
                                      /\ direct' = SubSeq(direct, n + 1, Len(direct))
    BY DEF TakeDirect
  <2>2. direct \in Seq(Client) /\ Len(direct) \in Nat /\ n \in Nat
    BY <2>1, LenProperties DEF IInv, DirectShape
  <2>3. /\ direct' \in Seq(Client)
        /\ \A i \in 1 .. Len(direct') : \E j \in 1 .. Len(direct) : direct'[i] = direct[j]
    BY <2>1, <2>2
  <2>4. \A d \in batch' : \E j \in 1 .. Len(direct) : d = direct[j]
    BY <2>1, <2>2
  <2>5. \A j \in 1 .. Len(direct) : direct[j] \in Client /\ pc[direct[j]] # "idle"
    BY <2>2 DEF IInv, DirectShape
  <2> QED BY <1>1, <2>3, <2>4, <2>5 DEF IInv, DirectShape
<1>4. RequestShape' /\ Tracked' /\ SessionShape'
  BY <1>1 DEF IInv, RequestShape, Tracked, SessionShape, Begun, engine
<1> QED BY <1>2, <1>3, <1>4 DEF IInv

LEMMA TakePlanKeeps == ASSUME IInv, TakePlan PROVE IInv'
<1>1. UNCHANGED <<commands, requests, configured, stopped, direct, batch, sessions, pc, reply>>
  BY DEF TakePlan, clientVars, threads
<1>2. PICK S \in SUBSET waiting : PlanIteration(S) /\ plan' = Plan(active \cup S)
  BY DEF TakePlan
<1>3. waiting' = waiting \ S /\ active' = active \cup S /\ DOMAIN plan' \subseteq active'
  BY <1>2, PlanIterationShape, PlanShape
<1>4. worker' \notin {"setup", "run"} => DOMAIN plan' = {}
  BY DEF TakePlan
<1>5. QueueShape'
  BY <1>1, QueueKeeps DEF IInv, QueueShape, Goes, Begun, Left
<1> QED BY <1>1, <1>2, <1>3, <1>4, <1>5
        DEF IInv, DirectShape, RequestShape, Tracked, SessionShape, Begun

LEMMA SetupKeeps == ASSUME IInv, Setup PROVE IInv'
<1>1. UNCHANGED <<commands, direct, batch, pc, reply>>
  BY DEF Setup
<1>2. PICK failed, ready \in SUBSET (DOMAIN plan \ configured) :
          /\ failed = (DOMAIN plan \ configured) \ ready
          /\ Removed(failed, generated)
          /\ requests' = requests \ failed /\ stopped' = stopped \ failed
          /\ configured' = configured \cup ready
          /\ sessions' = [c \in DOMAIN sessions \cup ready |->
                           IF c \in ready THEN 0 ELSE sessions[c]]
          /\ plan' = Without(plan, failed)
  BY DEF Setup
<1>3. waiting' = waiting \ failed /\ active' = active \ failed
  BY <1>2, RemovedShape
<1>4. worker' \notin {"setup", "run"} => DOMAIN plan' = {}
  BY DEF Setup
<1>5. QueueShape' /\ DirectShape'
  BY <1>1, QueueKeeps DEF IInv, QueueShape, DirectShape, Goes, Begun, Left
<1>6. RequestShape' /\ Tracked'
  BY <1>1, <1>2, <1>3, <1>4 DEF IInv, RequestShape, Tracked, Without, Restricted, Begun
<1>7. SessionShape'
  BY <1>1, <1>2 DEF IInv, SessionShape
<1> QED BY <1>5, <1>6, <1>7 DEF IInv

LEMMA RunKeeps == ASSUME IInv, Run PROVE IInv'
<1>1. PICK S : Ends(S)
  BY RunShape DEF IInv, QueueShape
<1>2. /\ RepliesKeep /\ DOMAIN plan' = {} /\ UNCHANGED <<commands, pc, batch>>
      /\ worker' = "drain"
  BY RunShape DEF IInv, QueueShape, Run
<1>3. Goes
  BY <1>2 DEF Goes, Begun, Left
<1>4. QueueShape'
  BY <1>2, <1>3, QueueKeeps DEF IInv, QueueShape, RepliesKeep
<1>5. DirectShape'
  <2>1. /\ direct' \in Seq(Client)
        /\ \A i \in 1 .. Len(direct') : direct'[i] \in Client /\ pc[direct'[i]] # "idle"
    BY <1>2, DirectKeeps DEF IInv
  <2> QED BY <1>2, <2>1 DEF IInv, DirectShape, RepliesKeep
<1> QED BY <1>1, <1>2, <1>3, <1>4, <1>5, EndsKeep DEF IInv, RepliesKeep

LEMMA RunDirectKeeps == ASSUME IInv, RunDirect PROVE IInv'
<1>1. /\ UNCHANGED <<engine, commands, requests, configured, stopped, direct, plan, pc>>
      /\ worker' = "drain" /\ batch' = {} /\ DOMAIN plan = {}
  BY DEF RunDirect, IInv, RequestShape
<1>2. /\ DOMAIN sessions \subseteq DOMAIN sessions'
      /\ reply' \in [Client -> {"none", "ok", "error"}]
      /\ \A c \in Client : reply'[c] = "ok" => reply[c] = "ok" \/ c \in DOMAIN sessions'
      /\ \A c \in Client : c \notin batch => reply'[c] = reply[c]
  BY DirectBatchShape DEF IInv, QueueShape
<1>3. QueueShape'
  BY <1>1, <1>2, QueueKeeps DEF IInv, QueueShape, Goes, Begun, Left
<1> QED BY <1>1, <1>2, <1>3
        DEF IInv, DirectShape, RequestShape, Tracked, SessionShape, Begun, engine

LEMMA PanicKeeps == ASSUME IInv, Panic PROVE IInv'
<1>1. /\ worker' = "panicked" /\ DOMAIN plan' = {} /\ batch' = {}
  BY DEF Panic
<1>2. /\ waiting' = waiting \ requests /\ active' = active \ requests
      /\ requests' = requests \ requests /\ configured' = configured \ requests
      /\ stopped' = stopped \ requests /\ RepliesKeep
  BY FailAllShape DEF Panic, IInv, QueueShape
<1>3. Ends(requests)
  BY <1>2 DEF Panic, Ends, Dropped, Without, Restricted
<1>4. /\ Goes /\ pc' \in [Client -> PC] /\ QueueShape'
      /\ \A c \in Client : pc'[c] \in {"idle", "generating", "prefilling"} => pc'[c] = pc[c]
  <2>1. CASE UNCHANGED <<commands, pc>>
    <3>1. Goes
      BY <2>1 DEF Goes, Begun, Left
    <3> QED BY <1>2, <2>1, <3>1, QueueKeeps DEF IInv, QueueShape, RepliesKeep
  <2>2. CASE /\ commands # <<>> /\ Head(commands).op = "drop"
             /\ commands' = Tail(commands) /\ Go(Head(commands).client, "done")
    <3>1. PICK m \in Message : m = Head(commands) /\ Belongs(m, pc)
      BY <2>2, TailShape DEF IInv, QueueShape
    <3>2. m.client \in Client /\ m.op = "drop" /\ Left(m.client) /\ Go(m.client, "done")
      BY <2>2, <3>1 DEF Message, Belongs, Left
    <3>3. Goes /\ pc' \in [Client -> PC]
      BY <3>2 DEF IInv, QueueShape, Goes, Go, Begun, Left, PC
    <3>4. \A c \in Client : pc'[c] \in {"idle", "generating", "prefilling"} => pc'[c] = pc[c]
      BY <3>2 DEF IInv, QueueShape, Go
    <3> QED BY <1>2, <2>2, <3>3, <3>4, TailKeeps DEF IInv, RepliesKeep
  <2> QED BY <2>1, <2>2 DEF Panic
<1>5. DirectShape'
  <2>1. /\ direct' \in Seq(Client)
        /\ \A i \in 1 .. Len(direct') : direct'[i] \in Client /\ pc[direct'[i]] # "idle"
    BY <1>2, DirectKeeps DEF IInv
  <2> QED BY <1>1, <1>2, <1>4, <2>1 DEF IInv, DirectShape, RepliesKeep, Goes
<1> QED BY <1>1, <1>2, <1>3, <1>4, <1>5, EndsKeep DEF IInv, RepliesKeep

LEMMA FailQueuedKeeps == ASSUME IInv, FailQueued PROVE IInv'
<1>1. /\ UNCHANGED <<engine, requests, configured, stopped, direct, plan, batch, sessions>>
      /\ worker = "panicked" /\ worker' \in {"panicked", "closing"}
  BY DEF FailQueued
<1>2. CASE UNCHANGED <<commands, pc, reply>>
  <2>1. QueueShape'
    BY <1>2, QueueKeeps DEF IInv, QueueShape, Goes, Begun, Left
  <2> QED BY <1>1, <1>2, <2>1
          DEF IInv, DirectShape, RequestShape, Tracked, SessionShape, Begun, engine
<1>3. CASE commands # <<>> /\ ~UNCHANGED commands
  <2>1. PICK m \in Message : m = Head(commands) /\ Belongs(m, pc)
    BY <1>3, TailShape DEF IInv, QueueShape
  <2>2. /\ commands' = Tail(commands)
        /\ reply' = IF m.op = "direct" THEN [reply EXCEPT ![m.client] = "error"] ELSE reply
        /\ pc' = IF m.op = "drop" THEN [pc EXCEPT ![m.client] = "done"] ELSE pc
    BY <1>3, <2>1 DEF FailQueued
  <2>3. m.client \in Client
    BY DEF Message
  <2>4. /\ Goes /\ pc' \in [Client -> PC] /\ reply' \in [Client -> {"none", "ok", "error"}]
        /\ \A c \in Client : pc'[c] \in {"idle", "generating", "prefilling"} => pc'[c] = pc[c]
        /\ \A c \in Client : reply'[c] = "ok" => reply[c] = "ok"
        /\ \A c \in Client : pc[c] = "idle" => reply'[c] = reply[c]
    BY <2>1, <2>2, <2>3 DEF IInv, QueueShape, Belongs, Goes, Begun, Left, PC
  <2>5. QueueShape'
    BY <1>3, <2>2, <2>4, TailKeeps DEF IInv
  <2> QED BY <1>1, <2>4, <2>5
          DEF IInv, DirectShape, RequestShape, Tracked, SessionShape, Goes, engine
<1> QED BY <1>2, <1>3 DEF FailQueued

LEMMA WorkerGoneKeeps == ASSUME IInv, WorkerGone PROVE IInv'
<1>1. /\ UNCHANGED <<engine, requests, configured, stopped, direct, plan, batch, sessions, reply>>
      /\ worker = "closing" /\ worker' = "gone" /\ commands' = <<>>
  BY DEF WorkerGone
<1>2. PICK D : /\ pc' = [c \in Client |-> IF c \in D THEN "done" ELSE pc[c]]
               /\ \A d \in D : \E i \in 1 .. Len(commands) : commands[i].op = "drop"
                                                          /\ commands[i].client = d
  <2> DEFINE D == {commands[i].client : i \in {j \in DOMAIN commands : commands[j].op = "drop"}}
  <2>1. pc' = [c \in Client |-> IF c \in D THEN "done" ELSE pc[c]]
    BY DEF WorkerGone
  <2>2. DOMAIN commands = 1 .. Len(commands)
    BY DEF IInv, QueueShape
  <2>3. \A d \in D : \E i \in 1 .. Len(commands) : commands[i].op = "drop"
                                                  /\ commands[i].client = d
    BY <2>2
  <2> QED BY <2>1, <2>3
<1>3. \A d \in D : Left(d)
  BY <1>2 DEF IInv, QueueShape, Belongs, Left
<1>4. /\ Goes /\ pc' \in [Client -> PC]
      /\ \A c \in Client : pc'[c] \in {"idle", "generating", "prefilling"} => pc'[c] = pc[c]
  BY <1>2, <1>3 DEF IInv, QueueShape, Goes, Begun, Left, PC
<1>5. QueueShape'
  BY <1>1, <1>4 DEF IInv, QueueShape
<1> QED BY <1>1, <1>4, <1>5
        DEF IInv, DirectShape, RequestShape, Tracked, SessionShape, Goes, engine

-----------------------------------------------------------------------------
(* Theorems.                                                                   *)

LEMMA Initially == Init => IInv
BY DEF Init, EngineInit, IInv, QueueShape, DirectShape, RequestShape, Tracked, SessionShape,
       PC, Begun

LEMMA StepKeeps == IInv /\ [Next]_vars => IInv'
<1> SUFFICES ASSUME IInv, [Next]_vars PROVE IInv'
  OBVIOUS
<1>1. ASSUME NEW c \in Client, Begin(c) \/ RequestStep(c) \/ Abandon(c) PROVE IInv'
  <2>1. CASE Begin(c)
    BY <2>1, BeginKeeps
  <2>2. CASE Resume(c)
    BY <2>2, ResumeKeeps
  <2>3. CASE PrefillFails(c)
    BY <2>3, LeaveKeeps DEF PrefillFails
  <2>4. CASE TakeToken(c)
    BY <2>4, TakeTokenKeeps
  <2>5. CASE TakeVerdict(c)
    BY <2>5, LeaveKeeps DEF TakeVerdict
  <2>6. CASE Cleanup(c)
    BY <2>6, CleanupKeeps
  <2>7. CASE Abandon(c)
    BY <2>7, LeaveKeeps DEF Abandon
  <2> QED BY <1>1, <2>1, <2>2, <2>3, <2>4, <2>5, <2>6, <2>7 DEF RequestStep
<1>2. CASE WorkerStep
  BY <1>2, HandleKeeps, ApplyControlsKeeps, TakeDirectKeeps, TakePlanKeeps, SetupKeeps,
     RunKeeps, RunDirectKeeps, FailQueuedKeeps, WorkerGoneKeeps DEF WorkerStep
<1>3. CASE Panic
  BY <1>3, PanicKeeps
<1>4. CASE UNCHANGED vars
  <2>1. QueueShape'
    BY <1>4, QueueKeeps DEF IInv, QueueShape, Goes, Begun, Left, vars, clientVars, threads
  <2> QED BY <1>4, <2>1 DEF IInv, DirectShape, RequestShape, Tracked, SessionShape, Begun,
                           vars, engine, workerVars, clientVars, threads
<1> QED BY <1>1, <1>2, <1>3, <1>4 DEF Next

\* The worker's requests are the engine's sequences, through every way in which
\* one ends (SchedulerWorker::submit, cancel, fail_request, fail_all,
\* apply_pending_controls, finish_iteration).
THEOREM RequestsAreTracked == Spec => []Tracked
<1>1. IInv => Tracked
  BY DEF IInv
<1> QED BY <1>1, Initially, StepKeeps, PTL DEF Spec

\* No request loses its runtime session while it generates, though sessions are
\* dropped by failed iterations, late cancels and clean-ups of request threads.
THEOREM SessionsStay == Spec => []SessionStays
<1>1. IInv => SessionStays
  BY DEF IInv, RequestShape, SessionShape, SessionStays, Listens
<1> QED BY <1>1, Initially, StepKeeps, PTL DEF Spec

-----------------------------------------------------------------------------
(* Memory.                                                                     *)

\* The larger, and the smaller, of two numbers.
LEMMA MaxOfTwo ==
    ASSUME NEW a \in Int, NEW b \in Int
    PROVE  Max({a, b}) = IF a >= b THEN a ELSE b
<1> DEFINE m == IF a >= b THEN a ELSE b
           Is(x) == x \in {a, b} /\ \A y \in {a, b} : x >= y
<1>1. Is(m) /\ \A x : Is(x) => x = m
  OBVIOUS
<1>2. (CHOOSE x : Is(x)) = m
  <2> HIDE DEF Is, m
  <2> QED BY <1>1
<1>3. Max({a, b}) = CHOOSE x \in {a, b} : \A y \in {a, b} : x >= y
  BY DEF Max
<1> QED BY <1>2, <1>3

LEMMA MinOfTwo ==
    ASSUME NEW a \in Int, NEW b \in Int
    PROVE  Min({a, b}) = IF a <= b THEN a ELSE b
<1> DEFINE m == IF a <= b THEN a ELSE b
           Is(x) == x \in {a, b} /\ \A y \in {a, b} : x <= y
<1>1. Is(m) /\ \A x : Is(x) => x = m
  OBVIOUS
<1>2. (CHOOSE x : Is(x)) = m
  <2> HIDE DEF Is, m
  <2> QED BY <1>1
<1>3. Min({a, b}) = CHOOSE x \in {a, b} : \A y \in {a, b} : x <= y
  BY DEF Min
<1> QED BY <1>2, <1>3

\* A reservation is a number of cells.
LEMMA ReservationIsNat == \A c \in Client : Reservation[c] \in Nat
<1> SUFFICES ASSUME NEW c \in Client PROVE Reservation[c] \in Nat
  OBVIOUS
<1>1. Prompt[c] \in Nat /\ MaxTokens \in Nat /\ Headroom \in Nat /\ KvTokens \in Nat
  BY SizeAssumption
<1> DEFINE room == Min({MaxTokens, Headroom})
           limit == Min({Prompt[c] + room, KvTokens})
<1>2. Reservation[c] = Max({Prompt[c], limit})
  BY DEF Reservation
<1>3. room \in Nat
  BY <1>1, MinOfTwo
<1> HIDE DEF room
<1>4. limit \in Nat
  BY <1>1, <1>3, MinOfTwo
<1> HIDE DEF limit
<1>5. Max({Prompt[c], limit}) \in Nat
  BY <1>1, <1>4, MaxOfTwo
<1> QED BY <1>2, <1>5

\* Active sequences are clients, and few.
LEMMA ActiveIsFinite ==
    ASSUME active \subseteq Client
    PROVE  /\ IsFiniteSet(active) /\ Cardinality(active) \in Nat
           /\ \A c \in active : Reservation[c] \in Nat
BY ClientAssumption, ReservationIsNat, FS_Subset, FS_CardinalityType

\* What is removed gives back what it reserved.
LEMMA RemovedMemory ==
    ASSUME MemoryHeld, active \subseteq Client, NEW S, NEW count, Removed(S, count)
    PROVE  MemoryHeld'
<1> DEFINE T == S \cap active
           Total(U) == SumFunctionOnSet(Reservation, U)
<1>1. /\ IsFiniteSet(active) /\ T \in SUBSET active /\ active \ S = active \ T
      /\ \A c \in active : Reservation[c] \in Nat
  BY ActiveIsFinite
<1>2. Total(T) <= Total(active) /\ Total(active \ T) = Total(active) - Total(T)
  BY <1>1, SumOfPart
<1>3. Total(active) \in Nat /\ Total(T) \in Nat
  <2>1. IsFiniteSet(T)
    BY <1>1, FS_Subset
  <2> QED BY <1>1, <2>1, SumIsNat
<1>4. active' = active \ S /\ used' = Max({used - Total(T), 0}) /\ used = Total(active)
  BY DEF Removed, MemoryHeld
<1> HIDE DEF Total, T
<1>5. used' = Total(active) - Total(T) /\ used' <= used
  <2>1. used - Total(T) \in Int /\ used - Total(T) >= 0
    BY <1>2, <1>3, <1>4
  <2>2. used' = used - Total(T)
    BY <1>4, <2>1, MaxOfTwo
  <2> QED BY <1>3, <1>4, <2>2
<1>6. used' = Total(active')
  BY <1>1, <1>2, <1>4, <1>5
<1>7. used' <= KvTokens
  BY <1>3, <1>4, <1>5, SizeAssumption DEF MemoryHeld
<1>8. Cardinality(active') <= Lanes
  <2>1. Cardinality(active') <= Cardinality(active) /\ Cardinality(active') \in Nat /\ Cardinality(active) \in Nat
    BY <1>1, <1>4, FS_Subset, FS_CardinalityType
  <2> QED BY <2>1, SizeAssumption DEF MemoryHeld
<1> QED BY <1>6, <1>7, <1>8 DEF MemoryHeld, Total

\* What is admitted fits.
LEMMA PlanMemory ==
    ASSUME MemoryHeld, active \subseteq Client, waiting \subseteq Client,
           waiting \cap active = {}, NEW S, PlanIteration(S)
    PROVE  MemoryHeld'
<1> DEFINE Total(U) == SumFunctionOnSet(Reservation, U)
<1>1. /\ S \subseteq waiting /\ active' = active \cup S /\ used' = used + Total(S)
      /\ Cardinality(active \cup S) <= Lanes /\ used + Total(S) <= KvTokens
  BY DEF PlanIteration, Admissible, Fits
<1>2. /\ IsFiniteSet(active) /\ IsFiniteSet(S) /\ active \cap S = {}
      /\ \A c \in active \cup S : Reservation[c] \in Int
  <2>1. IsFiniteSet(active) /\ IsFiniteSet(S)
    BY <1>1, ClientAssumption, FS_Subset
  <2> QED BY <1>1, <2>1, ReservationIsNat
<1>3. Total(active \cup S) = Total(active) + Total(S)
  BY <1>2, SumUnion
<1> HIDE DEF Total
<1> QED BY <1>1, <1>3 DEF MemoryHeld, Total

\* A step of the system removes sequences, plans an iteration, or leaves the active
\* sequences alone.
LEMMA EngineSteps ==
    ASSUME [Next]_vars
    PROVE  \/ UNCHANGED <<active, used>>
           \/ \E S, count : Removed(S, count)
           \/ \E S : PlanIteration(S)
<1>1. ASSUME NEW c \in Client, Begin(c) \/ RequestStep(c) \/ Abandon(c)
      PROVE  UNCHANGED <<active, used>>
  BY <1>1 DEF Begin, RequestStep, Resume, PrefillFails, TakeToken, TakeVerdict, Cleanup,
              Abandon, engine
<1>2. CASE Handle
  <2>1. PICK c : \/ Submit(c) \/ Cancel(c) \/ UNCHANGED engine
    BY <1>2 DEF Handle
  <2> QED BY <2>1 DEF Submit, Cancel, engine
<1>3. CASE ApplyControls
  BY <1>3 DEF ApplyControls
<1>4. CASE TakePlan
  BY <1>4 DEF TakePlan
<1>5. CASE Setup
  BY <1>5 DEF Setup
<1>6. CASE Run
  <2>1. CASE RunFails
    BY <2>1 DEF RunFails, FailAll
  <2>2. CASE RunSucceeds
    BY <2>2 DEF RunSucceeds
  <2> QED BY <1>6, <2>1, <2>2 DEF Run
<1>7. CASE TakeDirect \/ RunDirect \/ FailQueued \/ WorkerGone
  BY <1>7 DEF TakeDirect, RunDirect, FailQueued, WorkerGone, engine
<1>8. CASE Panic
  BY <1>8 DEF Panic, FailAll
<1>9. CASE UNCHANGED vars
  BY <1>9 DEF vars, engine
<1> QED BY <1>1, <1>2, <1>3, <1>4, <1>5, <1>6, <1>7, <1>8, <1>9 DEF Next, WorkerStep

\* Every step keeps the memory's books,
LEMMA MemoryKept == IInv /\ MemoryHeld /\ [Next]_vars => MemoryHeld'
<1> SUFFICES ASSUME IInv, MemoryHeld, [Next]_vars PROVE MemoryHeld'
  OBVIOUS
<1>1. /\ active \subseteq Client /\ waiting \subseteq Client /\ waiting \cap active = {}
  BY DEF IInv, RequestShape, Tracked
<1>2. CASE UNCHANGED <<active, used>>
  BY <1>2 DEF MemoryHeld
<1>3. CASE \E S, count : Removed(S, count)
  BY <1>1, <1>3, RemovedMemory
<1>4. CASE \E S : PlanIteration(S)
  BY <1>1, <1>4, PlanMemory
<1> QED BY <1>2, <1>3, <1>4, EngineSteps

\* which are right at the start.
LEMMA MemoryInitially == Init => MemoryHeld
<1> SUFFICES ASSUME Init PROVE MemoryHeld
  OBVIOUS
<1>1. active = {} /\ used = 0
  BY DEF Init, EngineInit
<1>2. SumFunctionOnSet(Reservation, {}) = 0 /\ Cardinality({}) = 0
  BY SumEmpty, FS_EmptySet
<1> QED BY <1>1, <1>2, SizeAssumption DEF MemoryHeld

\* The pool and the lanes are never promised twice: what is used is the sum of the
\* reservations of the active sequences, through admission and every way in which
\* a sequence ends (admit_waiting, reserve_memory, remove_active).
THEOREM MemoryIsHeld == Spec => []MemoryHeld
BY Initially, StepKeeps, MemoryInitially, MemoryKept, PTL DEF Spec

-----------------------------------------------------------------------------
(* The order of a request's commands.                                          *)

\* A request sends a direct iteration, then its submission, a cancellation and
\* the drop of its session: each at most once, in this order.
Rank(op) == IF op = "direct" THEN 0 ELSE IF op = "submit" THEN 1 ELSE IF op = "cancel" THEN 2 ELSE 3

InQueue(op, c) == \E i \in 1 .. Len(commands) : commands[i].op = op /\ commands[i].client = c
InDirect(c) == \E i \in 1 .. Len(direct) : direct[i] = c

QueueOrder ==
    \A i, j \in 1 .. Len(commands) :
        i < j /\ commands[i].client = commands[j].client
            => Rank(commands[i].op) < Rank(commands[j].op)
DirectOrder == \A i, j \in 1 .. Len(direct) : direct[i] = direct[j] => i = j

\* A direct iteration is in one place, and its thread waits for it there.
Fresh(c) == c \in Feature /\ pc[c] = "prefilling" /\ reply[c] = "none"
PlaceOf(c) ==
    /\ InQueue("direct", c) => Fresh(c) /\ ~InDirect(c) /\ c \notin batch
    /\ InDirect(c) => Fresh(c) /\ c \notin batch
    /\ c \in batch => Fresh(c)
    /\ InQueue("drop", c) => pc[c] = "dropping"

PlaceShape ==
    /\ QueueOrder /\ DirectOrder
    /\ batch # {} => worker = "direct"
    /\ \A c \in Client : PlaceOf(c)

\* What is queued belongs to its thread's place.
LEMMA QueueBelongs ==
    ASSUME QueueShape
    PROVE  \A op, c : InQueue(op, c) =>
              /\ op \in Ops /\ c \in Client
              /\ op = "submit" => pc[c] \notin {"idle", "prefilling"}
              /\ op \in {"cancel", "drop"} => Left(c)
              /\ op = "direct" => pc[c] # "idle"
<1> SUFFICES ASSUME NEW op, NEW c, NEW i \in 1 .. Len(commands),
                    commands[i].op = op, commands[i].client = c
             PROVE  /\ op \in Ops /\ c \in Client
                    /\ op = "submit" => pc[c] \notin {"idle", "prefilling"}
                    /\ op \in {"cancel", "drop"} => Left(c)
                    /\ op = "direct" => pc[c] # "idle"
  BY DEF InQueue
<1>1. commands[i] \in Message /\ Belongs(commands[i], pc)
  BY ElementOfSeq DEF QueueShape
<1> QED BY <1>1 DEF Message, Belongs, Left

\* What is sent is in the queue, when it is accepted.
LEMMA SendQueue ==
    ASSUME QueueShape, NEW op \in Ops, NEW c \in Client, Send(op, c)
    PROVE  \A o, d : InQueue(o, d)' <=> InQueue(o, d) \/ (Accepts /\ o = op /\ d = c)
<1> DEFINE m == [op |-> op, client |-> c]
<1>1. m \in Message /\ m.op = op /\ m.client = c
  BY DEF Message
<1>2. CASE Accepts
  <2>1. commands' = Append(commands, m) /\ commands \in Seq(Message)
    BY <1>2 DEF Send, Command, QueueShape
  <2> HIDE DEF m
  <2>2. /\ Len(commands') = Len(commands) + 1 /\ Len(commands) \in Nat
        /\ \A i \in 1 .. Len(commands) : commands'[i] = commands[i]
        /\ commands'[Len(commands) + 1] = m
    BY <1>1, <2>1, AppendProperties, LenProperties
  <2>3. ASSUME NEW o, NEW d
        PROVE  InQueue(o, d)' <=> InQueue(o, d) \/ (o = op /\ d = c)
    <3>1. ASSUME InQueue(o, d)' PROVE InQueue(o, d) \/ (o = op /\ d = c)
      <4>1. PICK i \in 1 .. Len(commands') : commands'[i].op = o /\ commands'[i].client = d
        BY <3>1 DEF InQueue
      <4>2. CASE i \in 1 .. Len(commands)
        BY <2>2, <4>1, <4>2 DEF InQueue
      <4>3. CASE i = Len(commands) + 1
        BY <1>1, <2>2, <4>1, <4>3
      <4> QED BY <2>2, <4>2, <4>3
    <3>2. InQueue(o, d) => InQueue(o, d)'
      BY <2>2 DEF InQueue
    <3>3. InQueue(op, c)'
      <4>1. Len(commands) + 1 \in 1 .. Len(commands')
        BY <2>2
      <4> QED BY <1>1, <2>2, <4>1 DEF InQueue
    <3> QED BY <3>1, <3>2, <3>3
  <2> QED BY <1>2, <2>3
<1>3. CASE ~Accepts
  BY <1>3 DEF Send, InQueue
<1> QED BY <1>2, <1>3

\* And it comes after what it should.
LEMMA SendOrder ==
    ASSUME QueueShape, QueueOrder, NEW op \in Ops, NEW c \in Client, Send(op, c),
           \A o : InQueue(o, c) => Rank(o) < Rank(op)
    PROVE  QueueOrder'
<1> DEFINE m == [op |-> op, client |-> c]
<1>1. m \in Message /\ m.op = op /\ m.client = c
  BY DEF Message
<1>2. CASE Accepts
  <2>1. commands' = Append(commands, m) /\ commands \in Seq(Message)
    BY <1>2 DEF Send, Command, QueueShape
  <2> HIDE DEF m
  <2>2. /\ Len(commands') = Len(commands) + 1 /\ Len(commands) \in Nat
        /\ \A i \in 1 .. Len(commands) : commands'[i] = commands[i]
        /\ commands'[Len(commands) + 1] = m
    BY <1>1, <2>1, AppendProperties, LenProperties
  <2>3. ASSUME NEW i \in 1 .. Len(commands'), NEW j \in 1 .. Len(commands'), i < j,
               commands'[i].client = commands'[j].client
        PROVE  Rank(commands'[i].op) < Rank(commands'[j].op)
    <3>1. i \in 1 .. Len(commands)
      BY <2>2, <2>3
    <3>2. CASE j \in 1 .. Len(commands)
      <4> HIDE DEF Rank
      <4> QED BY <2>2, <2>3, <3>1, <3>2 DEF QueueOrder
    <3>3. CASE j = Len(commands) + 1
      <4>1. InQueue(commands[i].op, c)
        BY <1>1, <2>2, <2>3, <3>1, <3>3 DEF InQueue
      <4> QED BY <1>1, <2>2, <3>1, <3>3, <4>1
    <3> QED BY <2>2, <3>2, <3>3
  <2> QED BY <2>3 DEF QueueOrder
<1>3. CASE ~Accepts
  BY <1>3 DEF Send, QueueOrder
<1> QED BY <1>2, <1>3

\* What the worker takes from the queue was there once, and the first of its
\* request.
LEMMA TailQueue ==
    ASSUME QueueShape, QueueOrder, commands # <<>>, commands' = Tail(commands),
           NEW m, m = Head(commands)
    PROVE  /\ QueueOrder'
           /\ \A o, d : InQueue(o, d)' <=> InQueue(o, d) /\ ~(o = m.op /\ d = m.client)
           /\ m \in Message /\ InQueue(m.op, m.client)
           /\ \A o : InQueue(o, m.client)' => Rank(m.op) < Rank(o)
<1>1. /\ commands' \in Seq(Message)
      /\ \A i \in 1 .. Len(commands') : i + 1 \in 1 .. Len(commands) /\ commands'[i] = commands[i + 1]
      /\ 1 \in 1 .. Len(commands) /\ m = commands[1] /\ m \in Message
      /\ Len(commands') = Len(commands) - 1 /\ Len(commands) \in Nat
  BY TailShape, HeadTailProperties, LenProperties DEF QueueShape
<1>2. ASSUME NEW i \in 1 .. Len(commands'), NEW j \in 1 .. Len(commands'), i < j,
             commands'[i].client = commands'[j].client
      PROVE  Rank(commands'[i].op) < Rank(commands'[j].op)
  <2>1. i + 1 \in 1 .. Len(commands) /\ j + 1 \in 1 .. Len(commands) /\ i + 1 < j + 1
    BY <1>1, <1>2
  <2>2. commands[i + 1].client = commands[j + 1].client
    BY <1>1, <1>2
  <2>3. Rank(commands[i + 1].op) < Rank(commands[j + 1].op)
    BY <2>1, <2>2 DEF QueueOrder
  <2> QED BY <1>1, <2>3
<1>3. InQueue(m.op, m.client)
  BY <1>1 DEF InQueue
<1>4. ASSUME NEW o, NEW d, InQueue(o, d)'
      PROVE  InQueue(o, d) /\ (d = m.client => Rank(m.op) < Rank(o))
  <2>1. PICK i \in 1 .. Len(commands') : commands'[i].op = o /\ commands'[i].client = d
    BY <1>4 DEF InQueue
  <2>2. i + 1 \in 1 .. Len(commands) /\ 1 < i + 1 /\ commands[i + 1].op = o /\ commands[i + 1].client = d
    BY <1>1, <2>1
  <2>3. InQueue(o, d)
    BY <2>2 DEF InQueue
  <2>4. ASSUME d = m.client PROVE Rank(m.op) < Rank(o)
    <3>1. Rank(commands[1].op) < Rank(commands[i + 1].op)
      BY <1>1, <2>2, <2>4 DEF QueueOrder
    <3> QED BY <1>1, <2>2, <3>1
  <2> QED BY <2>3, <2>4
<1>5. ASSUME NEW o, NEW d, InQueue(o, d), ~(o = m.op /\ d = m.client)
      PROVE  InQueue(o, d)'
  <2>1. PICK i \in 1 .. Len(commands) : commands[i].op = o /\ commands[i].client = d
    BY <1>5 DEF InQueue
  <2>2. i # 1
    BY <1>1, <1>5, <2>1
  <2>3. i - 1 \in 1 .. Len(commands') /\ (i - 1) + 1 = i
    BY <1>1, <2>1, <2>2
  <2>4. commands'[i - 1] = commands[i]
    BY <1>1, <2>3
  <2> QED BY <2>1, <2>3, <2>4 DEF InQueue
<1>6. ~(Rank(m.op) < Rank(m.op))
  <2>1. Rank(m.op) \in Int
    BY DEF Rank
  <2> QED BY <2>1
<1>7. QueueOrder'
  BY <1>2 DEF QueueOrder
<1>8. \A o, d : InQueue(o, d)' <=> InQueue(o, d) /\ ~(o = m.op /\ d = m.client)
  BY <1>4, <1>5, <1>6
<1>9. \A o : InQueue(o, m.client)' => Rank(m.op) < Rank(o)
  BY <1>4
<1> QED BY <1>1, <1>3, <1>7, <1>8, <1>9

\* The queue stays, or is emptied.
LEMMA SameQueue ==
    ASSUME UNCHANGED commands
    PROVE  (QueueOrder => QueueOrder') /\ \A o, d : InQueue(o, d)' <=> InQueue(o, d)
BY DEF QueueOrder, InQueue

\* An empty queue holds nothing.
LEMMA NoQueue ==
    ASSUME commands' = <<>>
    PROVE  QueueOrder' /\ \A o, d : ~InQueue(o, d)'
BY DEF QueueOrder, InQueue

\* The same for the queue of direct iterations.
LEMMA SameDirect ==
    ASSUME UNCHANGED direct
    PROVE  (DirectOrder => DirectOrder') /\ \A c : InDirect(c)' <=> InDirect(c)
BY DEF DirectOrder, InDirect

\* An empty one holds nothing.
LEMMA NoDirect ==
    ASSUME direct' = <<>>
    PROVE  DirectOrder' /\ \A c : ~InDirect(c)'
BY DEF DirectOrder, InDirect

\* The worker queues a direct iteration.
LEMMA MoreDirect ==
    ASSUME DirectShape, DirectOrder, NEW c \in Client, ~InDirect(c), direct' = Append(direct, c)
    PROVE  DirectOrder' /\ \A d : InDirect(d)' <=> InDirect(d) \/ d = c
<1>1. /\ Len(direct') = Len(direct) + 1 /\ Len(direct) \in Nat
      /\ \A i \in 1 .. Len(direct) : direct'[i] = direct[i]
      /\ direct'[Len(direct) + 1] = c
  BY AppendProperties, LenProperties DEF DirectShape
<1>2. DirectOrder'
  BY <1>1 DEF DirectOrder, InDirect
<1>3. \A d : InDirect(d)' => InDirect(d) \/ d = c
  BY <1>1 DEF InDirect
<1>4. \A d : InDirect(d) => InDirect(d)'
  BY <1>1 DEF InDirect
<1>5. InDirect(c)'
  <2>1. Len(direct) + 1 \in 1 .. Len(direct')
    BY <1>1
  <2> QED BY <1>1, <2>1 DEF InDirect
<1> QED BY <1>2, <1>3, <1>4, <1>5

\* And takes the first of them into a batch.
LEMMA BatchDirect ==
    ASSUME DirectShape, DirectOrder, TakeDirect
    PROVE  /\ DirectOrder'
           /\ \A c : InDirect(c)' => InDirect(c) /\ c \notin batch'
           /\ \A c \in batch' : InDirect(c)
<1>1. PICK n \in 1 .. Len(direct) : /\ batch' = {direct[i] : i \in 1 .. n}
                                    /\ direct' = SubSeq(direct, n + 1, Len(direct))
  BY DEF TakeDirect
<1>2. direct \in Seq(Client) /\ Len(direct) \in Nat /\ n \in Nat /\ n <= Len(direct)
  BY <1>1, LenProperties DEF DirectShape
<1>3. /\ Len(direct') = Len(direct) - n
      /\ \A i \in 1 .. Len(direct') : direct'[i] = direct[n + i]
  BY <1>1, <1>2
<1>4. \A i \in 1 .. Len(direct') : n + i \in 1 .. Len(direct) /\ n + i > n
  BY <1>2, <1>3
<1>5. DirectOrder'
  <2> SUFFICES ASSUME NEW i \in 1 .. Len(direct'), NEW j \in 1 .. Len(direct'), direct'[i] = direct'[j]
               PROVE  i = j
    BY DEF DirectOrder
  <2>1. n + i = n + j
    BY <1>3, <1>4 DEF DirectOrder
  <2> QED BY <1>2, <2>1
<1>6. \A c \in batch' : InDirect(c)
  BY <1>1, <1>2 DEF InDirect
<1>7. ASSUME NEW c, InDirect(c)' PROVE InDirect(c) /\ c \notin batch'
  <2>1. PICK i \in 1 .. Len(direct') : direct'[i] = c
    BY <1>7 DEF InDirect
  <2>2. n + i \in 1 .. Len(direct) /\ n + i > n /\ direct[n + i] = c
    BY <1>3, <1>4, <2>1
  <2>3. ASSUME NEW k \in 1 .. n, direct[k] = c PROVE FALSE
    <3>1. k \in 1 .. Len(direct) /\ k # n + i
      BY <1>2, <2>2
    <3> QED BY <2>2, <2>3, <3>1 DEF DirectOrder
  <2> QED BY <1>1, <2>2, <2>3 DEF InDirect
<1> QED BY <1>5, <1>6, <1>7

\* The places stay what they are when threads elsewhere go on, and the worker does
\* not start a batch.
LEMMA PlacesKeep ==
    ASSUME PlaceShape, UNCHANGED <<commands, direct>>, batch' = {} \/ UNCHANGED <<batch, worker>>,
           \A c \in Client : \/ UNCHANGED <<pc[c], reply[c]>>
                             \/ ~Fresh(c) /\ pc[c] # "dropping"
    PROVE  PlaceShape'
<1>1. /\ QueueOrder' /\ DirectOrder'
      /\ \A o, d : InQueue(o, d)' <=> InQueue(o, d)
      /\ \A c : InDirect(c)' <=> InDirect(c)
  BY SameQueue, SameDirect DEF PlaceShape
<1>2. ASSUME NEW c \in Client PROVE PlaceOf(c)'
  <2>1. InQueue("direct", c) \/ InDirect(c) \/ c \in batch => Fresh(c)
    BY DEF PlaceShape, PlaceOf
  <2>2. InQueue("drop", c) => pc[c] = "dropping"
    BY DEF PlaceShape, PlaceOf
  <2>3. Fresh(c) => Fresh(c)'
    BY DEF Fresh
  <2>4. /\ InQueue("direct", c)' <=> InQueue("direct", c)
        /\ InQueue("drop", c)' <=> InQueue("drop", c)
        /\ InDirect(c)' <=> InDirect(c)
    BY <1>1
  <2> QED BY <2>1, <2>2, <2>3, <2>4 DEF PlaceShape, PlaceOf, Fresh
<1>3. batch' # {} => worker' = "direct"
  BY DEF PlaceShape
<1> QED BY <1>1, <1>2, <1>3 DEF PlaceShape

\* A thread that has sent nothing, or not yet the last, sends the next command.
LEMMA PlacesSend ==
    ASSUME IInv, PlaceShape, NEW op \in Ops, NEW c \in Client, Send(op, c),
           UNCHANGED <<direct, batch, worker>>,
           \A d \in Client \ {c} : UNCHANGED <<pc[d], reply[d]>>,
           ~Fresh(c), pc[c] # "dropping",
           \A o : InQueue(o, c) => Rank(o) < Rank(op),
           op = "direct" /\ Accepts => Fresh(c)',
           op = "drop" /\ Accepts => pc'[c] = "dropping"
    PROVE  PlaceShape'
<1>1. /\ QueueOrder' /\ DirectOrder'
      /\ \A o, d : InQueue(o, d)' <=> InQueue(o, d) \/ (Accepts /\ o = op /\ d = c)
      /\ \A d : InDirect(d)' <=> InDirect(d)
  BY SendQueue, SendOrder, SameDirect DEF IInv, PlaceShape
<1>2. ASSUME NEW d \in Client PROVE PlaceOf(d)'
  <2>1. /\ InQueue("direct", d)' <=> InQueue("direct", d) \/ (Accepts /\ op = "direct" /\ d = c)
        /\ InQueue("drop", d)' <=> InQueue("drop", d) \/ (Accepts /\ op = "drop" /\ d = c)
        /\ InDirect(d)' <=> InDirect(d)
    BY <1>1
  <2>2. PlaceOf(d)
    BY DEF PlaceShape
  <2> QED BY <2>1, <2>2 DEF PlaceOf, Fresh
<1> QED BY <1>1, <1>2 DEF PlaceShape

\* The worker ends the direct iterations it holds, or has queued.
LEMMA PlacesEnd ==
    ASSUME PlaceShape, UNCHANGED commands, direct' \in {direct, <<>>},
           batch' = {} \/ UNCHANGED <<batch, worker>>, UNCHANGED pc,
           \A c \in Client : \/ reply'[c] = reply[c]
                             \/ c \in batch /\ batch' = {}
                             \/ InDirect(c) /\ direct' = <<>>
    PROVE  PlaceShape'
<1>1. /\ QueueOrder' /\ \A o, d : InQueue(o, d)' <=> InQueue(o, d)
  BY SameQueue DEF PlaceShape
<1>2. DirectOrder' /\ \A c : InDirect(c)' => InDirect(c) /\ direct' # <<>>
  BY SameDirect, NoDirect DEF PlaceShape, InDirect
<1>3. ASSUME NEW c \in Client PROVE PlaceOf(c)'
  <2>1. /\ InQueue("direct", c)' <=> InQueue("direct", c)
        /\ InQueue("drop", c)' <=> InQueue("drop", c)
        /\ InDirect(c)' => InDirect(c) /\ direct' # <<>>
        /\ c \in batch' => c \in batch /\ batch' # {}
    BY <1>1, <1>2
  <2>2. PlaceOf(c)
    BY DEF PlaceShape
  <2>3. reply'[c] = reply[c] \/ (c \in batch /\ batch' = {}) \/ (InDirect(c) /\ direct' = <<>>)
    OBVIOUS
  <2> QED BY <2>1, <2>2, <2>3 DEF PlaceOf, Fresh
<1>4. batch' # {} => worker' = "direct"
  BY DEF PlaceShape
<1> QED BY <1>1, <1>2, <1>3, <1>4 DEF PlaceShape

\* The worker takes a command: a session dropped lets its thread go on, a direct
\* iteration is queued, or answered.
LEMMA PlacesTake ==
    ASSUME IInv, PlaceShape, commands # <<>>, commands' = Tail(commands),
           NEW m, m = Head(commands),
           batch' = {} \/ UNCHANGED <<batch, worker>>,
           \A d \in Client \ {m.client} :
               UNCHANGED pc[d] /\ (reply'[d] = reply[d] \/ (InDirect(d) /\ direct' = <<>>)),
           m.op \in {"submit", "cancel"} => UNCHANGED <<pc[m.client], reply[m.client]>>,
           \/ m.op # "direct" /\ direct' \in {direct, <<>>}
           \/ m.op = "direct" /\ direct' = Append(direct, m.client) /\ UNCHANGED <<pc, reply>>
           \/ m.op = "direct" /\ direct' = direct /\ UNCHANGED pc
    PROVE  PlaceShape'
<1>1. /\ QueueOrder'
      /\ \A o, d : InQueue(o, d)' <=> InQueue(o, d) /\ ~(o = m.op /\ d = m.client)
      /\ m \in Message /\ InQueue(m.op, m.client)
      /\ \A o : InQueue(o, m.client)' => Rank(m.op) < Rank(o)
  BY TailQueue DEF IInv, PlaceShape
<1>2. m.client \in Client /\ m.op \in Ops
  BY <1>1 DEF Message
<1>3. m.op = "direct" => Fresh(m.client) /\ ~InDirect(m.client) /\ m.client \notin batch
  BY <1>1, <1>2 DEF PlaceShape, PlaceOf
<1>4. /\ DirectOrder'
      /\ \A d : InDirect(d)' => \/ InDirect(d) /\ direct' # <<>>
                                \/ d = m.client /\ m.op = "direct" /\ UNCHANGED <<pc, reply>>
  <2>1. CASE direct' = direct
    BY <2>1, SameDirect DEF PlaceShape, InDirect
  <2>2. CASE direct' = <<>>
    BY <2>2, NoDirect
  <2>3. CASE m.op = "direct" /\ direct' = Append(direct, m.client) /\ UNCHANGED <<pc, reply>>
    <3>1. DirectOrder' /\ \A d : InDirect(d)' <=> InDirect(d) \/ d = m.client
      BY <1>2, <1>3, <2>3, MoreDirect DEF IInv, PlaceShape
    <3>2. direct' # <<>>
      BY <1>2, <2>3 DEF IInv, DirectShape
    <3> QED BY <2>3, <3>1, <3>2
  <2> QED BY <2>1, <2>2, <2>3
<1>5. ASSUME NEW c \in Client PROVE PlaceOf(c)'
  <2>1. PlaceOf(c)
    BY DEF PlaceShape
  <2>2. /\ InQueue("direct", c)' <=> InQueue("direct", c) /\ ~(m.op = "direct" /\ c = m.client)
        /\ InQueue("drop", c)' <=> InQueue("drop", c) /\ ~(m.op = "drop" /\ c = m.client)
        /\ c \in batch' => c \in batch
    BY <1>1
  <2>3. CASE c # m.client
    BY <1>4, <2>1, <2>2, <2>3 DEF PlaceOf, Fresh
  <2>4. CASE c = m.client /\ m.op = "direct"
    <3>1. ~InQueue("direct", c)' /\ ~InQueue("drop", c)
      BY <1>3, <2>1, <2>2, <2>4 DEF PlaceOf, Fresh
    <3>2. c \notin batch' /\ (InDirect(c)' => Fresh(c)')
      BY <1>3, <1>4, <2>2, <2>4 DEF Fresh
    <3> QED BY <2>2, <3>1, <3>2 DEF PlaceOf
  <2>5. CASE c = m.client /\ m.op = "drop"
    <3>1. pc[c] = "dropping" /\ ~Fresh(c) /\ ~InQueue("drop", c)'
      BY <1>1, <2>1, <2>2, <2>5 DEF PlaceOf, Fresh
    <3>2. ~InQueue("direct", c)' /\ ~InDirect(c)' /\ c \notin batch'
      BY <1>4, <2>1, <2>2, <2>5, <3>1 DEF PlaceOf
    <3> QED BY <3>1, <3>2 DEF PlaceOf
  <2>6. CASE c = m.client /\ m.op \in {"submit", "cancel"}
    BY <1>4, <2>1, <2>2, <2>6 DEF PlaceOf, Fresh
  <2> QED BY <1>2, <2>3, <2>4, <2>5, <2>6 DEF Ops
<1>6. batch' # {} => worker' = "direct"
  BY DEF PlaceShape
<1> QED BY <1>1, <1>4, <1>5, <1>6 DEF PlaceShape

\* A thread leaves: it was not waiting for a direct iteration.
LEMMA LeaveHere ==
    ASSUME QueueShape, NEW c \in Client, Leave(c)
    PROVE  /\ \A d \in Client \ {c} : UNCHANGED <<pc[d], reply[d]>>
           /\ pc'[c] = "leaving" /\ reply'[c] = "none"
BY DEF QueueShape, Leave, Go

\* fail_all answers the direct iterations that are queued.
LEMMA FailAllReplies ==
    ASSUME FailAll, DirectShape
    PROVE  /\ direct' = <<>>
           /\ \A c \in Client : reply'[c] = reply[c] \/ InDirect(c)
<1>1. DOMAIN direct = 1 .. Len(direct)
  BY DEF DirectShape
<1> QED BY <1>1 DEF FailAll, InDirect

\* Every step keeps the places,
LEMMA PlaceKept == IInv /\ PlaceShape /\ [Next]_vars => PlaceShape'
<1> SUFFICES ASSUME IInv, PlaceShape, [Next]_vars PROVE PlaceShape'
  OBVIOUS
<1>a. \A op, c : InQueue(op, c) =>
              /\ op \in Ops /\ c \in Client
              /\ op = "submit" => pc[c] \notin {"idle", "prefilling"}
              /\ op \in {"cancel", "drop"} => Left(c)
              /\ op = "direct" => pc[c] # "idle"
  BY QueueBelongs DEF IInv
<1>b. pc \in [Client -> PC]
  BY DEF IInv, QueueShape
<1>c. \A c \in Client : InQueue("direct", c) \/ InDirect(c) \/ c \in batch => Fresh(c)
  BY DEF PlaceShape, PlaceOf
<1>d. \A c \in Client : InQueue("drop", c) => pc[c] = "dropping"
  BY DEF PlaceShape, PlaceOf
<1>1. ASSUME NEW c \in Client, Begin(c) PROVE PlaceShape'
  <2> DEFINE op == IF c \in Feature THEN "direct" ELSE "submit"
  <2>1. /\ Send(op, c) /\ op \in Ops /\ pc[c] = "idle" /\ reply' = reply
        /\ UNCHANGED <<direct, batch, worker>>
        /\ pc' = [pc EXCEPT ![c] = IF ~Accepts THEN "leaving"
                                   ELSE IF c \in Feature THEN "prefilling" ELSE "generating"]
    BY <1>1 DEF Begin, Go, workerVars, Ops
  <2>2. \A o : ~InQueue(o, c)
    BY <1>a, <2>1 DEF Ops, Left
  <2>3. \A d \in Client \ {c} : UNCHANGED <<pc[d], reply[d]>>
    BY <1>b, <2>1
  <2>4. ~Fresh(c) /\ pc[c] # "dropping"
    BY <2>1 DEF Fresh
  <2>5. op = "direct" /\ Accepts => Fresh(c)'
    BY <1>b, <2>1 DEF Fresh, IInv, DirectShape
  <2>6. op # "drop"
    OBVIOUS
  <2> HIDE DEF op
  <2> QED BY <2>1, <2>2, <2>3, <2>4, <2>5, <2>6, PlacesSend
<1>2. ASSUME NEW c \in Client, Resume(c) PROVE PlaceShape'
  <2>1. /\ pc[c] = "prefilling" /\ reply[c] = "ok" /\ ~Fresh(c)
        /\ UNCHANGED <<direct, batch, worker>>
    BY <1>2 DEF Resume, Fresh, workerVars
  <2>2. \A d \in Client \ {c} : UNCHANGED <<pc[d], reply[d]>>
    BY <1>2, <1>b, LeaveHere DEF Resume, Go, IInv
  <2>3. CASE UNCHANGED commands
    BY <2>1, <2>2, <2>3, PlacesKeep
  <2>4. CASE Send("submit", c)
    <3>1. \A o : InQueue(o, c) => Rank(o) < Rank("submit")
      BY <1>a, <1>c, <2>1 DEF Ops, Left
    <3>2. "submit" \in Ops /\ "submit" # "direct" /\ "submit" # "drop"
      BY DEF Ops
    <3> QED BY <2>1, <2>2, <2>4, <3>1, <3>2, PlacesSend
  <2> QED BY <1>2, <2>3, <2>4 DEF Resume
<1>3. ASSUME NEW c \in Client, PrefillFails(c) \/ TakeVerdict(c) PROVE PlaceShape'
  <2>1. /\ ~Fresh(c) /\ pc[c] # "dropping" /\ Leave(c)
        /\ UNCHANGED <<commands, direct, batch, worker>>
    BY <1>3 DEF PrefillFails, TakeVerdict, Fresh, workerVars
  <2> QED BY <2>1, LeaveHere, PlacesKeep DEF IInv
<1>4. ASSUME NEW c \in Client, Abandon(c) PROVE PlaceShape'
  <2>1. /\ pc[c] = "generating" /\ ~Fresh(c) /\ Leave(c) /\ Send("cancel", c)
        /\ UNCHANGED <<direct, batch, worker>>
    BY <1>4 DEF Abandon, Fresh, workerVars
  <2>2. \A d \in Client \ {c} : UNCHANGED <<pc[d], reply[d]>>
    BY <2>1, LeaveHere DEF IInv
  <2>3. \A o : InQueue(o, c) => o \in {"direct", "submit"}
    BY <1>a, <2>1 DEF Ops, Left
  <2>4. \A o : InQueue(o, c) => Rank(o) < Rank("cancel")
    BY <2>3 DEF Rank
  <2>5. "cancel" \in Ops /\ "cancel" # "direct" /\ "cancel" # "drop"
    BY DEF Ops
  <2> QED BY <2>1, <2>2, <2>4, <2>5, PlacesSend
<1>5. ASSUME NEW c \in Client, Cleanup(c) PROVE PlaceShape'
  <2>1. /\ pc[c] = "leaving" /\ ~Fresh(c) /\ Send("drop", c) /\ reply' = reply
        /\ UNCHANGED <<direct, batch, worker>>
        /\ pc' = [pc EXCEPT ![c] = IF Accepts THEN "dropping" ELSE "done"]
    BY <1>5 DEF Cleanup, Fresh, Go, workerVars
  <2>2. \A d \in Client \ {c} : UNCHANGED <<pc[d], reply[d]>>
    BY <1>b, <2>1
  <2>3. \A o : InQueue(o, c) => o \in {"direct", "submit", "cancel"}
    BY <1>a, <1>d, <2>1 DEF Ops
  <2>4. \A o : InQueue(o, c) => Rank(o) < Rank("drop")
    BY <2>3 DEF Rank
  <2>5. "drop" \in Ops /\ "drop" # "direct" /\ (Accepts => pc'[c] = "dropping")
    BY <1>b, <2>1 DEF Ops
  <2> QED BY <2>1, <2>2, <2>4, <2>5, PlacesSend
<1>6. CASE \E c \in Client : TakeToken(c)
  <2>1. UNCHANGED <<commands, direct, batch, worker, pc, reply>>
    BY <1>6 DEF TakeToken, workerVars
  <2> QED BY <2>1, PlacesKeep
<1>7. CASE ApplyControls \/ TakePlan \/ Setup \/ UNCHANGED vars
  <2>1. UNCHANGED <<commands, direct, batch, pc, reply>>
    BY <1>7 DEF ApplyControls, TakePlan, Setup, vars, workerVars, clientVars, threads
  <2>2. batch' = {} \/ UNCHANGED <<batch, worker>>
    <3>1. CASE UNCHANGED vars
      BY <3>1 DEF vars, workerVars
    <3>2. CASE worker # "direct"
      BY <2>1, <3>2 DEF PlaceShape
    <3> QED BY <1>7, <3>1, <3>2 DEF ApplyControls, TakePlan, Setup, InTurn, HasTurn
  <2> QED BY <2>1, <2>2, PlacesKeep
<1>8. CASE TakeDirect
  <2>1. UNCHANGED <<commands, pc, reply>> /\ worker' = "direct"
    BY <1>8 DEF TakeDirect, clientVars, threads
  <2>2. /\ DirectOrder'
        /\ \A c : InDirect(c)' => InDirect(c) /\ c \notin batch'
        /\ \A c \in batch' : InDirect(c)
    BY <1>8, BatchDirect DEF IInv, PlaceShape
  <2>3. QueueOrder' /\ \A o, d : InQueue(o, d)' <=> InQueue(o, d)
    BY <2>1, SameQueue DEF PlaceShape
  <2>4. ASSUME NEW c \in Client PROVE PlaceOf(c)'
    <3>1. PlaceOf(c)
      BY DEF PlaceShape
    <3>2. /\ InQueue("direct", c)' <=> InQueue("direct", c)
          /\ InQueue("drop", c)' <=> InQueue("drop", c)
      BY <2>3
    <3> QED BY <2>1, <2>2, <3>1, <3>2 DEF PlaceOf, Fresh
  <2> QED BY <2>1, <2>2, <2>3, <2>4 DEF PlaceShape
<1>9. CASE Run
  <2>1. UNCHANGED <<commands, pc, batch>> /\ worker = "run" /\ batch = {}
    BY <1>9 DEF Run, PlaceShape
  <2>2. CASE RunFails
    <3>1. direct' = <<>> /\ \A c \in Client : reply'[c] = reply[c] \/ InDirect(c)
      BY <2>2, FailAllReplies DEF RunFails, IInv
    <3> QED BY <2>1, <3>1, PlacesEnd
  <2>3. CASE RunSucceeds
    BY <2>1, <2>3, PlacesEnd DEF RunSucceeds
  <2> QED BY <1>9, <2>2, <2>3 DEF Run
<1>10. CASE RunDirect
  <2>1. UNCHANGED <<commands, direct, pc>> /\ batch' = {}
    BY <1>10 DEF RunDirect
  <2>2. \A c \in Client : c \notin batch => reply'[c] = reply[c]
    BY <1>10, DirectBatchShape DEF IInv, QueueShape
  <2> QED BY <2>1, <2>2, PlacesEnd
<1>11. CASE Panic
  <2>1. batch' = {} /\ direct' = <<>> /\ \A c \in Client : reply'[c] = reply[c] \/ InDirect(c)
    BY <1>11, FailAllReplies DEF Panic, IInv
  <2>2. CASE UNCHANGED <<commands, pc>>
    BY <2>1, <2>2, PlacesEnd
  <2>3. CASE /\ commands # <<>> /\ Head(commands).op = "drop" /\ commands' = Tail(commands)
             /\ Go(Head(commands).client, "done")
    <3>1. PICK m : m = Head(commands)
      OBVIOUS
    <3>2. \A d \in Client \ {m.client} : UNCHANGED pc[d]
      BY <1>b, <2>3, <3>1 DEF Go
    <3>3. m.op = "drop"
      BY <2>3, <3>1
    <3> QED BY <2>1, <2>3, <3>1, <3>2, <3>3, PlacesTake
  <2> QED BY <1>11, <2>2, <2>3 DEF Panic
<1>12. CASE WorkerGone
  <2>1. UNCHANGED <<direct, batch, reply>> /\ worker = "closing" /\ commands' = <<>>
    BY <1>12 DEF WorkerGone
  <2>2. \A c \in Client : pc'[c] = pc[c] \/ (InQueue("drop", c) /\ pc'[c] = "done")
    <3> DEFINE D == {commands[i].client : i \in {j \in DOMAIN commands : commands[j].op = "drop"}}
    <3>1. pc' = [c \in Client |-> IF c \in D THEN "done" ELSE pc[c]]
      BY <1>12 DEF WorkerGone
    <3>2. DOMAIN commands = 1 .. Len(commands)
      BY DEF IInv, QueueShape
    <3>3. \A c \in D : InQueue("drop", c)
      BY <3>2 DEF InQueue
    <3> HIDE DEF D
    <3> QED BY <3>1, <3>3
  <2>3. batch' = {}
    BY <2>1 DEF PlaceShape
  <2>4. QueueOrder' /\ DirectOrder' /\ (\A o, d : ~InQueue(o, d)') /\ \A c : InDirect(c)' <=> InDirect(c)
    BY <2>1, NoQueue, SameDirect DEF PlaceShape
  <2>5. ASSUME NEW c \in Client PROVE PlaceOf(c)'
    BY <1>d, <2>1, <2>2, <2>3, <2>4 DEF PlaceShape, PlaceOf, Fresh
  <2> QED BY <2>3, <2>4, <2>5 DEF PlaceShape
<1>13. CASE FailQueued
  <2>1. UNCHANGED <<direct, batch>> /\ worker = "panicked" /\ batch' = {}
    BY <1>13 DEF FailQueued, PlaceShape
  <2>2. CASE UNCHANGED <<commands, pc, reply>>
    BY <2>1, <2>2, PlacesKeep
  <2>3. CASE commands # <<>>
    <3>1. PICK m : m = Head(commands)
      OBVIOUS
    <3>2. /\ commands' = Tail(commands)
          /\ reply' = IF m.op = "direct" THEN [reply EXCEPT ![m.client] = "error"] ELSE reply
          /\ pc' = IF m.op = "drop" THEN [pc EXCEPT ![m.client] = "done"] ELSE pc
      BY <1>13, <2>3, <3>1 DEF FailQueued
    <3>3. \A d \in Client \ {m.client} : UNCHANGED <<pc[d], reply[d]>>
      BY <1>b, <3>2 DEF IInv, QueueShape
    <3>4. m.op # "drop" => UNCHANGED pc
      BY <3>2
    <3>5. m.op # "direct" => UNCHANGED reply
      BY <3>2
    <3> QED BY <2>1, <2>3, <3>1, <3>2, <3>3, <3>4, <3>5, PlacesTake
  <2> QED BY <1>13, <2>2, <2>3 DEF FailQueued
<1>14. CASE Handle
  <2>1. PICK m : m = Head(commands)
    OBVIOUS
  <2>2. commands # <<>> /\ commands' = Tail(commands) /\ UNCHANGED <<batch, worker, reply>>
    BY <1>14 DEF Handle
  <2>3. \/ m.op = "submit" /\ UNCHANGED <<pc, direct>>
        \/ m.op = "cancel" /\ UNCHANGED <<pc, direct>>
        \/ m.op = "direct" /\ direct' = Append(direct, m.client) /\ UNCHANGED pc
        \/ m.op = "drop" /\ pc' = [pc EXCEPT ![m.client] = "done"] /\ UNCHANGED direct
    BY <1>14, <2>1 DEF Handle, Go
  <2>4. \A d \in Client \ {m.client} : UNCHANGED pc[d]
    BY <1>b, <2>3
  <2> QED BY <2>1, <2>2, <2>3, <2>4, PlacesTake
<1> QED BY <1>1, <1>2, <1>3, <1>4, <1>5, <1>6, <1>7, <1>8, <1>9, <1>10, <1>11, <1>12, <1>13, <1>14
        DEF Next, WorkerStep, RequestStep

\* and at the start nothing is anywhere.
LEMMA PlaceInitially == Init => PlaceShape
BY DEF Init, PlaceShape, QueueOrder, DirectOrder, PlaceOf, InQueue, InDirect

-----------------------------------------------------------------------------
(* Threads, and what is on its way to them.                                    *)

Verdict == {"none", "complete", "error", "closed"}
Closed == {"panicked", "closing", "gone"}

\* Only a thread that generates has tokens and a verdict coming; a verdict is the
\* last of it, and what was submitted and not yet handled is untouched.
ThreadOf(c) ==
    /\ pc[c] # "generating" => inbox[c] = 0 /\ taken[c] = 0 /\ verdict[c] = "none"
    /\ pc[c] = "generating" /\ verdict[c] # "none" => c \notin requests /\ ~InQueue("submit", c)
    /\ pc[c] = "prefilling" => c \in Feature
    /\ InQueue("submit", c) =>
          /\ c \notin requests /\ ResumedTokens(c) < MaxTokens
          /\ pc[c] = "generating" => inbox[c] = 0 /\ taken[c] = ResumedTokens(c)

\* A thread that has left, none of whose commands was refused, leaves no request
\* but one whose cancellation is on its way, ahead of the drop of its session.
LaneOf(c) ==
    c \notin refused =>
        /\ Left(c) /\ (c \in requests \/ InQueue("submit", c)) => InQueue("cancel", c)
        /\ pc[c] = "done" => ~InQueue("cancel", c)

ThreadShape ==
    /\ inbox \in [Client -> Nat] /\ taken \in [Client -> Nat] /\ verdict \in [Client -> Verdict]
    /\ refused \subseteq Client
    /\ worker \in Closed => requests = {}
    /\ \A c \in Client : ThreadOf(c) /\ LaneOf(c)

\* The threads stay as they are when the worker ends requests, and says so.
LEMMA ThreadsKeep ==
    ASSUME ThreadShape, UNCHANGED <<commands, taken, refused, pc>>, requests' \subseteq requests,
           inbox' \in [Client -> Nat], verdict' \in [Client -> Verdict],
           worker' \in Closed => requests' = {},
           \A c \in Client : inbox'[c] = inbox[c] \/ (pc[c] = "generating" /\ c \in requests),
           \A c \in Client : \/ verdict'[c] = verdict[c]
                             \/ pc[c] = "generating" /\ c \in requests \ requests'
    PROVE  ThreadShape'
<1>1. \A o, d : InQueue(o, d)' <=> InQueue(o, d)
  BY SameQueue
<1>2. ASSUME NEW c \in Client PROVE ThreadOf(c)' /\ LaneOf(c)'
  <2>1. /\ InQueue("submit", c)' <=> InQueue("submit", c)
        /\ InQueue("cancel", c)' <=> InQueue("cancel", c)
    BY <1>1
  <2>2. ThreadOf(c) /\ LaneOf(c)
    BY DEF ThreadShape
  <2>3. inbox'[c] = inbox[c] \/ (pc[c] = "generating" /\ c \in requests)
    OBVIOUS
  <2>4. verdict'[c] = verdict[c] \/ (pc[c] = "generating" /\ c \in requests \ requests')
    OBVIOUS
  <2>5. ThreadOf(c)'
    BY <2>1, <2>2, <2>3, <2>4 DEF ThreadOf, ResumedTokens
  <2>6. LaneOf(c)'
    BY <2>1, <2>2 DEF LaneOf, Left
  <2> QED BY <2>5, <2>6
<1> QED BY <1>2 DEF ThreadShape

\* And when one of them goes on, sending a command or none.
LEMMA ThreadsGo ==
    ASSUME ThreadShape, NEW c \in Client, UNCHANGED <<requests, worker>>,
           refused \subseteq refused', refused' \subseteq Client,
           inbox' \in [Client -> Nat], taken' \in [Client -> Nat], verdict' \in [Client -> Verdict],
           \A d \in Client \ {c} : UNCHANGED <<pc[d], inbox[d], taken[d], verdict[d]>>,
           \A o, d : d # c => (InQueue(o, d)' <=> InQueue(o, d)),
           ThreadOf(c)', LaneOf(c)'
    PROVE  ThreadShape'
<1>1. ASSUME NEW d \in Client, d # c PROVE ThreadOf(d)' /\ LaneOf(d)'
  <2>1. /\ InQueue("submit", d)' <=> InQueue("submit", d)
        /\ InQueue("cancel", d)' <=> InQueue("cancel", d)
    BY <1>1
  <2>2. ThreadOf(d) /\ LaneOf(d)
    BY DEF ThreadShape
  <2>3. UNCHANGED <<pc[d], inbox[d], taken[d], verdict[d]>>
    BY <1>1
  <2>4. ThreadOf(d)'
    BY <2>1, <2>2, <2>3 DEF ThreadOf, ResumedTokens
  <2>5. LaneOf(d)'
    BY <2>1, <2>2, <2>3 DEF LaneOf, Left
  <2> QED BY <2>4, <2>5
<1> QED BY <1>1 DEF ThreadShape

\* A command that is refused marks its sender.
LEMMA SendRefused ==
    ASSUME NEW op, NEW c \in Client, Send(op, c)
    PROVE  /\ refused \subseteq refused' /\ refused' \subseteq refused \cup {c}
           /\ ~Accepts => c \in refused'
BY DEF Send

\* What a thread that leaves leaves behind.
LEMMA LeaveClears ==
    ASSUME QueueShape, ThreadShape, NEW c \in Client, Leave(c)
    PROVE  /\ \A d \in Client \ {c} : UNCHANGED <<pc[d], inbox[d], taken[d], verdict[d]>>
           /\ pc'[c] = "leaving" /\ inbox'[c] = 0 /\ taken'[c] = 0 /\ verdict'[c] = "none"
           /\ inbox' \in [Client -> Nat] /\ taken' \in [Client -> Nat]
           /\ verdict' \in [Client -> Verdict]
BY DEF QueueShape, ThreadShape, Leave, Go, Verdict

\* A thread with nothing in the worker's hands may leave.
LEMMA ThreadsLeave ==
    ASSUME QueueShape, ThreadShape, NEW c \in Client, Leave(c), UNCHANGED <<requests, worker>>,
           refused \subseteq refused', refused' \subseteq refused \cup {c},
           \A o, d : d # c => (InQueue(o, d)' <=> InQueue(o, d)),
           c \in refused' \/ InQueue("cancel", c)' \/ ~(c \in requests \/ InQueue("submit", c)'),
           InQueue("submit", c)' => c \notin requests /\ ResumedTokens(c) < MaxTokens
    PROVE  ThreadShape'
<1>1. /\ \A d \in Client \ {c} : UNCHANGED <<pc[d], inbox[d], taken[d], verdict[d]>>
      /\ pc'[c] = "leaving" /\ inbox'[c] = 0 /\ taken'[c] = 0 /\ verdict'[c] = "none"
      /\ inbox' \in [Client -> Nat] /\ taken' \in [Client -> Nat]
      /\ verdict' \in [Client -> Verdict]
  BY LeaveClears
<1>2. ThreadOf(c)'
  BY <1>1 DEF ThreadOf, ResumedTokens
<1>3. LaneOf(c)'
  BY <1>1 DEF LaneOf
<1> QED BY <1>1, <1>2, <1>3, ThreadsGo DEF ThreadShape

\* The worker takes a command.
LEMMA ThreadsTake ==
    ASSUME IInv, PlaceShape, ThreadShape, commands # <<>>, commands' = Tail(commands),
           NEW m, m = Head(commands), UNCHANGED <<inbox, taken, refused>>,
           verdict' \in [Client -> Verdict],
           worker' \in Closed => requests' = {},
           \A d \in Client \ {m.client} :
               /\ UNCHANGED pc[d]
               /\ \/ UNCHANGED verdict[d]
                  \/ pc[d] = "generating" /\ d \in requests \ requests',
           requests' \subseteq requests \cup {m.client},
           m.op # "drop" => UNCHANGED pc[m.client],
           m.op # "submit" => UNCHANGED verdict[m.client] /\ requests' \subseteq requests,
           m.op = "submit" => \/ UNCHANGED verdict[m.client]
                              \/ requests' \subseteq requests /\ pc[m.client] = "generating",
           m.op = "cancel" => m.client \notin requests',
           m.op = "drop" => pc'[m.client] = "done"
    PROVE  ThreadShape'
<1>1. /\ \A o, d : InQueue(o, d)' <=> InQueue(o, d) /\ ~(o = m.op /\ d = m.client)
      /\ m \in Message /\ InQueue(m.op, m.client)
      /\ \A o : InQueue(o, m.client)' => Rank(m.op) < Rank(o)
  BY TailQueue DEF IInv, PlaceShape
<1>2. m.client \in Client /\ m.op \in Ops
  BY <1>1 DEF Message
<1>3. ASSUME NEW c \in Client PROVE ThreadOf(c)' /\ LaneOf(c)'
  <2>1. ThreadOf(c) /\ LaneOf(c) /\ PlaceOf(c)
    BY DEF ThreadShape, PlaceShape
  <2>2. /\ InQueue("submit", c)' <=> InQueue("submit", c) /\ ~("submit" = m.op /\ c = m.client)
        /\ InQueue("cancel", c)' <=> InQueue("cancel", c) /\ ~("cancel" = m.op /\ c = m.client)
    BY <1>1
  <2>3. CASE c # m.client
    <3>1. /\ UNCHANGED pc[c] /\ (c \in requests' => c \in requests)
          /\ verdict'[c] = verdict[c] \/ (pc[c] = "generating" /\ c \in requests \ requests')
      BY <2>3
    <3>2. ThreadOf(c)'
      BY <2>1, <2>2, <2>3, <3>1 DEF ThreadOf, ResumedTokens
    <3>3. LaneOf(c)'
      BY <2>1, <2>2, <2>3, <3>1 DEF LaneOf, Left
    <3> QED BY <3>2, <3>3
  <2>4. CASE c = m.client /\ m.op = "submit"
    <3>1. /\ InQueue("submit", c) /\ ~InQueue("submit", c)' /\ UNCHANGED pc[c]
          /\ verdict'[c] = verdict[c] \/ (requests' \subseteq requests /\ pc[c] = "generating")
      BY <1>1, <2>2, <2>4
    <3>2. ThreadOf(c)'
      BY <2>1, <3>1 DEF ThreadOf, ResumedTokens
    <3>3. LaneOf(c)'
      BY <2>1, <2>2, <2>4, <3>1 DEF LaneOf, Left
    <3> QED BY <3>2, <3>3
  <2>5. CASE c = m.client /\ m.op = "cancel"
    <3>1. ~InQueue("submit", c)' /\ UNCHANGED <<pc[c], verdict[c]>> /\ c \notin requests'
      <4>1. ~(Rank("cancel") < Rank("submit"))
        BY DEF Rank
      <4> QED BY <1>1, <2>5, <4>1
    <3>2. ThreadOf(c)'
      BY <2>1, <2>2, <3>1 DEF ThreadOf, ResumedTokens
    <3>3. LaneOf(c)'
      BY <2>1, <2>2, <3>1 DEF LaneOf, Left
    <3> QED BY <3>2, <3>3
  <2>6. CASE c = m.client /\ m.op = "direct"
    <3>1. UNCHANGED <<pc[c], verdict[c]>> /\ requests' \subseteq requests
      BY <2>6
    <3>2. ThreadOf(c)'
      BY <2>1, <2>2, <2>6, <3>1 DEF ThreadOf, ResumedTokens
    <3>3. LaneOf(c)'
      BY <2>1, <2>2, <2>6, <3>1 DEF LaneOf, Left
    <3> QED BY <3>2, <3>3
  <2>7. CASE c = m.client /\ m.op = "drop"
    <3>1. ~InQueue("submit", c)' /\ ~InQueue("cancel", c)'
      <4>1. ~(Rank("drop") < Rank("submit")) /\ ~(Rank("drop") < Rank("cancel"))
        BY DEF Rank
      <4> QED BY <1>1, <2>7, <4>1
    <3>2. pc[c] = "dropping" /\ pc'[c] = "done" /\ UNCHANGED verdict[c]
      BY <1>1, <2>1, <2>7 DEF PlaceOf
    <3>3. ThreadOf(c)'
      BY <2>1, <3>1, <3>2 DEF ThreadOf
    <3>4. LaneOf(c)'
      BY <2>1, <2>2, <2>7, <3>1, <3>2 DEF LaneOf, Left
    <3> QED BY <3>3, <3>4
  <2> QED BY <1>2, <2>3, <2>4, <2>5, <2>6, <2>7 DEF Ops
<1> QED BY <1>3 DEF ThreadShape

\* Who is dismissed hears of it.
LEMMA DismissShape ==
    ASSUME ThreadShape, NEW S, NEW v \in Verdict, Dismiss(S, v)
    PROVE  /\ verdict' \in [Client -> Verdict] /\ requests' = requests \ S
           /\ \A c \in Client : verdict'[c] = verdict[c] \/ (pc[c] = "generating" /\ c \in S)
BY DEF ThreadShape, Dismiss, Forget, Listens

\* Every step keeps what is known of the threads,
LEMMA ThreadKept == IInv /\ PlaceShape /\ ThreadShape /\ [Next]_vars => ThreadShape'
<1> SUFFICES ASSUME IInv, PlaceShape, ThreadShape, [Next]_vars PROVE ThreadShape'
  OBVIOUS
<1>a. /\ pc \in [Client -> PC] /\ QueueShape
      /\ requests \subseteq Client /\ \A c \in requests : Begun(c)
      /\ stopped \subseteq requests /\ active \subseteq requests
      /\ DOMAIN plan \subseteq active
  BY DEF IInv, QueueShape, RequestShape, Tracked
<1>b. /\ inbox \in [Client -> Nat] /\ taken \in [Client -> Nat] /\ verdict \in [Client -> Verdict]
      /\ refused \subseteq Client
      /\ worker \in Closed => requests = {}
  BY DEF ThreadShape
<1>c. \A op, c : InQueue(op, c) =>
              /\ op \in Ops /\ c \in Client
              /\ op = "submit" => pc[c] \notin {"idle", "prefilling"}
              /\ op \in {"cancel", "drop"} => Left(c)
              /\ op = "direct" => pc[c] # "idle"
  BY QueueBelongs DEF IInv
<1>d. \A c \in Client : ThreadOf(c) /\ LaneOf(c)
  BY DEF ThreadShape
<1>1. ASSUME NEW c \in Client, Begin(c) PROVE ThreadShape'
  <2> DEFINE op == IF c \in Feature THEN "direct" ELSE "submit"
  <2>1. /\ Send(op, c) /\ op \in Ops /\ pc[c] = "idle"
        /\ UNCHANGED <<requests, worker, inbox, taken, verdict>>
        /\ pc' = [pc EXCEPT ![c] = IF ~Accepts THEN "leaving"
                                   ELSE IF c \in Feature THEN "prefilling" ELSE "generating"]
    BY <1>1 DEF Begin, Go, workerVars, Ops
  <2>2. c \notin requests /\ ~InQueue("submit", c) /\ ~InQueue("cancel", c)
    BY <1>a, <1>c, <2>1 DEF Begun, Left
  <2>3. inbox[c] = 0 /\ taken[c] = 0 /\ verdict[c] = "none"
    BY <1>d, <2>1 DEF ThreadOf
  <2>4. refused \subseteq refused' /\ refused' \subseteq refused \cup {c} /\ (~Accepts => c \in refused')
    BY <2>1, SendRefused
  <2>5. \A o, d : InQueue(o, d)' <=> InQueue(o, d) \/ (Accepts /\ o = op /\ d = c)
    <3> HIDE DEF op
    <3> QED BY <1>a, <2>1, SendQueue
  <2>6. /\ InQueue("submit", c)' => Accepts /\ c \notin Feature
        /\ ~InQueue("cancel", c)'
    <3>1. InQueue("submit", c)' <=> InQueue("submit", c) \/ (Accepts /\ "submit" = op)
      BY <2>5
    <3>2. InQueue("cancel", c)' <=> InQueue("cancel", c) \/ (Accepts /\ "cancel" = op)
      BY <2>5
    <3> QED BY <2>2, <3>1, <3>2
  <2>7. /\ pc'[c] = IF ~Accepts THEN "leaving" ELSE IF c \in Feature THEN "prefilling" ELSE "generating"
        /\ \A d \in Client \ {c} : UNCHANGED pc[d]
    BY <1>a, <2>1
  <2>8. ThreadOf(c)'
    BY <2>1, <2>2, <2>3, <2>6, <2>7, SizeAssumption DEF ThreadOf, ResumedTokens
  <2>9. LaneOf(c)'
    BY <2>2, <2>4, <2>6, <2>7 DEF LaneOf, Left
  <2>10. \A d \in Client \ {c} : UNCHANGED <<pc[d], inbox[d], taken[d], verdict[d]>>
    BY <2>1, <2>7
  <2>11. \A o, d : d # c => (InQueue(o, d)' <=> InQueue(o, d))
    BY <2>5
  <2> HIDE DEF op
  <2> QED BY <1>b, <2>1, <2>4, <2>8, <2>9, <2>10, <2>11, ThreadsGo
<1>2. ASSUME NEW c \in Client, Resume(c) PROVE ThreadShape'
  <2>1. /\ pc[c] = "prefilling" /\ UNCHANGED <<requests, worker>>
    BY <1>2 DEF Resume, workerVars
  <2>2. c \notin requests /\ ~InQueue("submit", c) /\ ~InQueue("cancel", c) /\ c \in Feature
    BY <1>a, <1>c, <1>d, <2>1 DEF Begun, Left, ThreadOf
  <2>3. CASE Leave(c) /\ UNCHANGED <<commands, refused>>
    <3>1. \A o, d : InQueue(o, d)' <=> InQueue(o, d)
      BY <2>3, SameQueue
    <3> QED BY <1>a, <2>1, <2>2, <2>3, <3>1, ThreadsLeave
  <2>4. CASE Send("submit", c) /\ MaxTokens > 1
    <3>1. \A o, d : InQueue(o, d)' <=> InQueue(o, d) \/ (Accepts /\ o = "submit" /\ d = c)
      BY <1>a, <2>4, SendQueue DEF Ops
    <3>2. refused \subseteq refused' /\ refused' \subseteq refused \cup {c} /\ (~Accepts => c \in refused')
      BY <2>4, SendRefused
    <3>3. ResumedTokens(c) = 1
      BY <2>2 DEF ResumedTokens
    <3>4. CASE ~Accepts
      <4>1. Leave(c) \/ (Accepts /\ pc' = pc)
        BY <1>2, <2>4, <3>4 DEF Resume
      <4> QED BY <1>a, <2>1, <2>2, <3>1, <3>2, <3>4, <4>1, ThreadsLeave
    <3>5. CASE Accepts /\ Leave(c) /\ UNCHANGED commands
      <4>1. ~InQueue("submit", c)' /\ \A o, d : InQueue(o, d)' <=> InQueue(o, d)
        BY <2>2, <3>5, SameQueue
      <4> QED BY <1>a, <2>1, <2>2, <3>2, <3>5, <4>1, ThreadsLeave
    <3>6. CASE /\ Go(c, "generating") /\ taken' = [taken EXCEPT ![c] = 1]
               /\ UNCHANGED <<inbox, verdict, reply, stopped>>
      <4>1. /\ pc'[c] = "generating" /\ taken'[c] = 1 /\ taken' \in [Client -> Nat]
            /\ \A d \in Client \ {c} : UNCHANGED <<pc[d], inbox[d], taken[d], verdict[d]>>
        BY <1>a, <1>b, <3>6 DEF Go
      <4>2. inbox[c] = 0 /\ verdict[c] = "none"
        BY <1>d, <2>1 DEF ThreadOf
      <4>3. ThreadOf(c)'
        BY <2>1, <2>2, <2>4, <3>3, <3>6, <4>1, <4>2 DEF ThreadOf, ResumedTokens
      <4>4. LaneOf(c)'
        BY <4>1 DEF LaneOf, Left
      <4>5. \A o, d : d # c => (InQueue(o, d)' <=> InQueue(o, d))
        BY <3>1
      <4> QED BY <1>b, <2>1, <3>2, <3>6, <4>1, <4>3, <4>4, <4>5, ThreadsGo
    <3> QED BY <1>2, <2>4, <3>4, <3>5, <3>6 DEF Resume
  <2> QED BY <1>2, <2>3, <2>4 DEF Resume
<1>3. ASSUME NEW c \in Client, PrefillFails(c) \/ TakeVerdict(c) PROVE ThreadShape'
  <2>1. Leave(c) /\ UNCHANGED <<commands, refused, requests, worker>>
    BY <1>3 DEF PrefillFails, TakeVerdict, workerVars
  <2>2. c \notin requests /\ ~InQueue("submit", c)
    BY <1>a, <1>c, <1>d, <1>3 DEF PrefillFails, TakeVerdict, Begun, ThreadOf
  <2>3. \A o, d : InQueue(o, d)' <=> InQueue(o, d)
    BY <2>1, SameQueue
  <2> QED BY <1>a, <2>1, <2>2, <2>3, ThreadsLeave
<1>4. ASSUME NEW c \in Client, Abandon(c) PROVE ThreadShape'
  <2>1. pc[c] = "generating" /\ Leave(c) /\ Send("cancel", c) /\ UNCHANGED <<requests, worker>>
    BY <1>4 DEF Abandon, workerVars
  <2>2. \A o, d : InQueue(o, d)' <=> InQueue(o, d) \/ (Accepts /\ o = "cancel" /\ d = c)
    BY <1>a, <2>1, SendQueue DEF Ops
  <2>3. refused \subseteq refused' /\ refused' \subseteq refused \cup {c} /\ (~Accepts => c \in refused')
    BY <2>1, SendRefused
  <2>4. InQueue("submit", c)' => InQueue("submit", c)
    BY <2>2
  <2>5. InQueue("submit", c)' => c \notin requests /\ ResumedTokens(c) < MaxTokens
    BY <1>d, <2>4 DEF ThreadOf
  <2>6. \A o, d : d # c => (InQueue(o, d)' <=> InQueue(o, d))
    BY <2>2
  <2>7. c \in refused' \/ InQueue("cancel", c)'
    BY <2>2, <2>3
  <2> QED BY <1>a, <2>1, <2>3, <2>5, <2>6, <2>7, ThreadsLeave
<1>5. ASSUME NEW c \in Client, Cleanup(c) PROVE ThreadShape'
  <2>1. /\ pc[c] = "leaving" /\ Send("drop", c)
        /\ UNCHANGED <<requests, worker, inbox, taken, verdict>>
        /\ pc' = [pc EXCEPT ![c] = IF Accepts THEN "dropping" ELSE "done"]
    BY <1>5 DEF Cleanup, Go, workerVars
  <2>2. \A o, d : InQueue(o, d)' <=> InQueue(o, d) \/ (Accepts /\ o = "drop" /\ d = c)
    BY <1>a, <2>1, SendQueue DEF Ops
  <2>3. refused \subseteq refused' /\ refused' \subseteq refused \cup {c} /\ (~Accepts => c \in refused')
    BY <2>1, SendRefused
  <2>4. pc'[c] = (IF Accepts THEN "dropping" ELSE "done") /\ \A d \in Client \ {c} : UNCHANGED pc[d]
    BY <1>a, <2>1
  <2>5. /\ InQueue("submit", c)' <=> InQueue("submit", c)
        /\ InQueue("cancel", c)' <=> InQueue("cancel", c)
    BY <2>2
  <2>6. ThreadOf(c)'
    BY <1>d, <2>1, <2>4, <2>5 DEF ThreadOf, ResumedTokens
  <2>7. LaneOf(c)'
    BY <1>d, <2>1, <2>3, <2>4, <2>5 DEF LaneOf, Left
  <2>8. \A o, d : d # c => (InQueue(o, d)' <=> InQueue(o, d))
    BY <2>2
  <2>9. \A d \in Client \ {c} : UNCHANGED <<pc[d], inbox[d], taken[d], verdict[d]>>
    BY <2>1, <2>4
  <2> QED BY <1>b, <2>1, <2>3, <2>6, <2>7, <2>8, <2>9, ThreadsGo
<1>6. ASSUME NEW c \in Client, TakeToken(c) PROVE ThreadShape'
  <2>1. /\ pc[c] = "generating" /\ inbox[c] > 0 /\ UNCHANGED <<commands, requests, worker, pc, verdict, refused>>
        /\ inbox' = [inbox EXCEPT ![c] = @ - 1] /\ taken' = [taken EXCEPT ![c] = @ + 1]
    BY <1>6 DEF TakeToken, workerVars
  <2>2. inbox[c] \in Nat /\ taken[c] \in Nat
    BY <1>b
  <2>3. inbox[c] - 1 \in Nat /\ taken[c] + 1 \in Nat
    BY <2>1, <2>2
  <2>4. /\ inbox' \in [Client -> Nat] /\ taken' \in [Client -> Nat]
        /\ \A d \in Client \ {c} : UNCHANGED <<pc[d], inbox[d], taken[d], verdict[d]>>
    BY <1>b, <2>1, <2>3
  <2>5. \A o, d : InQueue(o, d)' <=> InQueue(o, d)
    BY <2>1, SameQueue
  <2>6. ~InQueue("submit", c)
    BY <1>d, <2>1, <2>2 DEF ThreadOf
  <2>7. /\ ~InQueue("submit", c)' /\ (InQueue("cancel", c)' <=> InQueue("cancel", c))
    BY <2>5, <2>6
  <2>8. ThreadOf(c)'
    BY <1>d, <2>1, <2>7 DEF ThreadOf
  <2>9. LaneOf(c)'
    BY <2>1 DEF LaneOf, Left
  <2> QED BY <1>b, <2>1, <2>4, <2>5, <2>8, <2>9, ThreadsGo
<1>7. CASE TakePlan \/ TakeDirect \/ RunDirect \/ UNCHANGED vars
  <2>1. UNCHANGED <<commands, taken, refused, pc, requests, inbox, verdict>>
    BY <1>7 DEF TakePlan, TakeDirect, RunDirect, vars, workerVars, clientVars, threads
  <2>2. worker' \in Closed => requests' = {}
    BY <1>b, <1>7 DEF TakePlan, TakeDirect, RunDirect, vars, workerVars, Closed
  <2> QED BY <1>b, <2>1, <2>2, ThreadsKeep
<1>8. CASE ApplyControls
  <2>1. Dismiss(stopped, "complete") /\ UNCHANGED <<commands, taken, refused, pc, inbox>> /\ worker' = "turn"
    BY <1>8 DEF ApplyControls
  <2>2. /\ verdict' \in [Client -> Verdict] /\ requests' = requests \ stopped
        /\ \A c \in Client : verdict'[c] = verdict[c] \/ (pc[c] = "generating" /\ c \in stopped)
    BY <2>1, DismissShape DEF Verdict
  <2>3. \A c \in Client : verdict'[c] = verdict[c] \/ (pc[c] = "generating" /\ c \in requests \ requests')
    BY <1>a, <2>2
  <2> QED BY <1>b, <2>1, <2>2, <2>3, ThreadsKeep DEF Closed
<1>9. CASE Setup
  <2>1. UNCHANGED <<commands, taken, refused, pc, inbox>> /\ worker' \notin Closed
    BY <1>9 DEF Setup, Closed
  <2>2. PICK failed \in SUBSET DOMAIN plan :
          /\ requests' = requests \ failed
          /\ verdict' = [c \in Client |-> IF c \in failed /\ Listens(c) THEN "error" ELSE verdict[c]]
    BY <1>9 DEF Setup
  <2>3. verdict' \in [Client -> Verdict]
    BY <1>b, <2>2 DEF Verdict
  <2>4. \A c \in Client : verdict'[c] = verdict[c] \/ (pc[c] = "generating" /\ c \in requests \ requests')
    BY <1>a, <2>2 DEF Listens
  <2> QED BY <1>b, <2>1, <2>2, <2>3, <2>4, ThreadsKeep
<1>10. CASE Run
  <2>1. UNCHANGED <<commands, taken, refused, pc>> /\ worker' \notin Closed
    BY <1>10 DEF Run, Closed
  <2>2. CASE RunFails
    <3>1. Dismiss(requests, "error") /\ UNCHANGED inbox
      BY <2>2 DEF RunFails, FailAll
    <3>2. /\ verdict' \in [Client -> Verdict] /\ requests' = requests \ requests
          /\ \A c \in Client : verdict'[c] = verdict[c] \/ (pc[c] = "generating" /\ c \in requests)
      BY <3>1, DismissShape DEF Verdict
    <3>3. \A c \in Client : verdict'[c] = verdict[c] \/ (pc[c] = "generating" /\ c \in requests \ requests')
      BY <3>2
    <3> QED BY <1>b, <2>1, <3>1, <3>2, <3>3, ThreadsKeep
  <2>3. CASE RunSucceeds
    <3>1. PICK tokens, over, failed :
                /\ tokens \subseteq Sampled(plan) /\ over \subseteq Sampled(plan)
                /\ Forget(over)
                /\ inbox' = [c \in Client |-> IF c \in tokens /\ Listens(c)
                                              THEN inbox[c] + 1 ELSE inbox[c]]
                /\ verdict' = [c \in Client |->
                                IF c \notin over \/ ~Listens(c) THEN verdict[c]
                                ELSE IF c \in failed THEN "error" ELSE "complete"]
      <4>1. PICK sample :
             LET tokens == {c \in Sampled(plan) : sample[c] = "token"}
                 over == Ended(plan, sample) \cup {c \in tokens : ~Listens(c)}
                 failed == {c \in Sampled(plan) : sample[c] = "missing"}
             IN /\ Forget(over)
                /\ inbox' = [c \in Client |-> IF c \in tokens /\ Listens(c)
                                              THEN inbox[c] + 1 ELSE inbox[c]]
                /\ verdict' = [c \in Client |->
                                IF c \notin over \/ ~Listens(c) THEN verdict[c]
                                ELSE IF c \in failed THEN "error" ELSE "complete"]
        BY <2>3 DEF RunSucceeds
      <4> DEFINE tokens == {c \in Sampled(plan) : sample[c] = "token"}
                 over == Ended(plan, sample) \cup {c \in tokens : ~Listens(c)}
                 failed == {c \in Sampled(plan) : sample[c] = "missing"}
      <4>2. tokens \subseteq Sampled(plan) /\ over \subseteq Sampled(plan)
        BY DEF Ended
      <4>3. /\ Forget(over)
            /\ inbox' = [c \in Client |-> IF c \in tokens /\ Listens(c)
                                          THEN inbox[c] + 1 ELSE inbox[c]]
            /\ verdict' = [c \in Client |->
                            IF c \notin over \/ ~Listens(c) THEN verdict[c]
                            ELSE IF c \in failed THEN "error" ELSE "complete"]
        BY <4>1
      <4> HIDE DEF tokens, over, failed
      <4> QED BY <4>2, <4>3
    <3>2. Sampled(plan) \subseteq requests /\ requests' = requests \ over
      BY <1>a, <3>1 DEF Sampled, Forget
    <3>3. inbox' \in [Client -> Nat] /\ verdict' \in [Client -> Verdict]
      BY <1>b, <3>1 DEF Verdict
    <3>4. \A c \in Client : inbox'[c] = inbox[c] \/ (pc[c] = "generating" /\ c \in requests)
      BY <3>1, <3>2 DEF Listens
    <3>5. \A c \in Client : verdict'[c] = verdict[c] \/ (pc[c] = "generating" /\ c \in requests \ requests')
      BY <3>1, <3>2 DEF Listens
    <3> QED BY <2>1, <3>2, <3>3, <3>4, <3>5, ThreadsKeep
  <2> QED BY <1>10, <2>2, <2>3 DEF Run
<1>11. CASE Panic
  <2>1. Dismiss(requests, "error") /\ UNCHANGED <<inbox, taken, refused>>
    BY <1>11 DEF Panic, FailAll
  <2>2. /\ verdict' \in [Client -> Verdict] /\ requests' = {}
        /\ \A c \in Client : verdict'[c] = verdict[c] \/ (pc[c] = "generating" /\ c \in requests \ requests')
    BY <2>1, DismissShape DEF Verdict
  <2>3. CASE UNCHANGED <<commands, pc>>
    BY <1>b, <2>1, <2>2, <2>3, ThreadsKeep
  <2>4. CASE /\ commands # <<>> /\ Head(commands).op = "drop" /\ commands' = Tail(commands)
             /\ Go(Head(commands).client, "done")
    <3>1. PICK m : m = Head(commands)
      OBVIOUS
    <3>2. m \in Message /\ InQueue(m.op, m.client) /\ m.op = "drop"
      BY <2>4, <3>1, TailQueue DEF IInv, PlaceShape
    <3>3. m.client \in Client /\ pc[m.client] = "dropping"
      BY <3>2 DEF Message, PlaceShape, PlaceOf
    <3>4. pc'[m.client] = "done" /\ \A d \in Client \ {m.client} : UNCHANGED pc[d]
      BY <1>a, <2>4, <3>1, <3>3 DEF Go
    <3>5. UNCHANGED verdict[m.client] /\ m.op # "submit" /\ m.op # "cancel"
      BY <2>2, <3>2, <3>3
    <3> QED BY <2>1, <2>2, <2>4, <3>1, <3>2, <3>4, <3>5, ThreadsTake
  <2> QED BY <1>11, <2>3, <2>4 DEF Panic
<1>12. CASE FailQueued
  <2>1. UNCHANGED <<requests, inbox, taken, refused>> /\ worker = "panicked" /\ requests = {}
    BY <1>b, <1>12 DEF FailQueued, Closed
  <2>2. CASE UNCHANGED <<commands, pc, verdict>>
    BY <1>b, <2>1, <2>2, ThreadsKeep
  <2>3. CASE commands # <<>>
    <3>1. PICK m : m = Head(commands)
      OBVIOUS
    <3>2. /\ commands' = Tail(commands)
          /\ verdict' = IF m.op = "submit" /\ Listens(m.client)
                        THEN [verdict EXCEPT ![m.client] = "error"] ELSE verdict
          /\ pc' = IF m.op = "drop" THEN [pc EXCEPT ![m.client] = "done"] ELSE pc
      BY <1>12, <2>3, <3>1 DEF FailQueued
    <3>3. m \in Message
      BY <2>3, <3>1, <3>2, TailQueue DEF IInv, PlaceShape
    <3>4. m.client \in Client
      BY <3>3 DEF Message
    <3>5. /\ verdict' \in [Client -> Verdict]
          /\ \A d \in Client \ {m.client} : UNCHANGED <<pc[d], verdict[d]>>
          /\ m.op # "drop" => UNCHANGED pc[m.client]
          /\ m.op # "submit" => UNCHANGED verdict[m.client]
          /\ m.op = "submit" => UNCHANGED verdict[m.client] \/ pc[m.client] = "generating"
          /\ m.op = "drop" => pc'[m.client] = "done"
      BY <1>a, <1>b, <3>2, <3>4 DEF Verdict, Listens
    <3> QED BY <2>1, <2>3, <3>1, <3>2, <3>5, ThreadsTake
  <2> QED BY <1>12, <2>2, <2>3 DEF FailQueued
<1>13. CASE WorkerGone
  <2>1. UNCHANGED <<requests, inbox, taken, refused>> /\ commands' = <<>> /\ requests = {}
    BY <1>b, <1>13 DEF WorkerGone, Closed
  <2>2. /\ \A c \in Client : pc'[c] = pc[c] \/ (InQueue("drop", c) /\ pc'[c] = "done")
        /\ \A c \in Client : verdict'[c] = verdict[c] \/ pc[c] = "generating"
        /\ verdict' \in [Client -> Verdict]
    <3> DEFINE Q(op) == {commands[i].client : i \in {j \in DOMAIN commands : commands[j].op = op}}
    <3>1. /\ verdict' = [c \in Client |-> IF c \in Q("submit") /\ Listens(c)
                                          THEN "closed" ELSE verdict[c]]
          /\ pc' = [c \in Client |-> IF c \in Q("drop") THEN "done" ELSE pc[c]]
      BY <1>13 DEF WorkerGone
    <3>2. DOMAIN commands = 1 .. Len(commands)
      BY DEF IInv, QueueShape
    <3>3. \A c \in Q("drop") : InQueue("drop", c)
      BY <3>2 DEF InQueue
    <3> HIDE DEF Q
    <3> QED BY <1>b, <3>1, <3>3 DEF Verdict, Listens
  <2>3. \A o, d : ~InQueue(o, d)'
    BY <2>1, NoQueue
  <2>4. ASSUME NEW c \in Client PROVE ThreadOf(c)' /\ LaneOf(c)'
    <3>1. ThreadOf(c) /\ ~InQueue("submit", c)' /\ ~InQueue("cancel", c)'
      BY <1>d, <2>3
    <3>2. pc'[c] = pc[c] \/ (pc[c] = "dropping" /\ pc'[c] = "done")
      BY <2>2 DEF PlaceShape, PlaceOf
    <3>3. ThreadOf(c)'
      BY <2>1, <2>2, <3>1, <3>2 DEF ThreadOf
    <3>4. LaneOf(c)'
      BY <2>1, <3>1 DEF LaneOf
    <3> QED BY <3>3, <3>4
  <2> QED BY <1>b, <2>1, <2>2, <2>4 DEF ThreadShape
<1>14. CASE Handle
  <2>1. PICK m : m = Head(commands)
    OBVIOUS
  <2>2. /\ commands # <<>> /\ commands' = Tail(commands) /\ UNCHANGED <<inbox, taken, refused>>
        /\ worker' \notin Closed
    BY <1>14 DEF Handle, Closed
  <2>3. m \in Message
    BY <2>1, <2>2, TailQueue DEF IInv, PlaceShape
  <2>4. m.client \in Client
    BY <2>3 DEF Message
  <2>5. CASE m.op = "submit" /\ Submit(m.client) /\ UNCHANGED pc
    <3>1. \/ /\ verdict' = [verdict EXCEPT ![m.client] = IF Listens(m.client) THEN "error" ELSE @]
             /\ requests' = requests
          \/ verdict' = verdict /\ requests' = requests \cup {m.client}
      BY <2>5 DEF Submit
    <3>2. /\ verdict' \in [Client -> Verdict] /\ requests' \subseteq requests \cup {m.client}
          /\ \A d \in Client \ {m.client} : UNCHANGED <<pc[d], verdict[d]>>
          /\ UNCHANGED verdict[m.client] \/ (requests' \subseteq requests /\ pc[m.client] = "generating")
      BY <1>b, <2>4, <2>5, <3>1 DEF Verdict, Listens
    <3> QED BY <2>1, <2>2, <2>5, <3>2, ThreadsTake
  <2>6. CASE m.op = "cancel" /\ Cancel(m.client) /\ UNCHANGED <<pc, verdict>>
    <3>1. requests' = requests \ {m.client}
      BY <2>6 DEF Cancel, Forget
    <3> QED BY <1>b, <2>1, <2>2, <2>6, <3>1, ThreadsTake
  <2>7. CASE m.op = "direct" /\ UNCHANGED <<pc, verdict, requests>>
    BY <1>b, <2>1, <2>2, <2>7, ThreadsTake
  <2>8. CASE m.op = "drop" /\ UNCHANGED <<verdict, requests>> /\ Go(m.client, "done")
    <3>1. pc'[m.client] = "done" /\ \A d \in Client \ {m.client} : UNCHANGED pc[d]
      BY <1>a, <2>4, <2>8 DEF Go
    <3> QED BY <1>b, <2>1, <2>2, <2>8, <3>1, ThreadsTake
  <2> QED BY <1>14, <2>1, <2>5, <2>6, <2>7, <2>8 DEF Handle
<1> QED BY <1>1, <1>2, <1>3, <1>4, <1>5, <1>6, <1>7, <1>8, <1>9, <1>10, <1>11, <1>12, <1>13, <1>14
        DEF Next, WorkerStep, RequestStep

\* who are all idle at the start.
LEMMA ThreadInitially == Init => ThreadShape
BY DEF Init, ThreadShape, ThreadOf, LaneOf, InQueue, Verdict, Left, Closed

-----------------------------------------------------------------------------
(* Lanes.                                                                      *)

\* Sessions are made for the worker's requests and its direct iterations.
LEMMA SessionsGrow ==
    ASSUME IInv, [Next]_vars
    PROVE  DOMAIN sessions' \subseteq DOMAIN sessions \cup requests \cup batch
<1>a. DOMAIN plan \subseteq requests
  BY DEF IInv, RequestShape, Tracked
<1>b. \A f, S : DOMAIN Without(f, S) \subseteq DOMAIN f /\ DOMAIN Dropped(S, f) \subseteq DOMAIN f
  BY DEF Dropped, Without, Restricted
<1>c. \A S, n : DOMAIN Evaluated(S, n) = DOMAIN sessions \cup S
  BY DEF Evaluated
<1>1. ASSUME NEW c \in Client, Begin(c) \/ RequestStep(c) \/ Abandon(c) PROVE UNCHANGED sessions
  BY <1>1 DEF Begin, RequestStep, Resume, PrefillFails, TakeToken, TakeVerdict, Cleanup,
              Abandon, workerVars
<1>2. CASE UNCHANGED sessions
  BY <1>2
<1>3. CASE Handle
  <2>1. UNCHANGED sessions \/ \E S : sessions' = Without(sessions, S)
    BY <1>3 DEF Handle, Cancel
  <2> QED BY <1>b, <2>1
<1>4. CASE ApplyControls
  BY <1>b, <1>4 DEF ApplyControls
<1>5. CASE Setup
  <2>1. PICK ready \in SUBSET (DOMAIN plan \ configured) :
            sessions' = [c \in DOMAIN sessions \cup ready |-> IF c \in ready THEN 0 ELSE sessions[c]]
    BY <1>5 DEF Setup
  <2> QED BY <1>a, <2>1
<1>6. CASE Run
  <2>1. CASE RunFails
    <3> DEFINE Rows(S) == Evaluated(S, [c \in DOMAIN plan |-> plan[c].count])
    <3>1. \/ sessions' = Dropped(requests, sessions)
          \/ \E S \in SUBSET DOMAIN plan : sessions' = Dropped(requests, Rows(S))
      BY <2>1 DEF RunFails
    <3>2. \A S : DOMAIN Rows(S) = DOMAIN sessions \cup S
      BY <1>c
    <3> HIDE DEF Rows
    <3>3. \E f : DOMAIN f \subseteq DOMAIN sessions \cup requests /\ sessions' = Dropped(requests, f)
      BY <1>a, <3>1, <3>2
    <3> QED BY <1>b, <3>3
  <2>2. CASE RunSucceeds
    <3> DEFINE Rows == Evaluated(DOMAIN plan, [c \in DOMAIN plan |-> plan[c].count])
    <3>1. \E S : sessions' = Dropped(S, Rows)
      BY <2>2 DEF RunSucceeds
    <3>2. DOMAIN Rows = DOMAIN sessions \cup DOMAIN plan
      BY <1>c
    <3> HIDE DEF Rows
    <3> QED BY <1>a, <1>b, <3>1, <3>2
  <2> QED BY <1>6, <2>1, <2>2 DEF Run
<1>7. CASE RunDirect
  <2> DEFINE Rows(S) == Evaluated(S, Prompt)
  <2>1. UNCHANGED sessions \/ \E S \in SUBSET batch : sessions' = Rows(S)
    BY <1>7 DEF RunDirect
  <2>2. \A S : DOMAIN Rows(S) = DOMAIN sessions \cup S
    BY <1>c
  <2> HIDE DEF Rows
  <2> QED BY <2>1, <2>2
<1>8. CASE Panic
  BY <1>b, <1>8 DEF Panic
<1>9. CASE TakeDirect \/ TakePlan \/ FailQueued \/ WorkerGone \/ UNCHANGED vars
  BY <1>9 DEF TakeDirect, TakePlan, FailQueued, WorkerGone, vars, workerVars
<1> QED BY <1>1, <1>2, <1>3, <1>4, <1>5, <1>6, <1>7, <1>8, <1>9 DEF Next, WorkerStep

\* A thread is done once its session is dropped, or its last command refused.
LEMMA WhoIsDone ==
    ASSUME IInv, [Next]_vars, worker' \notin Closed
    PROVE  /\ worker \notin Closed /\ refused \subseteq refused'
           /\ \A c \in Client : pc'[c] = "done" =>
                 pc[c] = "done" \/ c \in refused' \/ c \notin DOMAIN sessions'
<1>a. pc \in [Client -> PC]
  BY DEF IInv, QueueShape
<1>1. ASSUME NEW c \in Client, Begin(c) \/ RequestStep(c) \/ Abandon(c)
      PROVE  /\ UNCHANGED worker
             /\ \A d \in Client : pc'[d] = "done" => pc[d] = "done" \/ d \in refused'
    <2>1. UNCHANGED worker
      BY <1>1 DEF Begin, RequestStep, Resume, PrefillFails, TakeToken, TakeVerdict, Cleanup,
                  Abandon, workerVars
    <2>2. CASE Cleanup(c)
      BY <1>a, <2>1, <2>2 DEF Cleanup, Go, Send
    <2>3. CASE Begin(c)
      BY <1>a, <2>1, <2>3 DEF Begin, Go
    <2>4. CASE Resume(c) \/ PrefillFails(c) \/ TakeToken(c) \/ TakeVerdict(c) \/ Abandon(c)
      BY <1>a, <2>1, <2>4 DEF Resume, PrefillFails, TakeToken, TakeVerdict, Abandon, Leave, Go
    <2> QED BY <1>1, <2>2, <2>3, <2>4 DEF RequestStep
<1>2. ASSUME NEW c \in Client, Begin(c) \/ RequestStep(c) \/ Abandon(c)
      PROVE  refused \subseteq refused'
  BY <1>2 DEF Begin, RequestStep, Resume, PrefillFails, TakeToken, TakeVerdict, Cleanup,
              Abandon, Send
<1>3. CASE Handle
  <2>1. UNCHANGED <<worker, refused>>
    BY <1>3 DEF Handle
  <2>2. PICK c : \/ UNCHANGED pc
                 \/ pc' = [pc EXCEPT ![c] = "done"] /\ sessions' = Without(sessions, {c})
    BY <1>3 DEF Handle, Go
  <2>3. c \notin DOMAIN Without(sessions, {c})
    BY DEF Without, Restricted
  <2> QED BY <1>a, <2>1, <2>2, <2>3
<1>4. CASE ApplyControls \/ TakeDirect \/ TakePlan \/ Setup \/ Run \/ RunDirect \/ UNCHANGED vars
  <2>1. UNCHANGED <<pc, refused>>
    BY <1>4
       DEF ApplyControls, TakeDirect, TakePlan, Setup, Run, RunDirect, vars, clientVars, threads
  <2>2. worker \notin Closed
    BY <1>4 DEF ApplyControls, TakeDirect, TakePlan, Setup, Run, RunDirect, InTurn, HasTurn,
                Closed, vars, workerVars
  <2> QED BY <2>1, <2>2
<1>5. ~Panic /\ ~FailQueued /\ ~WorkerGone
  BY DEF Panic, FailQueued, WorkerGone, Closed
<1> QED BY <1>1, <1>2, <1>3, <1>4, <1>5 DEF Next, WorkerStep

\* Every step keeps the lanes of those who are done free.
LEMMA LanesKept == IInv /\ PlaceShape /\ ThreadShape /\ LanesComeBack /\ [Next]_vars => LanesComeBack'
<1> SUFFICES ASSUME IInv, PlaceShape, ThreadShape, LanesComeBack, [Next]_vars, worker' \notin Closed,
                    NEW c \in Client, pc'[c] = "done", c \notin refused'
             PROVE  c \notin DOMAIN sessions'
  BY DEF LanesComeBack, Closed
<1>1. /\ worker \notin Closed /\ c \notin refused
      /\ pc[c] = "done" \/ c \notin DOMAIN sessions'
  BY WhoIsDone
<1>2. CASE pc[c] = "done"
  <2>1. c \notin requests
    BY <1>1, <1>2 DEF ThreadShape, LaneOf, Left
  <2>2. c \notin batch
    BY <1>2 DEF PlaceShape, PlaceOf, Fresh
  <2>3. c \notin DOMAIN sessions
    BY <1>1, <1>2 DEF LanesComeBack, Closed
  <2> QED BY <2>1, <2>2, <2>3, SessionsGrow
<1> QED BY <1>1, <1>2

-----------------------------------------------------------------------------
(* Rows and cursors.                                                           *)

\* The cursor of a request is behind what it has to replay, and there once it
\* generates; a planned row starts where the cursor was and ends where it is.
RowOf(c) ==
    /\ plan[c].start \in Nat /\ plan[c].count \in Nat \ {0}
    /\ cursor[c] = plan[c].start + plan[c].count
    /\ plan[c].decode => /\ plan[c].start = Replay(c) /\ plan[c].count = 1
                         /\ plan[c].sample /\ generated[c] > 0
    /\ ~plan[c].decode => /\ cursor[c] <= Replay(c) /\ generated[c] = 0
                          /\ plan[c].sample <=> cursor[c] = Replay(c)

RestOf(c) == cursor[c] <= Replay(c) /\ (generated[c] > 0 => cursor[c] = Replay(c))

NumberOf(c) ==
    /\ c \notin requests => generated[c] = 0 /\ cursor[c] = 0
    /\ c \in requests =>
          /\ generated[c] < MaxTokens
          /\ IF c \in DOMAIN plan THEN RowOf(c) ELSE RestOf(c)
          /\ c \notin configured =>
                generated[c] = 0 /\ (IF c \in DOMAIN plan THEN plan[c].start ELSE cursor[c]) = 0

NumberShape ==
    /\ generated \in [Client -> Nat] /\ cursor \in [Client -> Nat]
    /\ worker = "run" => DOMAIN plan \subseteq configured
    /\ \A c \in Client : NumberOf(c)

\* What there is to replay.
LEMMA ReplayIs ==
    ASSUME NEW c \in Client, generated[c] \in Nat
    PROVE  /\ Replay(c) = IF generated[c] = 0 THEN Prompt[c] ELSE Prompt[c] + (generated[c] - 1)
           /\ Replay(c) \in Nat /\ Prompt[c] \in Nat \ {0}
<1>1. Prompt[c] \in Nat \ {0}
  BY SizeAssumption
<1>2. Max({generated[c] - 1, 0}) = IF generated[c] - 1 >= 0 THEN generated[c] - 1 ELSE 0
  <2> DEFINE n == generated[c] - 1
  <2>1. n \in Int /\ 0 \in Int
    OBVIOUS
  <2> HIDE DEF n
  <2>2. Max({n, 0}) = IF n >= 0 THEN n ELSE 0
    BY <2>1, MaxOfTwo
  <2> QED BY <2>2 DEF n
<1>3. Replay(c) = Prompt[c] + (IF generated[c] - 1 >= 0 THEN generated[c] - 1 ELSE 0)
  BY <1>2 DEF Replay
<1> QED BY <1>1, <1>3

\* A row of a plan for the sequences S: it fits the sequence.
Fitting(r, c) ==
    /\ r.start = cursor[c] /\ r.count \in Nat \ {0}
    /\ r.decode => r.start = Replay(c) /\ r.count = 1 /\ r.sample /\ generated[c] > 0
    /\ ~r.decode => /\ r.start + r.count <= Replay(c) /\ generated[c] = 0
                    /\ r.sample <=> r.start + r.count = Replay(c)

\* A prefill row is a chunk of what is left to replay.
LEMMA PrefillRowsFit ==
    ASSUME NEW S \in SUBSET Client, NEW room \in Int,
           generated \in [Client -> Nat], cursor \in [Client -> Nat],
           \A c \in S : RestOf(c)
    PROVE  \A c \in DOMAIN PrefillRows(S, room) : Fitting(PrefillRows(S, room)[c], c)
<1> DEFINE Wants == [c \in S |-> Min({Chunk, Replay(c) - cursor[c]})]
           Ahead(c) == {d \in S : InPrefill(d) /\ d < c}
           Room(c) == room - SumFunctionOnSet(Wants, Ahead(c))
           Size(c) == Min({Wants[c], Room(c)})
           Row(c) == [start |-> cursor[c], count |-> Size(c), decode |-> FALSE,
                      sample |-> cursor[c] + Size(c) = Replay(c) /\ generated[c] = 0]
<1>1. \A c \in S : Replay(c) \in Nat /\ cursor[c] \in Nat /\ generated[c] \in Nat
  BY ReplayIs
<1>2. ASSUME NEW c \in S
      PROVE  /\ Wants[c] \in Int
             /\ InPrefill(c) => Wants[c] >= 1 /\ Wants[c] <= Replay(c) - cursor[c]
  <2>1. Chunk \in Nat \ {0} /\ Replay(c) - cursor[c] \in Int
    BY <1>1, SizeAssumption
  <2>2. Wants[c] = IF Chunk <= Replay(c) - cursor[c] THEN Chunk ELSE Replay(c) - cursor[c]
    <3>1. Wants[c] = Min({Chunk, Replay(c) - cursor[c]})
      OBVIOUS
    <3> DEFINE n == Replay(c) - cursor[c]
    <3>2. Min({Chunk, n}) = IF Chunk <= n THEN Chunk ELSE n
      <4> HIDE DEF n
      <4> QED BY <2>1, MinOfTwo DEF n
    <3> QED BY <3>1, <3>2
  <2> HIDE DEF Wants
  <2> QED BY <1>1, <2>1, <2>2 DEF InPrefill
<1>3. ASSUME NEW c \in S PROVE Room(c) \in Int
  <2>1. IsFiniteSet(Ahead(c))
    BY ClientAssumption, FS_Subset
  <2>2. \A d \in Ahead(c) : Wants[d] \in Int
    BY <1>2
  <2>3. SumFunctionOnSet(Wants, Ahead(c)) \in Int
    <3> HIDE DEF Wants, Ahead
    <3> QED BY <2>1, <2>2, SumIsInt
  <2> HIDE DEF Wants, Ahead
  <2> QED BY <2>3
<1>4. ASSUME NEW c \in DOMAIN PrefillRows(S, room)
      PROVE  c \in S /\ InPrefill(c) /\ Room(c) > 0 /\ PrefillRows(S, room)[c] = Row(c)
  BY <1>4 DEF PrefillRows
<1> SUFFICES ASSUME NEW c \in DOMAIN PrefillRows(S, room) PROVE Fitting(Row(c), c)
  <2> HIDE DEF Row
  <2> QED BY <1>4
<1>5. c \in S /\ InPrefill(c) /\ Room(c) > 0
  BY <1>4
<1>6. /\ Wants[c] \in Int /\ Room(c) \in Int /\ Wants[c] >= 1 /\ Wants[c] <= Replay(c) - cursor[c]
  BY <1>2, <1>3, <1>5
<1>7. Size(c) = IF Wants[c] <= Room(c) THEN Wants[c] ELSE Room(c)
  <2> DEFINE w == Wants[c]
             r == Room(c)
  <2>1. w \in Int /\ r \in Int
    BY <1>6
  <2> HIDE DEF w, r
  <2>2. Min({w, r}) = IF w <= r THEN w ELSE r
    BY <2>1, MinOfTwo
  <2> QED BY <2>2 DEF w, r
<1> HIDE DEF Wants, Room, Size
<1>8. Size(c) \in Nat \ {0} /\ Size(c) <= Replay(c) - cursor[c]
  BY <1>1, <1>5, <1>6, <1>7
<1>9. generated[c] = 0
  BY <1>1, <1>5 DEF RestOf, InPrefill
<1>10. cursor[c] + Size(c) <= Replay(c)
  BY <1>1, <1>5, <1>8
<1> QED BY <1>8, <1>9, <1>10 DEF Fitting

\* A decode row is the last token.
LEMMA DecodeRowsFit ==
    ASSUME NEW S \in SUBSET Client,
           generated \in [Client -> Nat], cursor \in [Client -> Nat],
           \A c \in S : RestOf(c)
    PROVE  \A c \in DOMAIN DecodeRows(S) : Fitting(DecodeRows(S)[c], c)
<1> SUFFICES ASSUME NEW c \in DOMAIN DecodeRows(S) PROVE Fitting(DecodeRows(S)[c], c)
  OBVIOUS
<1>1. /\ c \in S /\ Decoding(c)
      /\ DecodeRows(S)[c] = [start |-> Replay(c), count |-> 1, decode |-> TRUE, sample |-> TRUE]
  BY DEF DecodeRows
<1>2. generated[c] > 0 /\ cursor[c] = Replay(c)
  BY <1>1 DEF Decoding, RestOf
<1> QED BY <1>1, <1>2 DEF Fitting

\* Every row of a plan fits its sequence.
LEMMA PlanFits ==
    ASSUME NEW S \in SUBSET Client,
           generated \in [Client -> Nat], cursor \in [Client -> Nat],
           \A c \in S : RestOf(c)
    PROVE  \A c \in DOMAIN Plan(S) : Fitting(Plan(S)[c], c)
<1>1. \A room \in Int : \A c \in DOMAIN PrefillRows(S, room) : Fitting(PrefillRows(S, room)[c], c)
  BY PrefillRowsFit
<1>2. \A c \in DOMAIN DecodeRows(S) : Fitting(DecodeRows(S)[c], c)
  BY DecodeRowsFit
<1> DEFINE decode == DecodeRows(S)
           room == Budget - Cardinality(DOMAIN decode)
<1>3. room \in Int /\ Budget \in Int
  <2>1. DOMAIN decode \subseteq Client
    BY DEF DecodeRows
  <2>2. Cardinality(DOMAIN decode) \in Nat
    BY <2>1, ClientAssumption, FS_Subset, FS_CardinalityType
  <2> QED BY <2>2, SizeAssumption
<1>4. CASE Mixes(S)
  <2>1. Plan(S) = Union(decode, PrefillRows(S, room))
    BY <1>4 DEF Plan
  <2> DEFINE prefill == PrefillRows(S, room)
  <2>2. \A c \in DOMAIN prefill : Fitting(prefill[c], c)
    BY <1>1, <1>3
  <2> HIDE DEF decode, prefill, room
  <2>3. \A c \in DOMAIN Union(decode, prefill) :
            \/ c \in DOMAIN decode /\ Union(decode, prefill)[c] = decode[c]
            \/ c \in DOMAIN prefill /\ Union(decode, prefill)[c] = prefill[c]
    BY DEF Union
  <2>4. \A c \in DOMAIN decode : Fitting(decode[c], c)
    BY <1>2 DEF decode
  <2>5. Plan(S) = Union(decode, prefill)
    BY <2>1 DEF prefill
  <2> QED BY <2>2, <2>3, <2>4, <2>5
<1>5. CASE ~Mixes(S) /\ PrefillPhase(S)
  <2>1. Plan(S) = PrefillRows(S, Budget)
    BY <1>5 DEF Plan
  <2> QED BY <1>1, <1>3, <2>1
<1>6. CASE ~Mixes(S) /\ ~PrefillPhase(S)
  <2>1. Plan(S) = DecodeRows(S)
    BY <1>6 DEF Plan
  <2> QED BY <1>2, <2>1
<1> QED BY <1>4, <1>5, <1>6

\* The numbers stay what they are,
LEMMA NumbersSame ==
    ASSUME NumberShape, UNCHANGED <<generated, cursor, requests, configured, plan>>,
           worker' = "run" => worker = "run"
    PROVE  NumberShape'
<1>1. ASSUME NEW c \in Client PROVE NumberOf(c)'
  <2>1. NumberOf(c)
    BY DEF NumberShape
  <2> QED BY <2>1 DEF NumberOf, RowOf, RestOf, Replay
<1> QED BY <1>1 DEF NumberShape

\* also when requests end,
LEMMA NumbersEnd ==
    ASSUME NumberShape, NEW S, Removed(S, generated), requests' = requests \ S,
           \A c \in requests' : c \notin configured' => c \notin configured,
           \A c \in requests' : /\ c \in DOMAIN plan' <=> c \in DOMAIN plan
                                /\ c \in DOMAIN plan' => plan'[c] = plan[c],
           worker' = "run" => DOMAIN plan' \subseteq configured'
    PROVE  NumberShape'
<1>1. /\ generated' = [c \in Client |-> IF c \in S THEN 0 ELSE generated[c]]
      /\ cursor' = [c \in Client |-> IF c \in S THEN 0 ELSE cursor[c]]
  BY DEF Removed
<1>2. generated' \in [Client -> Nat] /\ cursor' \in [Client -> Nat]
  BY <1>1 DEF NumberShape
<1>3. ASSUME NEW c \in Client PROVE NumberOf(c)'
  <2>1. NumberOf(c)
    BY DEF NumberShape
  <2>2. CASE c \in S
    BY <1>1, <2>2 DEF NumberOf
  <2>3. CASE c \notin S /\ c \notin requests
    BY <1>1, <2>1, <2>3 DEF NumberOf
  <2>4. CASE c \notin S /\ c \in requests
    <3>1. generated'[c] = generated[c] /\ cursor'[c] = cursor[c] /\ c \in requests'
      BY <1>1, <2>4
    <3>2. (RowOf(c) /\ c \in DOMAIN plan => RowOf(c)') /\ (RestOf(c) => RestOf(c)')
      BY <3>1 DEF RowOf, RestOf, Replay
    <3> QED BY <2>1, <2>4, <3>1, <3>2 DEF NumberOf
  <2> QED BY <2>2, <2>3, <2>4
<1> QED BY <1>2, <1>3 DEF NumberShape

\* one is submitted,
LEMMA NumbersSubmit ==
    ASSUME NumberShape, RequestShape, Tracked, NEW c \in Client, Submit(c),
           ResumedTokens(c) < MaxTokens, UNCHANGED <<plan, worker>>
    PROVE  NumberShape'
<1>1. CASE UNCHANGED <<engine, requests, configured>>
  BY <1>1, NumbersSame DEF engine
<1>2. CASE /\ c \notin Known /\ requests' = requests \cup {c}
           /\ configured' = configured \cup (IF RuntimeConfigured(c) THEN {c} ELSE {})
           /\ generated' = [generated EXCEPT ![c] = ResumedTokens(c)]
           /\ cursor' = [cursor EXCEPT ![c] = ResumedCursor(c)]
  <2>1. c \notin requests /\ c \notin DOMAIN plan
    BY <1>2 DEF RequestShape, Tracked, Known
  <2>2. /\ ResumedTokens(c) \in Nat /\ ResumedCursor(c) \in Nat /\ Prompt[c] \in Nat \ {0}
        /\ IF c \in Feature THEN ResumedTokens(c) = 1 /\ ResumedCursor(c) = Prompt[c]
                            ELSE ResumedTokens(c) = 0 /\ ResumedCursor(c) = 0
    BY SizeAssumption DEF ResumedTokens, ResumedCursor
  <2>3. /\ generated' \in [Client -> Nat] /\ cursor' \in [Client -> Nat]
        /\ generated'[c] = ResumedTokens(c) /\ cursor'[c] = ResumedCursor(c)
        /\ \A d \in Client \ {c} : generated'[d] = generated[d] /\ cursor'[d] = cursor[d]
    BY <1>2, <2>2 DEF NumberShape
  <2>4. ASSUME NEW d \in Client PROVE NumberOf(d)'
    <3>1. CASE d # c
      <4>1. NumberOf(d)
        BY DEF NumberShape
      <4>2. generated'[d] = generated[d] /\ cursor'[d] = cursor[d]
        BY <2>3, <3>1
      <4>3. (RowOf(d) => RowOf(d)') /\ (RestOf(d) => RestOf(d)')
        BY <4>2 DEF RowOf, RestOf, Replay
      <4>4. (d \in requests' <=> d \in requests) /\ (d \in configured' <=> d \in configured)
        BY <1>2, <3>1
      <4> QED BY <4>1, <4>2, <4>3, <4>4 DEF NumberOf
    <3>2. CASE d = c
      <4>1. Replay(c)' = IF generated'[c] = 0 THEN Prompt[c] ELSE Prompt[c] + (generated'[c] - 1)
        <5>1. Max({generated'[c] - 1, 0}) = IF generated'[c] - 1 >= 0 THEN generated'[c] - 1 ELSE 0
          <6> DEFINE n == generated'[c] - 1
          <6>1. n \in Int /\ 0 \in Int
            BY <2>3
          <6> HIDE DEF n
          <6>2. Max({n, 0}) = IF n >= 0 THEN n ELSE 0
            BY <6>1, MaxOfTwo
          <6> QED BY <6>2 DEF n
        <5> QED BY <2>2, <2>3, <5>1 DEF Replay
      <4>2. RestOf(c)'
        BY <2>2, <2>3, <4>1 DEF RestOf
      <4>3. c \notin configured' => generated'[c] = 0 /\ cursor'[c] = 0
        BY <1>2, <2>2, <2>3 DEF RuntimeConfigured
      <4> QED BY <1>2, <2>1, <2>2, <2>3, <3>2, <4>2, <4>3 DEF NumberOf
    <3> QED BY <3>1, <3>2
  <2>5. worker' = "run" => DOMAIN plan' \subseteq configured'
    BY <1>2 DEF NumberShape
  <2> QED BY <2>3, <2>4, <2>5 DEF NumberShape
<1> QED BY <1>1, <1>2 DEF Submit

\* an iteration is planned,
LEMMA NumbersPlan ==
    ASSUME NumberShape, IInv, TakePlan
    PROVE  NumberShape'
<1>1. PICK S \in SUBSET waiting : PlanIteration(S) /\ plan' = Plan(active \cup S)
  BY DEF TakePlan
<1>2. /\ UNCHANGED <<requests, configured>> /\ DOMAIN plan = {}
      /\ worker' = "run" => DOMAIN plan' \subseteq configured
  <2>1. DOMAIN plan = {}
    BY DEF TakePlan, InTurn, HasTurn, IInv, RequestShape
  <2> QED BY <2>1 DEF TakePlan
<1>3. /\ UNCHANGED generated
      /\ cursor' = [c \in Client |-> IF c \in DOMAIN plan' THEN plan'[c].start + plan'[c].count
                                                           ELSE cursor[c]]
  BY <1>1 DEF PlanIteration
<1>4. active \cup S \subseteq requests /\ requests \subseteq Client
  BY DEF IInv, RequestShape, Tracked
<1>5. \A c \in active \cup S : RestOf(c)
  BY <1>2, <1>4 DEF NumberShape, NumberOf
<1>6. \A c \in DOMAIN plan' : Fitting(plan'[c], c) /\ c \in requests
  BY <1>1, <1>4, <1>5, PlanFits, PlanShape DEF NumberShape
<1>7. ASSUME NEW c \in Client
      PROVE  cursor'[c] \in Nat /\ NumberOf(c)'
  <2>1. NumberOf(c) /\ generated[c] \in Nat /\ cursor[c] \in Nat
    BY DEF NumberShape
  <2>2. CASE c \notin DOMAIN plan'
    <3>1. cursor'[c] = cursor[c] /\ generated'[c] = generated[c]
      BY <1>3, <2>2
    <3>2. RestOf(c) => RestOf(c)'
      BY <3>1 DEF RestOf, Replay
    <3> QED BY <1>2, <2>1, <2>2, <3>1, <3>2 DEF NumberOf
  <2>3. CASE c \in DOMAIN plan'
    <3>1. Fitting(plan'[c], c) /\ c \in requests /\ cursor'[c] = plan'[c].start + plan'[c].count
      BY <1>3, <1>6, <2>3
    <3>2. Replay(c)' = Replay(c) /\ generated'[c] = generated[c]
      BY <1>3 DEF Replay
    <3>3. plan'[c].start \in Nat /\ plan'[c].count \in Nat \ {0}
      BY <2>1, <3>1 DEF Fitting
    <3>4. RowOf(c)'
      BY <2>3, <3>1, <3>2, <3>3 DEF RowOf, Fitting
    <3>5. c \notin configured => generated[c] = 0 /\ plan'[c].start = 0
      BY <1>2, <2>1, <3>1 DEF NumberOf, Fitting
    <3>6. cursor'[c] \in Nat
      BY <3>1, <3>3
    <3> QED BY <1>2, <2>1, <2>3, <3>1, <3>2, <3>4, <3>5, <3>6 DEF NumberOf
  <2> QED BY <2>2, <2>3
<1>8. generated' \in [Client -> Nat] /\ cursor' \in [Client -> Nat]
  <2>1. cursor' = [c \in Client |-> cursor'[c]]
    BY <1>3
  <2> QED BY <1>3, <1>7, <2>1 DEF NumberShape
<1> QED BY <1>2, <1>7, <1>8 DEF NumberShape

\* An iteration gives each sampled row that goes on a token, to a thread that
\* listens, and moves the sessions by what was planned.
Rows == Evaluated(DOMAIN plan, [c \in DOMAIN plan |-> plan[c].count])

LEMMA RunEffect ==
    ASSUME NumberShape, inbox \in [Client -> Nat], RunSucceeds
    PROVE  \E over \in SUBSET Sampled(plan) :
              /\ requests' = requests \ over /\ configured' = configured \ over
              /\ sessions' = Dropped(over, Rows)
              /\ \A c \in Client \cap over :
                    /\ generated'[c] = 0 /\ cursor'[c] = 0
                    /\ inbox'[c] = inbox[c] \/ (inbox'[c] = inbox[c] + 1 /\ Listens(c))
              /\ \A c \in Client \ over :
                    /\ cursor'[c] = cursor[c]
                    /\ c \in Sampled(plan) => /\ generated'[c] = generated[c] + 1
                                              /\ generated[c] + 1 < MaxTokens
                                              /\ inbox'[c] = inbox[c] + 1 /\ Listens(c)
                    /\ c \notin Sampled(plan) => generated'[c] = generated[c] /\ inbox'[c] = inbox[c]
              /\ generated' \in [Client -> Nat] /\ cursor' \in [Client -> Nat]
              /\ inbox' \in [Client -> Nat]
<1>1. PICK sample :
             LET tokens == {c \in Sampled(plan) : sample[c] = "token"}
                 over == Ended(plan, sample) \cup {c \in tokens : ~Listens(c)}
             IN /\ Removed(over, Generated(plan, sample))
                /\ Forget(over)
                /\ sessions' = Dropped(over, Rows)
                /\ inbox' = [c \in Client |-> IF c \in tokens /\ Listens(c)
                                              THEN inbox[c] + 1 ELSE inbox[c]]
  BY DEF RunSucceeds, Rows
<1> DEFINE tokens == {c \in Sampled(plan) : sample[c] = "token"}
           over == Ended(plan, sample) \cup {c \in tokens : ~Listens(c)}
           count == Generated(plan, sample)
<1>2. /\ Removed(over, count) /\ Forget(over) /\ sessions' = Dropped(over, Rows)
      /\ inbox' = [c \in Client |-> IF c \in tokens /\ Listens(c) THEN inbox[c] + 1 ELSE inbox[c]]
  BY <1>1
<1>3. over \in SUBSET Sampled(plan)
  BY DEF Ended
<1>4. \A c \in Sampled(plan) \ over : c \in tokens /\ Listens(c) /\ ~(generated[c] + 1 >= MaxTokens)
  BY DEF Ended
<1>5. ASSUME NEW c \in Client
      PROVE  count[c] = IF c \in tokens THEN generated[c] + 1 ELSE generated[c]
  BY DEF Generated
<1>6. count \in [Client -> Nat]
  BY <1>5 DEF Generated, NumberShape
<1>7. tokens \subseteq Sampled(plan)
  OBVIOUS
<1> HIDE DEF tokens, over, count
<1>8. /\ generated' = [c \in Client |-> IF c \in over THEN 0 ELSE count[c]]
      /\ cursor' = [c \in Client |-> IF c \in over THEN 0 ELSE cursor[c]]
  BY <1>2 DEF Removed
<1>9. /\ generated' \in [Client -> Nat] /\ cursor' \in [Client -> Nat] /\ inbox' \in [Client -> Nat]
  BY <1>2, <1>6, <1>8 DEF NumberShape
<1>10. requests' = requests \ over /\ configured' = configured \ over
  BY <1>2 DEF Forget
<1>11. ASSUME NEW c \in Client \cap over
       PROVE  /\ generated'[c] = 0 /\ cursor'[c] = 0
              /\ inbox'[c] = inbox[c] \/ (inbox'[c] = inbox[c] + 1 /\ Listens(c))
  BY <1>2, <1>8
<1>12. ASSUME NEW c \in Client \ over
       PROVE  /\ cursor'[c] = cursor[c]
              /\ c \in Sampled(plan) => /\ generated'[c] = generated[c] + 1
                                        /\ generated[c] + 1 < MaxTokens
                                        /\ inbox'[c] = inbox[c] + 1 /\ Listens(c)
              /\ c \notin Sampled(plan) => generated'[c] = generated[c] /\ inbox'[c] = inbox[c]
  <2>1. cursor'[c] = cursor[c] /\ generated'[c] = count[c]
    BY <1>8
  <2>2. CASE c \in Sampled(plan)
    <3>1. c \in tokens /\ Listens(c) /\ generated[c] \in Nat /\ MaxTokens \in Nat
      BY <1>4, <2>2, SizeAssumption DEF NumberShape
    <3>2. generated[c] + 1 < MaxTokens
      BY <1>4, <2>2, <3>1
    <3> QED BY <1>2, <1>5, <2>1, <2>2, <3>1, <3>2
  <2>3. CASE c \notin Sampled(plan)
    BY <1>2, <1>5, <1>7, <2>1, <2>3
  <2> QED BY <2>2, <2>3
<1> QED BY <1>2, <1>3, <1>9, <1>10, <1>11, <1>12

\* or runs.
LEMMA NumbersRun ==
    ASSUME NumberShape, RequestShape, Tracked, inbox \in [Client -> Nat],
           worker = "run", RunSucceeds, plan' = <<>>, worker' = "drain"
    PROVE  NumberShape'
<1>1. PICK over \in SUBSET Sampled(plan) :
              /\ requests' = requests \ over /\ configured' = configured \ over
              /\ \A c \in Client \cap over : generated'[c] = 0 /\ cursor'[c] = 0
              /\ \A c \in Client \ over :
                    /\ cursor'[c] = cursor[c]
                    /\ c \in Sampled(plan) => /\ generated'[c] = generated[c] + 1
                                              /\ generated[c] + 1 < MaxTokens
                    /\ c \notin Sampled(plan) => generated'[c] = generated[c]
              /\ generated' \in [Client -> Nat] /\ cursor' \in [Client -> Nat]
  <2>1. PICK over \in SUBSET Sampled(plan) :
              /\ requests' = requests \ over /\ configured' = configured \ over
              /\ sessions' = Dropped(over, Rows)
              /\ \A c \in Client \cap over :
                    /\ generated'[c] = 0 /\ cursor'[c] = 0
                    /\ inbox'[c] = inbox[c] \/ (inbox'[c] = inbox[c] + 1 /\ Listens(c))
              /\ \A c \in Client \ over :
                    /\ cursor'[c] = cursor[c]
                    /\ c \in Sampled(plan) => /\ generated'[c] = generated[c] + 1
                                              /\ generated[c] + 1 < MaxTokens
                                              /\ inbox'[c] = inbox[c] + 1 /\ Listens(c)
                    /\ c \notin Sampled(plan) => generated'[c] = generated[c] /\ inbox'[c] = inbox[c]
              /\ generated' \in [Client -> Nat] /\ cursor' \in [Client -> Nat]
              /\ inbox' \in [Client -> Nat]
    BY RunEffect
  <2> QED BY <2>1
<1>2. DOMAIN plan \subseteq active /\ active \subseteq requests /\ DOMAIN plan \subseteq configured
  BY DEF RequestShape, Tracked, NumberShape
<1>3. Sampled(plan) = {c \in DOMAIN plan : plan[c].sample}
  BY <1>2 DEF Sampled
<1>4. ASSUME NEW c \in Client PROVE NumberOf(c)'
  <2>1. NumberOf(c) /\ generated[c] \in Nat /\ cursor[c] \in Nat
    BY DEF NumberShape
  <2>2. CASE c \in over
    BY <1>1, <2>2 DEF NumberOf
  <2>3. CASE c \notin over /\ c \notin DOMAIN plan
    <3>1. generated'[c] = generated[c] /\ cursor'[c] = cursor[c]
      BY <1>1, <1>3, <2>3
    <3>2. RestOf(c) => RestOf(c)'
      BY <3>1 DEF RestOf, Replay
    <3> QED BY <1>1, <2>1, <2>3, <3>1, <3>2 DEF NumberOf
  <2>4. CASE c \notin over /\ c \in DOMAIN plan /\ ~plan[c].sample
    <3>1. generated'[c] = generated[c] /\ cursor'[c] = cursor[c] /\ c \in requests /\ c \in configured
      BY <1>1, <1>2, <1>3, <2>4
    <3>2. RowOf(c) /\ Replay(c) \in Nat
      BY <2>1, <2>4, <3>1, ReplayIs DEF NumberOf
    <3>3. RestOf(c)
      BY <2>4, <3>2 DEF RowOf, RestOf
    <3>4. RestOf(c)'
      BY <3>1, <3>3 DEF RestOf, Replay
    <3>5. generated'[c] < MaxTokens /\ c \in configured'
      BY <1>1, <2>1, <2>4, <3>1 DEF NumberOf
    <3> QED BY <1>1, <2>4, <3>1, <3>4, <3>5 DEF NumberOf
  <2>5. CASE c \notin over /\ c \in DOMAIN plan /\ plan[c].sample
    <3>1. /\ generated'[c] = generated[c] + 1 /\ generated[c] + 1 < MaxTokens
          /\ cursor'[c] = cursor[c] /\ c \in requests /\ c \in configured
      BY <1>1, <1>2, <1>3, <2>5
    <3>2. RowOf(c)
      BY <2>1, <2>5, <3>1 DEF NumberOf
    <3>3. /\ Replay(c) = IF generated[c] = 0 THEN Prompt[c] ELSE Prompt[c] + (generated[c] - 1)
          /\ Prompt[c] \in Nat
      BY <2>1, ReplayIs
    <3>4. cursor[c] = Prompt[c] + generated[c]
      <4>1. CASE plan[c].decode
        <5>1. /\ cursor[c] = Replay(c) + 1 /\ generated[c] > 0
          BY <3>2, <4>1 DEF RowOf
        <5> QED BY <2>1, <3>3, <5>1
      <4>2. CASE ~plan[c].decode
        <5>1. cursor[c] = Replay(c) /\ generated[c] = 0
          BY <2>5, <3>2, <4>2 DEF RowOf
        <5> QED BY <2>1, <3>3, <5>1
      <4> QED BY <4>1, <4>2
    <3>5. Replay(c)' = Prompt[c] + generated[c]
      <4>1. generated'[c] - 1 = generated[c] /\ generated[c] \in Int /\ generated[c] >= 0
        BY <2>1, <3>1
      <4>2. Max({generated[c], 0}) = generated[c]
        BY <4>1, MaxOfTwo
      <4> QED BY <4>1, <4>2 DEF Replay
    <3>6. RestOf(c)'
      BY <2>1, <3>1, <3>3, <3>4, <3>5 DEF RestOf
    <3> QED BY <1>1, <2>5, <3>1, <3>6 DEF NumberOf
  <2> QED BY <2>2, <2>3, <2>4, <2>5
<1> QED BY <1>1, <1>4 DEF NumberShape

\* Every step keeps the cursors and counts in step,
LEMMA NumberKept == IInv /\ PlaceShape /\ ThreadShape /\ NumberShape /\ [Next]_vars => NumberShape'
<1> SUFFICES ASSUME IInv, PlaceShape, ThreadShape, NumberShape, [Next]_vars PROVE NumberShape'
  OBVIOUS
<1>a. /\ configured \subseteq requests /\ stopped \subseteq requests /\ DOMAIN plan \subseteq requests
      /\ worker \notin {"setup", "run"} => DOMAIN plan = {}
  BY DEF IInv, RequestShape, Tracked
<1>1. ASSUME NEW c \in Client, Begin(c) \/ RequestStep(c) \/ Abandon(c) PROVE NumberShape'
  <2>1. UNCHANGED <<generated, cursor, requests, configured, plan, worker>>
    BY <1>1 DEF Begin, RequestStep, Resume, PrefillFails, TakeToken, TakeVerdict, Cleanup,
                Abandon, engine, workerVars
  <2> QED BY <2>1, NumbersSame
<1>2. CASE TakeDirect \/ RunDirect \/ FailQueued \/ WorkerGone \/ UNCHANGED vars
  <2>1. UNCHANGED <<generated, cursor, requests, configured, plan>> /\ (worker' = "run" => worker = "run")
    BY <1>2 DEF TakeDirect, RunDirect, FailQueued, WorkerGone, vars, engine, workerVars
  <2> QED BY <2>1, NumbersSame
<1>3. CASE Handle
  <2>1. PICK m : m = Head(commands)
    OBVIOUS
  <2>2. commands # <<>> /\ commands' = Tail(commands) /\ UNCHANGED <<plan, worker>> /\ worker = "drain"
    BY <1>3 DEF Handle
  <2>3. m \in Message /\ InQueue(m.op, m.client)
    BY <2>1, <2>2, TailQueue DEF IInv, PlaceShape
  <2>4. m.client \in Client
    BY <2>3 DEF Message
  <2>5. CASE m.op = "submit" /\ Submit(m.client)
    <3>1. ResumedTokens(m.client) < MaxTokens
      BY <2>3, <2>4, <2>5 DEF ThreadShape, ThreadOf
    <3> QED BY <2>2, <2>4, <2>5, <3>1, NumbersSubmit DEF IInv
  <2>6. CASE Cancel(m.client)
    <3>1. /\ Removed({m.client}, generated) /\ requests' = requests \ {m.client}
          /\ configured' = configured \ {m.client}
      BY <2>6 DEF Cancel, Forget
    <3> QED BY <1>a, <2>2, <3>1, NumbersEnd
  <2>7. CASE UNCHANGED <<engine, requests, configured>>
    BY <2>2, <2>7, NumbersSame DEF engine
  <2> QED BY <1>3, <2>1, <2>5, <2>6, <2>7 DEF Handle
<1>4. CASE ApplyControls
  <2>1. /\ Removed(stopped, generated) /\ requests' = requests \ stopped
        /\ configured' = configured \ stopped /\ plan' = plan /\ worker' = "turn"
    BY <1>4 DEF ApplyControls, Dismiss, Forget
  <2> QED BY <2>1, NumbersEnd
<1>5. CASE TakePlan
  BY <1>5, NumbersPlan
<1>6. CASE Setup
  <2>1. PICK failed, ready \in SUBSET (DOMAIN plan \ configured) :
          /\ failed = (DOMAIN plan \ configured) \ ready
          /\ Removed(failed, generated)
          /\ requests' = requests \ failed
          /\ configured' = configured \cup ready
          /\ plan' = Without(plan, failed)
    BY <1>6 DEF Setup
  <2>2. /\ DOMAIN plan' = DOMAIN plan \ failed
        /\ \A c \in DOMAIN plan' : plan'[c] = plan[c]
    BY <2>1 DEF Without, Restricted
  <2>3. DOMAIN plan' \subseteq configured'
    BY <2>1, <2>2
  <2>4. \A c \in requests' : c \in DOMAIN plan' <=> c \in DOMAIN plan
    BY <2>1, <2>2
  <2> QED BY <2>1, <2>2, <2>3, <2>4, NumbersEnd
<1>7. CASE Run
  <2>1. worker = "run" /\ worker' = "drain" /\ plan' = <<>>
    BY <1>7 DEF Run
  <2>2. CASE RunFails
    <3>1. Removed(requests, generated) /\ requests' = requests \ requests
      BY <2>2 DEF RunFails, FailAll, Dismiss, Forget
    <3> QED BY <2>1, <3>1, NumbersEnd
  <2>3. CASE RunSucceeds
    BY <2>1, <2>3, NumbersRun DEF IInv, ThreadShape
  <2> QED BY <1>7, <2>2, <2>3 DEF Run
<1>8. CASE Panic
  <2>1. Removed(requests, generated) /\ requests' = requests \ requests /\ worker' = "panicked"
    BY <1>8 DEF Panic, FailAll, Dismiss, Forget
  <2> QED BY <2>1, NumbersEnd
<1> QED BY <1>1, <1>2, <1>3, <1>4, <1>5, <1>6, <1>7, <1>8 DEF Next, WorkerStep

\* which are all zero at the start.
LEMMA NumberInitially == Init => NumberShape
BY DEF Init, EngineInit, NumberShape, NumberOf

-----------------------------------------------------------------------------
(* Tokens.                                                                     *)

\* No thread is given more tokens than it may have.
TokensFit == \A c \in Client : pc[c] = "generating" => taken[c] + inbox[c] <= MaxTokens
TokenShape == TokensReachTheirRequest /\ TokensFit

\* The tokens stay what they are while requests end.
LEMMA TokensKeep ==
    ASSUME TokenShape, requests' \subseteq requests, requests \subseteq Client,
           UNCHANGED <<taken, inbox>>,
           \A c \in Client : pc'[c] = "generating" => pc[c] = "generating",
           \A c \in requests' : generated'[c] = generated[c]
    PROVE  TokenShape'
BY DEF TokenShape, TokensReachTheirRequest, TokensFit

\* Every step accounts for the tokens,
LEMMA TokenKept == IInv /\ PlaceShape /\ ThreadShape /\ NumberShape /\ TokenShape /\ [Next]_vars => TokenShape'
<1> SUFFICES ASSUME IInv, PlaceShape, ThreadShape, NumberShape, TokenShape, [Next]_vars
             PROVE  TokenShape'
  OBVIOUS
<1>a. /\ pc \in [Client -> PC] /\ requests \subseteq Client /\ \A c \in requests : Begun(c)
      /\ DOMAIN plan \subseteq active /\ active \subseteq requests
  BY DEF IInv, QueueShape, RequestShape, Tracked
<1>b. /\ inbox \in [Client -> Nat] /\ taken \in [Client -> Nat]
      /\ \A c \in Client : ThreadOf(c) /\ NumberOf(c)
      /\ generated \in [Client -> Nat] /\ MaxTokens \in Nat \ {0}
      /\ worker \in Closed => requests = {}
  BY SizeAssumption DEF ThreadShape, NumberShape
<1>1. ASSUME NEW c \in Client, Begin(c) PROVE TokenShape'
  <2>1. /\ pc[c] = "idle" /\ UNCHANGED <<taken, inbox, requests, generated>>
        /\ \A d \in Client \ {c} : UNCHANGED pc[d]
    BY <1>a, <1>1 DEF Begin, Go, engine, workerVars
  <2>2. c \notin requests /\ taken[c] = 0 /\ inbox[c] = 0
    BY <1>a, <1>b, <2>1 DEF Begun, ThreadOf
  <2> QED BY <1>a, <1>b, <2>1, <2>2 DEF TokenShape, TokensReachTheirRequest, TokensFit
<1>2. ASSUME NEW c \in Client, Leave(c), UNCHANGED <<requests, generated>> PROVE TokenShape'
  <2>1. /\ pc'[c] = "leaving" /\ \A d \in Client \ {c} : UNCHANGED <<pc[d], taken[d], inbox[d]>>
    BY <1>a, <1>b, <1>2 DEF Leave, Go
  <2> QED BY <1>a, <1>2, <2>1 DEF TokenShape, TokensReachTheirRequest, TokensFit
<1>3. ASSUME NEW c \in Client, Resume(c) PROVE TokenShape'
  <2>1. pc[c] = "prefilling" /\ UNCHANGED <<requests, generated>>
    BY <1>3 DEF Resume, engine, workerVars
  <2>2. CASE /\ MaxTokens > 1 /\ Go(c, "generating") /\ taken' = [taken EXCEPT ![c] = 1]
             /\ UNCHANGED inbox
    <3>1. c \notin requests /\ inbox[c] = 0
      BY <1>a, <1>b, <2>1 DEF Begun, ThreadOf
    <3>2. /\ pc'[c] = "generating" /\ taken'[c] = 1 /\ inbox'[c] = 0
          /\ \A d \in Client \ {c} : UNCHANGED <<pc[d], taken[d], inbox[d]>>
      BY <1>a, <1>b, <2>2, <3>1 DEF Go
    <3>3. taken'[c] + inbox'[c] <= MaxTokens
      BY <1>b, <2>2, <3>2
    <3> QED BY <1>a, <2>1, <3>1, <3>2, <3>3 DEF TokenShape, TokensReachTheirRequest, TokensFit
  <2> QED BY <1>2, <1>3, <2>1, <2>2 DEF Resume
<1>4. ASSUME NEW c \in Client, PrefillFails(c) \/ TakeVerdict(c) \/ Abandon(c) PROVE TokenShape'
  BY <1>2, <1>4 DEF PrefillFails, TakeVerdict, Abandon, engine, workerVars
<1>5. ASSUME NEW c \in Client, TakeToken(c) PROVE TokenShape'
  <2>1. /\ pc[c] = "generating" /\ inbox[c] > 0 /\ UNCHANGED <<requests, generated, pc>>
        /\ inbox' = [inbox EXCEPT ![c] = @ - 1] /\ taken' = [taken EXCEPT ![c] = @ + 1]
    BY <1>5 DEF TakeToken, engine, workerVars
  <2>2. inbox'[c] = inbox[c] - 1 /\ taken'[c] = taken[c] + 1 /\ inbox[c] \in Nat /\ taken[c] \in Nat
    BY <1>b, <2>1
  <2>3. taken'[c] + inbox'[c] = taken[c] + inbox[c]
    BY <2>2
  <2>4. \A d \in Client \ {c} : UNCHANGED <<taken[d], inbox[d]>>
    BY <1>b, <2>1
  <2> QED BY <1>a, <2>1, <2>3, <2>4 DEF TokenShape, TokensReachTheirRequest, TokensFit
<1>6. ASSUME NEW c \in Client, Cleanup(c) PROVE TokenShape'
  <2>1. /\ UNCHANGED <<taken, inbox, requests, generated>>
        /\ \A d \in Client : pc'[d] = "generating" => pc[d] = "generating"
    BY <1>a, <1>6 DEF Cleanup, Go, engine, workerVars
  <2> QED BY <1>a, <2>1, TokensKeep
<1>7. CASE TakeDirect \/ TakePlan \/ RunDirect \/ UNCHANGED vars
  <2>1. UNCHANGED <<taken, inbox, requests, generated, pc>>
    BY <1>7 DEF TakeDirect, TakePlan, RunDirect, PlanIteration, vars, engine, workerVars,
                clientVars, threads
  <2> QED BY <1>a, <2>1, TokensKeep
<1>8. CASE Handle
  <2>1. PICK m : m = Head(commands)
    OBVIOUS
  <2>2. commands # <<>> /\ commands' = Tail(commands) /\ UNCHANGED <<taken, inbox>>
    BY <1>8 DEF Handle
  <2>3. m \in Message /\ InQueue(m.op, m.client)
    BY <2>1, <2>2, TailQueue DEF IInv, PlaceShape
  <2>4. m.client \in Client
    BY <2>3 DEF Message
  <2>5. CASE m.op = "submit" /\ Submit(m.client) /\ UNCHANGED pc
    <3>1. CASE UNCHANGED <<requests, generated>>
      BY <1>a, <2>2, <2>5, <3>1, TokensKeep
    <3>2. CASE /\ requests' = requests \cup {m.client}
               /\ generated' = [generated EXCEPT ![m.client] = ResumedTokens(m.client)]
      <4>1. /\ pc[m.client] = "generating" => /\ taken[m.client] = ResumedTokens(m.client)
                                              /\ inbox[m.client] = 0
        BY <1>b, <2>3, <2>4, <2>5 DEF ThreadOf
      <4>2. ResumedTokens(m.client) + 0 = ResumedTokens(m.client)
        BY DEF ResumedTokens
      <4>3. /\ generated'[m.client] = ResumedTokens(m.client)
            /\ \A d \in Client \ {m.client} : generated'[d] = generated[d]
        BY <1>b, <2>4, <3>2
      <4>4. \A d \in requests' : d = m.client \/ d \in requests
        BY <3>2
      <4> QED BY <1>a, <2>2, <2>5, <4>1, <4>2, <4>3, <4>4
              DEF TokenShape, TokensReachTheirRequest, TokensFit
    <3> QED BY <2>5, <3>1, <3>2 DEF Submit, engine
  <2>6. CASE Cancel(m.client) /\ UNCHANGED pc
    <3>1. requests' = requests \ {m.client} /\ \A c \in requests' : generated'[c] = generated[c]
      BY <1>a, <2>6 DEF Cancel, Forget, Removed
    <3> QED BY <1>a, <2>2, <2>6, <3>1, TokensKeep
  <2>7. CASE UNCHANGED <<requests, engine>> /\ (UNCHANGED pc \/ Go(m.client, "done"))
    <3>1. \A c \in Client : pc'[c] = "generating" => pc[c] = "generating"
      BY <1>a, <2>7 DEF Go
    <3> QED BY <1>a, <2>2, <2>7, <3>1, TokensKeep DEF engine
  <2> QED BY <1>8, <2>1, <2>5, <2>6, <2>7 DEF Handle
<1>9. ASSUME NEW S, Removed(S, generated), requests' = requests \ S, UNCHANGED <<taken, inbox>>,
             \A c \in Client : pc'[c] = "generating" => pc[c] = "generating"
      PROVE  TokenShape'
  <2>1. \A c \in requests' : generated'[c] = generated[c]
    BY <1>a, <1>9 DEF Removed
  <2> QED BY <1>a, <1>9, <2>1, TokensKeep
<1>10. CASE ApplyControls
  <2>1. /\ Removed(stopped, generated) /\ requests' = requests \ stopped /\ UNCHANGED <<taken, inbox, pc>>
    BY <1>10 DEF ApplyControls, Dismiss, Forget
  <2> QED BY <1>9, <2>1
<1>11. CASE Setup
  <2>1. (\E S : Removed(S, generated) /\ requests' = requests \ S) /\ UNCHANGED <<taken, inbox, pc>>
    BY <1>11 DEF Setup
  <2> QED BY <1>9, <2>1
<1>12. CASE Run
  <2>1. UNCHANGED <<taken, pc>>
    BY <1>12 DEF Run
  <2>2. CASE RunFails
    <3>1. Removed(requests, generated) /\ requests' = requests \ requests /\ UNCHANGED inbox
      BY <2>2 DEF RunFails, FailAll, Dismiss, Forget
    <3> QED BY <1>9, <2>1, <3>1
  <2>3. CASE RunSucceeds
    <3>1. PICK over \in SUBSET Sampled(plan) :
              /\ requests' = requests \ over
              /\ \A c \in Client \cap over :
                    inbox'[c] = inbox[c] \/ (inbox'[c] = inbox[c] + 1 /\ Listens(c))
              /\ \A c \in Client \ over :
                    /\ c \in Sampled(plan) => /\ generated'[c] = generated[c] + 1
                                              /\ inbox'[c] = inbox[c] + 1
                    /\ c \notin Sampled(plan) => generated'[c] = generated[c] /\ inbox'[c] = inbox[c]
      <4>1. PICK over \in SUBSET Sampled(plan) :
              /\ requests' = requests \ over /\ configured' = configured \ over
              /\ sessions' = Dropped(over, Rows)
              /\ \A c \in Client \cap over :
                    /\ generated'[c] = 0 /\ cursor'[c] = 0
                    /\ inbox'[c] = inbox[c] \/ (inbox'[c] = inbox[c] + 1 /\ Listens(c))
              /\ \A c \in Client \ over :
                    /\ cursor'[c] = cursor[c]
                    /\ c \in Sampled(plan) => /\ generated'[c] = generated[c] + 1
                                              /\ generated[c] + 1 < MaxTokens
                                              /\ inbox'[c] = inbox[c] + 1 /\ Listens(c)
                    /\ c \notin Sampled(plan) => generated'[c] = generated[c] /\ inbox'[c] = inbox[c]
              /\ generated' \in [Client -> Nat] /\ cursor' \in [Client -> Nat]
              /\ inbox' \in [Client -> Nat]
        BY <1>b, <2>3, RunEffect
      <4> QED BY <4>1
    <3>2. Sampled(plan) \subseteq requests
      BY <1>a DEF Sampled
    <3>3. ASSUME NEW c \in Client, pc'[c] = "generating"
          PROVE  /\ taken'[c] + inbox'[c] <= MaxTokens
                 /\ c \in requests' => taken'[c] + inbox'[c] = generated'[c]
      <4>1. /\ pc[c] = "generating" /\ taken'[c] = taken[c]
            /\ taken[c] \in Nat /\ inbox[c] \in Nat /\ generated[c] \in Nat
            /\ taken[c] + inbox[c] <= MaxTokens
        BY <1>b, <2>1, <3>3 DEF TokenShape, TokensFit
      <4>2. CASE c \in requests
        <5>1. taken[c] + inbox[c] = generated[c] /\ generated[c] < MaxTokens
          BY <1>b, <4>1, <4>2 DEF TokenShape, TokensReachTheirRequest, NumberOf
        <5>2. inbox'[c] = inbox[c] \/ inbox'[c] = inbox[c] + 1
          BY <3>1
        <5>3. c \in requests' => inbox'[c] - inbox[c] = generated'[c] - generated[c] /\ generated'[c] \in Nat
          BY <3>1, <4>1
        <5> QED BY <1>b, <4>1, <5>1, <5>2, <5>3
      <4>3. CASE c \notin requests
        <5>1. inbox'[c] = inbox[c] /\ c \notin requests'
          BY <3>1, <3>2, <4>3
        <5> QED BY <4>1, <5>1
      <4> QED BY <4>2, <4>3
    <3>4. requests' \subseteq Client
      BY <1>a, <3>1
    <3> QED BY <3>3, <3>4 DEF TokenShape, TokensReachTheirRequest, TokensFit
  <2> QED BY <1>12, <2>2, <2>3 DEF Run
<1>13. CASE Panic
  <2>1. Removed(requests, generated) /\ requests' = requests \ requests /\ UNCHANGED <<taken, inbox>>
    BY <1>13 DEF Panic, FailAll, Dismiss, Forget
  <2>2. UNCHANGED pc \/ \E c : Go(c, "done")
    BY <1>13 DEF Panic
  <2>3. \A c \in Client : pc'[c] = "generating" => pc[c] = "generating"
    BY <1>a, <2>2 DEF Go
  <2> QED BY <1>9, <2>1, <2>3
<1>14. CASE FailQueued \/ WorkerGone
  <2>1. UNCHANGED <<taken, inbox, requests, generated>>
    BY <1>14 DEF FailQueued, WorkerGone, engine
  <2>2. \A c \in Client : pc'[c] = "generating" => pc[c] = "generating"
    BY <1>a, <1>14 DEF FailQueued, WorkerGone
  <2> QED BY <1>a, <2>1, <2>2, TokensKeep
<1> QED BY <1>1, <1>3, <1>4, <1>5, <1>6, <1>7, <1>8, <1>10, <1>11, <1>12, <1>13, <1>14
        DEF Next, WorkerStep, RequestStep

\* of which there are none at the start.
LEMMA TokenInitially == Init => TokenShape
BY DEF Init, TokenShape, TokensReachTheirRequest, TokensFit

-----------------------------------------------------------------------------
(* Sessions and cursors.                                                       *)

\* Where the session of a request is: what is planned has not run yet.
At(c) == IF c \in DOMAIN plan THEN plan[c].start ELSE cursor[c]

\* A feature request whose prompt is not evaluated, and one whose prompt is and
\* whom the worker does not know yet.
Untouched(c) == c \in Feature /\ (pc[c] = "idle" \/ (pc[c] = "prefilling" /\ reply[c] = "none"))
Resumable(c) ==
    /\ c \in Feature
    /\ (pc[c] = "prefilling" /\ reply[c] = "ok") \/ (pc[c] = "generating" /\ InQueue("submit", c))

Followed(c) ==
    c \in requests /\ c \in configured /\ Listens(c) => c \in DOMAIN sessions /\ sessions[c] = At(c)
Prepared(c) ==
    /\ Untouched(c) => c \notin DOMAIN sessions
    /\ Resumable(c) => c \in DOMAIN sessions /\ sessions[c] = Prompt[c]

ContextShape ==
    /\ DOMAIN sessions \subseteq Client /\ \A c \in DOMAIN sessions : sessions[c] \in Nat
    /\ \A c \in Client : Followed(c) /\ Prepared(c)

SameSession(c) ==
    /\ c \in DOMAIN sessions' <=> c \in DOMAIN sessions
    /\ c \in DOMAIN sessions => sessions'[c] = sessions[c]
Calm(c) == (Untouched(c)' => Untouched(c)) /\ (Resumable(c)' => Resumable(c))

\* What does not touch the session of a request leaves it prepared,
LEMMA PreparedStays ==
    ASSUME NEW c, Prepared(c), SameSession(c), Calm(c)
    PROVE  Prepared(c)'
BY DEF Prepared, SameSession, Calm

\* and followed.
LEMMA FollowedStays ==
    ASSUME NEW c, Followed(c), SameSession(c), At(c)' = At(c),
           c \in requests' /\ c \in configured' /\ Listens(c)' =>
               c \in requests /\ c \in configured /\ Listens(c)
    PROVE  Followed(c)'
BY DEF Followed, SameSession

\* The worker's own requests are neither.
LEMMA RequestsArePrepared ==
    ASSUME IInv, ThreadShape, NEW c \in requests
    PROVE  ~Untouched(c) /\ ~Resumable(c)
BY DEF IInv, RequestShape, Begun, ThreadShape, ThreadOf, Untouched, Resumable

\* What is dropped, and what stays.
LEMMA DroppedIs ==
    \A S, f : /\ DOMAIN Dropped(S, f) \subseteq DOMAIN f
              /\ \A c \in DOMAIN Dropped(S, f) : Dropped(S, f)[c] = f[c]
              /\ \A c \in DOMAIN f : c \notin S => c \in DOMAIN Dropped(S, f)
BY DEF Dropped, Without, Restricted

\* The same without the requests of S.
LEMMA WithoutIs ==
    \A S, f : /\ DOMAIN Without(f, S) \subseteq DOMAIN f
              /\ \A c \in DOMAIN Without(f, S) : Without(f, S)[c] = f[c]
              /\ \A c \in DOMAIN f : c \notin S => c \in DOMAIN Without(f, S)
BY DEF Without, Restricted

\* What is evaluated.
LEMMA EvaluatedIs ==
    ASSUME NEW S, NEW n, \A c \in DOMAIN sessions : sessions[c] \in Nat, \A c \in S : n[c] \in Nat
    PROVE  /\ DOMAIN Evaluated(S, n) = DOMAIN sessions \cup S
           /\ \A c \in DOMAIN Evaluated(S, n) : Evaluated(S, n)[c] \in Nat
           /\ \A c \in DOMAIN sessions : c \notin S => Evaluated(S, n)[c] = sessions[c]
<1>1. DOMAIN Evaluated(S, n) = DOMAIN sessions \cup S
  BY DEF Evaluated
<1>2. ASSUME NEW c \in DOMAIN sessions \cup S
      PROVE  /\ Evaluated(S, n)[c] \in Nat
             /\ c \notin S => Evaluated(S, n)[c] = sessions[c]
  <2>1. Evaluated(S, n)[c] = (IF c \in DOMAIN sessions THEN sessions[c] ELSE 0)
                             + (IF c \in S THEN n[c] ELSE 0)
    BY DEF Evaluated
  <2>2. CASE c \in S /\ c \in DOMAIN sessions
    <3>1. sessions[c] \in Nat /\ n[c] \in Nat
      BY <2>2
    <3> QED BY <2>1, <2>2, <3>1
  <2>3. CASE c \notin S /\ c \in DOMAIN sessions
    <3>1. sessions[c] \in Nat
      BY <2>3
    <3> QED BY <2>1, <2>3, <3>1
  <2>4. CASE c \in S /\ c \notin DOMAIN sessions
    <3>1. n[c] \in Nat
      BY <2>4
    <3> QED BY <2>1, <2>4, <3>1
  <2> QED BY <2>2, <2>3, <2>4
<1> QED BY <1>1, <1>2

\* The worker ends requests of its own.
LEMMA ContextEnds ==
    ASSUME IInv, ThreadShape, ContextShape, requests' \subseteq requests,
           DOMAIN sessions' \subseteq Client, \A c \in DOMAIN sessions' : sessions'[c] \in Nat,
           \A c \in Client : Calm(c),
           \A c \in Client \ requests : SameSession(c),
           \A c \in requests' : Followed(c)'
    PROVE  ContextShape'
<1>1. ASSUME NEW c \in Client PROVE Followed(c)' /\ Prepared(c)'
  <2>1. CASE c \in requests
    <3>1. ~Untouched(c) /\ ~Resumable(c)
      BY <2>1, RequestsArePrepared
    <3>2. Prepared(c)'
      BY <3>1 DEF Calm, Prepared
    <3>3. c \notin requests' => Followed(c)'
      BY DEF Followed
    <3> QED BY <3>2, <3>3
  <2>2. CASE c \notin requests
    <3>1. Prepared(c)'
      BY <2>2, PreparedStays DEF ContextShape
    <3> QED BY <2>2, <3>1 DEF Followed
  <2> QED BY <2>1, <2>2
<1> QED BY <1>1 DEF ContextShape

\* It changes no session.
LEMMA ContextSame ==
    ASSUME ContextShape, UNCHANGED sessions, \A c \in Client : Calm(c),
           \A c \in Client : \/ c \in requests' /\ c \in configured' /\ Listens(c)' =>
                                   /\ c \in requests /\ c \in configured /\ Listens(c)
                                   /\ At(c)' = At(c)
                             \/ Followed(c)'
    PROVE  ContextShape'
<1>1. \A c \in Client : SameSession(c)
  BY DEF SameSession
<1>2. ASSUME NEW c \in Client PROVE Followed(c)' /\ Prepared(c)'
  <2>1. Prepared(c)'
    BY <1>1, PreparedStays DEF ContextShape
  <2>2. Followed(c) /\ SameSession(c)
    BY <1>1 DEF ContextShape
  <2>3. Followed(c)'
    BY <2>2 DEF Followed, SameSession
  <2> QED BY <2>1, <2>3
<1> QED BY <1>2 DEF ContextShape

\* Threads move on.
LEMMA ThreadsCalm ==
    ASSUME IInv, PlaceShape, ThreadShape, NEW c \in Client,
           Begin(c) \/ RequestStep(c) \/ Abandon(c)
    PROVE  \A d \in Client : Calm(d) /\ (Listens(d)' => Listens(d) \/ d \notin requests)
<1>a. /\ pc \in [Client -> PC] /\ reply \in [Client -> {"none", "ok", "error"}] /\ QueueShape
      /\ \A d \in requests : Begun(d)
      /\ \A d \in Client : pc[d] = "idle" => reply[d] = "none"
      /\ \A d \in Client : pc[d] = "prefilling" => d \in Feature
  BY DEF IInv, QueueShape, RequestShape, DirectShape, ThreadShape, ThreadOf
<1>1. ASSUME NEW op \in Ops, Send(op, c)
      PROVE  \A d \in Client : InQueue("submit", d)' => InQueue("submit", d) \/ (d = c /\ op = "submit")
  <2>1. \A o, d : InQueue(o, d)' <=> InQueue(o, d) \/ (Accepts /\ o = op /\ d = c)
    BY <1>a, <1>1, SendQueue
  <2> QED BY <2>1
<1>2. ASSUME UNCHANGED commands
      PROVE  \A d \in Client : InQueue("submit", d)' => InQueue("submit", d)
  BY <1>2, SameQueue
<1>3. ASSUME Leave(c), UNCHANGED commands \/ \E op \in Ops : Send(op, c)
      PROVE  \A d \in Client : Calm(d) /\ (Listens(d)' => Listens(d))
  <2>1. /\ pc'[c] = "leaving" /\ \A d \in Client \ {c} : UNCHANGED <<pc[d], reply[d]>>
    BY <1>a, <1>3 DEF Leave, Go
  <2>2. \A d \in Client \ {c} : InQueue("submit", d)' => InQueue("submit", d)
    BY <1>1, <1>2, <1>3
  <2> QED BY <2>1, <2>2 DEF Calm, Untouched, Resumable, Listens
<1>4. CASE Begin(c)
  <2>1. /\ pc[c] = "idle" /\ UNCHANGED reply
        /\ Send(IF c \in Feature THEN "direct" ELSE "submit", c)
        /\ pc'[c] = (IF ~Accepts THEN "leaving" ELSE IF c \in Feature THEN "prefilling" ELSE "generating")
        /\ \A d \in Client \ {c} : UNCHANGED pc[d]
    BY <1>a, <1>4 DEF Begin, Go
  <2>2. \A d \in Client \ {c} : InQueue("submit", d)' => InQueue("submit", d)
    BY <1>1, <2>1 DEF Ops
  <2>3. reply[c] = "none" /\ c \notin requests
    BY <1>a, <2>1 DEF Begun
  <2>4. Calm(c)
    BY <2>1, <2>3 DEF Calm, Untouched, Resumable
  <2> QED BY <2>1, <2>2, <2>3, <2>4 DEF Calm, Untouched, Resumable, Listens
<1>5. CASE Resume(c)
  <2>1. pc[c] = "prefilling" /\ reply[c] = "ok"
    BY <1>5 DEF Resume
  <2>2. CASE Send("submit", c) /\ Go(c, "generating") /\ UNCHANGED reply
    <3>1. pc'[c] = "generating" /\ \A d \in Client \ {c} : UNCHANGED pc[d]
      BY <1>a, <2>2 DEF Go
    <3>2. \A d \in Client \ {c} : InQueue("submit", d)' => InQueue("submit", d)
      BY <1>1, <2>2 DEF Ops
    <3>3. c \notin requests /\ Resumable(c)
      BY <1>a, <2>1 DEF Begun, Resumable
    <3>4. Calm(c)
      BY <3>1, <3>3 DEF Calm, Untouched
    <3> QED BY <2>2, <3>1, <3>2, <3>3, <3>4 DEF Calm, Untouched, Resumable, Listens
  <2>3. CASE Leave(c) /\ (UNCHANGED commands \/ Send("submit", c))
    BY <1>3, <2>3 DEF Ops
  <2> QED BY <1>5, <2>2, <2>3 DEF Resume
<1>6. CASE PrefillFails(c) \/ TakeVerdict(c)
  BY <1>3, <1>6 DEF PrefillFails, TakeVerdict
<1>7. CASE Abandon(c)
  BY <1>3, <1>7 DEF Abandon, Ops
<1>8. CASE TakeToken(c)
  <2>1. UNCHANGED <<pc, reply, commands>>
    BY <1>8 DEF TakeToken
  <2> QED BY <1>2, <2>1 DEF Calm, Untouched, Resumable, Listens
<1>9. CASE Cleanup(c)
  <2>1. /\ Send("drop", c) /\ UNCHANGED reply /\ pc'[c] \in {"dropping", "done"}
        /\ \A d \in Client \ {c} : UNCHANGED pc[d]
    BY <1>a, <1>9 DEF Cleanup, Go
  <2>2. \A d \in Client \ {c} : InQueue("submit", d)' => InQueue("submit", d)
    BY <1>1, <2>1 DEF Ops
  <2> QED BY <2>1, <2>2 DEF Calm, Untouched, Resumable, Listens
<1> QED BY <1>4, <1>5, <1>6, <1>7, <1>8, <1>9 DEF RequestStep

\* The worker answers or takes a command.
LEMMA WorkerCalm ==
    ASSUME NEW c, pc'[c] \in {pc[c], "done"}, reply'[c] \in {reply[c], "error"},
           InQueue("submit", c)' => InQueue("submit", c)
    PROVE  Calm(c) /\ (Listens(c)' => Listens(c))
BY DEF Calm, Untouched, Resumable, Listens

\* A command keeps the sessions in step,
LEMMA ContextHandled ==
    ASSUME IInv, PlaceShape, ThreadShape, NumberShape, ContextShape, Handle
    PROVE  ContextShape'
<1>a. /\ pc \in [Client -> PC] /\ QueueShape
      /\ DOMAIN plan = {} /\ configured \subseteq requests /\ requests \subseteq Client
      /\ cursor \in [Client -> Nat]
  BY DEF IInv, QueueShape, RequestShape, NumberShape, Handle
<1>1. PICK m : m = Head(commands)
  OBVIOUS
<1>2. /\ commands # <<>> /\ commands' = Tail(commands) /\ worker = "drain"
      /\ UNCHANGED <<plan, reply>>
  BY DEF Handle
<1>3. /\ \A o, d : InQueue(o, d)' <=> InQueue(o, d) /\ ~(o = m.op /\ d = m.client)
      /\ m \in Message /\ InQueue(m.op, m.client)
  BY <1>1, <1>2, TailQueue DEF IInv, PlaceShape
<1>4. m.client \in Client /\ \A c \in Client : At(c) = cursor[c] /\ At(c)' = cursor'[c]
  BY <1>a, <1>2, <1>3 DEF Message, At
<1>5. ASSUME UNCHANGED pc \/ Go(m.client, "done")
      PROVE  \A c \in Client : Calm(c) /\ (Listens(c)' => Listens(c))
  <2>1. \A c \in Client : pc'[c] \in {pc[c], "done"}
    BY <1>a, <1>5 DEF Go
  <2>2. \A c \in Client : InQueue("submit", c)' => InQueue("submit", c)
    BY <1>3
  <2> QED BY <1>2, <2>1, <2>2, WorkerCalm
<1>6. CASE m.op = "submit" /\ Submit(m.client) /\ UNCHANGED <<pc, sessions>>
  <2>1. \A c \in Client : Calm(c) /\ (Listens(c)' => Listens(c))
    BY <1>5, <1>6
  <2>2. CASE UNCHANGED <<engine, requests, configured>>
    BY <1>4, <1>6, <2>1, <2>2, ContextSame DEF engine
  <2>3. CASE /\ requests' = requests \cup {m.client}
             /\ configured' = configured \cup (IF RuntimeConfigured(m.client) THEN {m.client} ELSE {})
             /\ cursor' = [cursor EXCEPT ![m.client] = ResumedCursor(m.client)]
    <3>1. \A c \in Client \ {m.client} : /\ cursor'[c] = cursor[c]
                                         /\ c \in requests' => c \in requests
                                         /\ c \in configured' => c \in configured
      BY <1>a, <2>3
    <3>2. m.client \notin requests /\ m.client \notin configured
      BY <1>a, <1>3, <1>4, <1>6 DEF ThreadShape, ThreadOf
    <3>3. ASSUME m.client \in configured', Listens(m.client)' PROVE Followed(m.client)'
      <4>1. m.client \in Feature /\ cursor'[m.client] = Prompt[m.client]
        BY <1>a, <1>4, <2>3, <3>2, <3>3 DEF RuntimeConfigured, ResumedCursor
      <4>2. Resumable(m.client)
        BY <1>3, <1>6, <2>1, <1>4, <3>3, <4>1 DEF Resumable, Listens
      <4>3. m.client \in DOMAIN sessions /\ sessions[m.client] = Prompt[m.client]
        BY <1>4, <4>2 DEF ContextShape, Prepared
      <4> QED BY <1>4, <1>6, <4>1, <4>3 DEF Followed
    <3>4. Followed(m.client)'
      BY <3>3 DEF Followed
    <3> QED BY <1>4, <1>6, <2>1, <3>1, <3>4, ContextSame
  <2> QED BY <1>6, <2>2, <2>3 DEF Submit
<1>7. CASE m.op = "cancel" /\ Cancel(m.client) /\ UNCHANGED pc
  <2>1. \A c \in Client : Calm(c) /\ (Listens(c)' => Listens(c))
    BY <1>5, <1>7
  <2>2. /\ requests' = requests \ {m.client} /\ configured' = configured \ {m.client}
        /\ \A c \in Client \ {m.client} : cursor'[c] = cursor[c]
    BY <1>7 DEF Cancel, Forget, Removed
  <2>3. Left(m.client)
    BY <1>a, <1>3, <1>7, QueueBelongs
  <2>4. /\ DOMAIN sessions' \subseteq DOMAIN sessions
        /\ \A c \in DOMAIN sessions' : sessions'[c] = sessions[c]
        /\ \A c \in DOMAIN sessions : c # m.client => c \in DOMAIN sessions'
    BY <1>7, WithoutIs DEF Cancel
  <2>5. ASSUME NEW c \in Client PROVE Followed(c)' /\ Prepared(c)'
    <3>1. CASE c = m.client
      BY <1>7, <2>2, <2>3, <3>1 DEF Followed, Prepared, Untouched, Resumable, Left
    <3>2. CASE c # m.client
      <4>1. SameSession(c) /\ Calm(c) /\ At(c)' = At(c) /\ (Listens(c)' => Listens(c))
        BY <1>4, <2>1, <2>2, <2>4, <3>2 DEF SameSession
      <4>2. Followed(c) /\ Prepared(c)
        BY DEF ContextShape
      <4>3. c \in requests' /\ c \in configured' => c \in requests /\ c \in configured
        BY <2>2
      <4> QED BY <4>1, <4>2, <4>3, FollowedStays, PreparedStays
    <3> QED BY <3>1, <3>2
  <2> QED BY <2>4, <2>5 DEF ContextShape
<1>8. CASE m.op = "direct" /\ UNCHANGED <<engine, pc, requests, configured, sessions>>
  <2>1. \A c \in Client : Calm(c) /\ (Listens(c)' => Listens(c))
    BY <1>5, <1>8
  <2> QED BY <1>4, <1>8, <2>1, ContextSame DEF engine
<1>9. CASE /\ m.op = "drop" /\ sessions' = Without(sessions, {m.client}) /\ Go(m.client, "done")
           /\ UNCHANGED <<engine, requests, configured>>
  <2>1. \A c \in Client : Calm(c) /\ (Listens(c)' => Listens(c))
    BY <1>5, <1>9
  <2>2. pc'[m.client] = "done"
    BY <1>a, <1>4, <1>9 DEF Go
  <2>3. /\ DOMAIN sessions' \subseteq DOMAIN sessions
        /\ \A c \in DOMAIN sessions' : sessions'[c] = sessions[c]
        /\ \A c \in DOMAIN sessions : c # m.client => c \in DOMAIN sessions'
    BY <1>9, WithoutIs
  <2>4. ASSUME NEW c \in Client PROVE Followed(c)' /\ Prepared(c)'
    <3>1. CASE c = m.client
      BY <2>2, <3>1 DEF Followed, Prepared, Untouched, Resumable, Listens
    <3>2. CASE c # m.client
      <4>1. SameSession(c) /\ Calm(c) /\ At(c)' = At(c) /\ (Listens(c)' => Listens(c))
        BY <1>4, <1>9, <2>1, <2>3, <3>2 DEF SameSession, engine
      <4>2. Followed(c) /\ Prepared(c)
        BY DEF ContextShape
      <4> QED BY <1>9, <4>1, <4>2, FollowedStays, PreparedStays
    <3> QED BY <3>1, <3>2
  <2> QED BY <2>3, <2>4 DEF ContextShape
<1> QED BY <1>1, <1>6, <1>7, <1>8, <1>9 DEF Handle

\* The worker's turns leave threads and queue as they are.
LEMMA TurnCalm ==
    ASSUME UNCHANGED <<commands, pc>>,
           \A c \in Client : reply'[c] \in {reply[c], "error"}
    PROVE  \A c \in Client : Calm(c) /\ (Listens(c)' => Listens(c))
<1>1. \A c \in Client : InQueue("submit", c)' => InQueue("submit", c)
  BY SameQueue
<1> QED BY <1>1, WorkerCalm

\* Requests end, with their sessions or without.
LEMMA ContextDropped ==
    ASSUME IInv, ThreadShape, ContextShape, \A c \in Client : Calm(c) /\ (Listens(c)' => Listens(c)),
           NEW S \in SUBSET requests, NEW f,
           DOMAIN f \subseteq Client, \A c \in DOMAIN f : f[c] \in Nat,
           requests' = requests \ S, configured' = configured \ S, sessions' = Dropped(S, f),
           \A c \in Client \ requests : /\ c \in DOMAIN f <=> c \in DOMAIN sessions
                                        /\ c \in DOMAIN sessions => f[c] = sessions[c],
           \A c \in requests' : c \in configured /\ Listens(c) => c \in DOMAIN f /\ f[c] = At(c)'
    PROVE  ContextShape'
<1>1. /\ DOMAIN sessions' \subseteq DOMAIN f
      /\ \A c \in DOMAIN sessions' : sessions'[c] = f[c]
      /\ \A c \in DOMAIN f : c \notin S => c \in DOMAIN sessions'
  BY DroppedIs
<1>2. \A c \in Client \ requests : SameSession(c)
  BY <1>1 DEF SameSession
<1>3. \A c \in requests' : Followed(c)'
  <2> SUFFICES ASSUME NEW c \in requests', c \in configured', Listens(c)'
               PROVE  c \in DOMAIN sessions' /\ sessions'[c] = At(c)'
    BY DEF Followed
  <2>1. c \in Client /\ c \notin S /\ c \in configured
    BY DEF IInv, RequestShape
  <2>2. c \in DOMAIN f /\ f[c] = At(c)'
    BY <2>1
  <2> QED BY <1>1, <2>1, <2>2
<1>4. DOMAIN sessions' \subseteq Client /\ \A c \in DOMAIN sessions' : sessions'[c] \in Nat
  BY <1>1
<1> QED BY <1>2, <1>3, <1>4, ContextEnds

\* The counts of the plan.
LEMMA CountsAre ==
    ASSUME RequestShape, Tracked, NumberShape
    PROVE  /\ \A c \in DOMAIN plan : [d \in DOMAIN plan |-> plan[d].count][c] \in Nat
           /\ \A c \in DOMAIN plan : RowOf(c) /\ c \in requests
<1>1. DOMAIN plan \subseteq requests /\ requests \subseteq Client
  BY DEF RequestShape, Tracked
<1>2. \A c \in DOMAIN plan : RowOf(c) /\ c \in requests
  BY <1>1 DEF NumberShape, NumberOf
<1> QED BY <1>2 DEF RowOf

\* New sessions start where their rows do.
LEMMA ContextSetUp ==
    ASSUME IInv, ThreadShape, NumberShape, ContextShape, Setup
    PROVE  ContextShape'
<1>1. PICK failed, ready \in SUBSET (DOMAIN plan \ configured) :
          /\ failed = (DOMAIN plan \ configured) \ ready
          /\ Removed(failed, generated)
          /\ requests' = requests \ failed
          /\ configured' = configured \cup ready
          /\ sessions' = [c \in DOMAIN sessions \cup ready |-> IF c \in ready THEN 0 ELSE sessions[c]]
          /\ plan' = Without(plan, failed)
  BY DEF Setup
<1>2. UNCHANGED <<commands, pc, reply>>
  BY DEF Setup
<1>3. \A c \in Client : Calm(c) /\ (Listens(c)' => Listens(c))
  BY <1>2, TurnCalm
<1>4. /\ requests \subseteq Client /\ configured \subseteq requests /\ DOMAIN plan \subseteq requests
  BY DEF IInv, RequestShape, Tracked
<1>5. /\ DOMAIN plan' = DOMAIN plan \ failed
      /\ \A c \in DOMAIN plan' : plan'[c] = plan[c]
  BY <1>1 DEF Without, Restricted
<1>6. \A c \in Client \ failed : cursor'[c] = cursor[c]
  BY <1>1 DEF Removed
<1>7. \A c \in Client \ failed : At(c)' = At(c)
  <2> SUFFICES ASSUME NEW c \in Client \ failed PROVE At(c)' = At(c)
    OBVIOUS
  <2>1. (c \in DOMAIN plan' <=> c \in DOMAIN plan) /\ (c \in DOMAIN plan' => plan'[c] = plan[c])
    BY <1>5
  <2> QED BY <1>6, <2>1 DEF At
<1>8. \A c \in Client \ requests : SameSession(c)
  BY <1>1, <1>4 DEF SameSession
<1>9. ASSUME NEW c \in requests' PROVE Followed(c)'
  <2>1. c \in Client /\ c \in requests /\ c \notin failed
    BY <1>1, <1>4, <1>9
  <2>2. CASE c \in ready
    <3>1. At(c) = 0
      BY <1>1, <2>1, <2>2 DEF NumberShape, NumberOf, At
    <3>2. c \in DOMAIN sessions' /\ sessions'[c] = 0
      BY <1>1, <2>2
    <3>3. At(c)' = 0
      BY <1>7, <2>1, <3>1
    <3> QED BY <3>2, <3>3 DEF Followed
  <2>3. CASE c \notin ready
    <3>1. SameSession(c) /\ (c \in configured' => c \in configured)
      BY <1>1, <2>3 DEF SameSession
    <3>2. At(c)' = At(c) /\ (Listens(c)' => Listens(c)) /\ Followed(c)
      BY <1>3, <1>7, <2>1 DEF ContextShape
    <3> QED BY <2>1, <3>1, <3>2, FollowedStays
  <2> QED BY <2>2, <2>3
<1>10. DOMAIN sessions' \subseteq Client /\ \A c \in DOMAIN sessions' : sessions'[c] \in Nat
  BY <1>1, <1>4 DEF ContextShape
<1>11. requests' \subseteq requests
  BY <1>1
<1> QED BY <1>3, <1>8, <1>9, <1>10, <1>11, ContextEnds

\* A plan moves the cursors, and starts its rows where they were.
LEMMA ContextPlanned ==
    ASSUME IInv, NumberShape, ContextShape, TakePlan
    PROVE  ContextShape'
<1>1. UNCHANGED <<commands, pc, reply, requests, configured, sessions>>
  BY DEF TakePlan, clientVars, threads
<1>2. \A c \in Client : Calm(c) /\ (Listens(c)' => Listens(c))
  BY <1>1, TurnCalm
<1>3. worker \notin {"setup", "run"} /\ DOMAIN plan = {} /\ Tracked /\ requests \subseteq Client
  BY DEF TakePlan, InTurn, HasTurn, IInv, RequestShape
<1>4. PICK S \in SUBSET waiting : PlanIteration(S) /\ plan' = Plan(active \cup S)
  BY DEF TakePlan
<1>5. /\ active \cup S \in SUBSET Client
      /\ \A c \in active \cup S : c \in requests
  BY <1>3 DEF Tracked
<1>6. \A c \in active \cup S : RestOf(c)
  BY <1>3, <1>5 DEF NumberShape, NumberOf
<1>7. \A c \in DOMAIN plan' : Fitting(plan'[c], c)
  BY <1>4, <1>5, <1>6, PlanFits DEF NumberShape
<1>8. \A c \in Client : c \notin DOMAIN plan' => cursor'[c] = cursor[c]
  BY <1>4 DEF PlanIteration
<1>9. \A c \in Client : At(c)' = At(c)
  BY <1>3, <1>7, <1>8 DEF At, Fitting
<1> QED BY <1>1, <1>2, <1>9, ContextSame

\* An iteration moves the sessions up to the cursors, or ends the requests.
LEMMA ContextRun ==
    ASSUME IInv, ThreadShape, NumberShape, ContextShape, Run
    PROVE  ContextShape'
<1>1. UNCHANGED <<commands, pc>> /\ plan' = <<>> /\ worker = "run"
  BY DEF Run
<1>2. /\ requests \subseteq Client /\ configured \subseteq requests /\ DOMAIN plan \subseteq requests
      /\ \A c \in DOMAIN sessions : sessions[c] \in Nat
      /\ DOMAIN sessions \subseteq Client
      /\ RequestShape /\ Tracked
  BY DEF IInv, RequestShape, Tracked, ContextShape
<1> DEFINE Count == [c \in DOMAIN plan |-> plan[c].count]
<1>3. ASSUME NEW S \in SUBSET DOMAIN plan
      PROVE  /\ DOMAIN Evaluated(S, Count) \subseteq Client
             /\ \A c \in DOMAIN Evaluated(S, Count) : Evaluated(S, Count)[c] \in Nat
             /\ \A c \in Client \ requests :
                    /\ c \in DOMAIN Evaluated(S, Count) <=> c \in DOMAIN sessions
                    /\ c \in DOMAIN sessions => Evaluated(S, Count)[c] = sessions[c]
             /\ \A c \in DOMAIN sessions : c \notin S => Evaluated(S, Count)[c] = sessions[c]
             /\ \A c \in DOMAIN sessions : c \in DOMAIN Evaluated(S, Count)
  <2>1. \A c \in S : Count[c] \in Nat
    BY <1>2, CountsAre
  <2> HIDE DEF Count
  <2>2. /\ DOMAIN Evaluated(S, Count) = DOMAIN sessions \cup S
        /\ \A c \in DOMAIN Evaluated(S, Count) : Evaluated(S, Count)[c] \in Nat
        /\ \A c \in DOMAIN sessions : c \notin S => Evaluated(S, Count)[c] = sessions[c]
    <3>1. \A c \in DOMAIN sessions : sessions[c] \in Nat
      BY <1>2
    <3>2. DOMAIN Evaluated(S, Count) = DOMAIN sessions \cup S
      BY <2>1, <3>1, EvaluatedIs
    <3>3. \A c \in DOMAIN Evaluated(S, Count) : Evaluated(S, Count)[c] \in Nat
      BY <2>1, <3>1, EvaluatedIs
    <3>4. \A c \in DOMAIN sessions : c \notin S => Evaluated(S, Count)[c] = sessions[c]
      BY <2>1, <3>1, EvaluatedIs
    <3> QED BY <3>2, <3>3, <3>4
  <2>3. S \subseteq requests
    BY <1>2, <1>3
  <2> QED BY <1>2, <2>2, <2>3
<1>4. CASE RunFails
  <2>1. /\ requests' = requests \ requests /\ configured' = configured \ requests
        /\ \A c \in Client : reply'[c] \in {reply[c], "error"}
    BY <1>4 DEF RunFails, FailAll, Dismiss, Forget
  <2>2. \A c \in Client : Calm(c) /\ (Listens(c)' => Listens(c))
    BY <1>1, <2>1, TurnCalm
  <2>3. \/ sessions' = Dropped(requests, sessions)
        \/ \E S \in SUBSET DOMAIN plan : sessions' = Dropped(requests, Evaluated(S, Count))
    BY <1>4 DEF RunFails
  <2> HIDE DEF Count
  <2>4. \E f : /\ sessions' = Dropped(requests, f)
               /\ DOMAIN f \subseteq Client /\ \A c \in DOMAIN f : f[c] \in Nat
               /\ \A c \in Client \ requests : /\ c \in DOMAIN f <=> c \in DOMAIN sessions
                                               /\ c \in DOMAIN sessions => f[c] = sessions[c]
    <3>1. CASE sessions' = Dropped(requests, sessions)
      BY <1>2, <3>1
    <3>2. CASE \E S \in SUBSET DOMAIN plan : sessions' = Dropped(requests, Evaluated(S, Count))
      BY <1>3, <3>2
    <3> QED BY <2>3, <3>1, <3>2
  <2> QED BY <2>1, <2>2, <2>4, ContextDropped
<1>5. CASE RunSucceeds
  <2>1. UNCHANGED reply
    BY <1>5 DEF RunSucceeds
  <2>2. \A c \in Client : Calm(c) /\ (Listens(c)' => Listens(c))
    BY <1>1, <2>1, TurnCalm
  <2>3. PICK over \in SUBSET Sampled(plan) :
              /\ requests' = requests \ over /\ configured' = configured \ over
              /\ sessions' = Dropped(over, Rows)
              /\ \A c \in Client \ over : cursor'[c] = cursor[c]
    <3>1. PICK over \in SUBSET Sampled(plan) :
              /\ requests' = requests \ over /\ configured' = configured \ over
              /\ sessions' = Dropped(over, Rows)
              /\ \A c \in Client \cap over :
                    /\ generated'[c] = 0 /\ cursor'[c] = 0
                    /\ inbox'[c] = inbox[c] \/ (inbox'[c] = inbox[c] + 1 /\ Listens(c))
              /\ \A c \in Client \ over :
                    /\ cursor'[c] = cursor[c]
                    /\ c \in Sampled(plan) => /\ generated'[c] = generated[c] + 1
                                              /\ generated[c] + 1 < MaxTokens
                                              /\ inbox'[c] = inbox[c] + 1 /\ Listens(c)
                    /\ c \notin Sampled(plan) => generated'[c] = generated[c] /\ inbox'[c] = inbox[c]
              /\ generated' \in [Client -> Nat] /\ cursor' \in [Client -> Nat]
              /\ inbox' \in [Client -> Nat]
      BY <1>5, RunEffect DEF ThreadShape
    <3> QED BY <3>1
  <2>4. over \in SUBSET requests
    BY <1>2 DEF Sampled
  <2>5. Rows = Evaluated(DOMAIN plan, Count)
    BY DEF Rows
  <2>6. ASSUME NEW c \in requests', c \in configured, Listens(c)
        PROVE  c \in DOMAIN Rows /\ Rows[c] = At(c)'
    <3>1. c \in Client /\ c \in requests /\ c \notin over
      BY <1>2, <2>3, <2>6
    <3>2. c \in DOMAIN sessions /\ sessions[c] = At(c) /\ c \in DOMAIN Rows
      BY <1>3, <2>5, <2>6, <3>1 DEF ContextShape, Followed
    <3>3. At(c)' = cursor[c]
      BY <1>1, <2>3, <3>1 DEF At
    <3>4. CASE c \in DOMAIN plan
      <4>1. Rows[c] = sessions[c] + plan[c].count
        BY <3>2, <3>4 DEF Rows, Evaluated
      <4>2. RowOf(c)
        BY <1>2, <3>4, CountsAre
      <4>3. sessions[c] = plan[c].start
        BY <3>2, <3>4 DEF At
      <4> QED BY <3>2, <3>3, <4>1, <4>2, <4>3 DEF RowOf
    <3>5. CASE c \notin DOMAIN plan
      <4>1. Rows[c] = sessions[c]
        BY <1>3, <2>5, <3>2, <3>5
      <4> QED BY <3>2, <3>3, <3>5, <4>1 DEF At
    <3> QED BY <3>4, <3>5
  <2>7. /\ DOMAIN Rows \subseteq Client /\ \A c \in DOMAIN Rows : Rows[c] \in Nat
        /\ \A c \in Client \ requests : /\ c \in DOMAIN Rows <=> c \in DOMAIN sessions
                                        /\ c \in DOMAIN sessions => Rows[c] = sessions[c]
    BY <1>3, <2>5
  <2> HIDE DEF Count
  <2> QED BY <2>2, <2>3, <2>4, <2>6, <2>7, ContextDropped
<1> QED BY <1>4, <1>5 DEF Run

\* A direct iteration evaluates the prompts of those who wait for it.
LEMMA ContextDirect ==
    ASSUME IInv, PlaceShape, ContextShape, RunDirect
    PROVE  ContextShape'
<1>1. /\ UNCHANGED <<commands, pc, requests, configured, plan, cursor>> /\ batch \subseteq Client
      /\ \A c \in requests : Begun(c)
  BY DEF RunDirect, engine, IInv, DirectShape, RequestShape
<1>2. \A c \in batch : Fresh(c) /\ Untouched(c) /\ c \notin requests /\ Prompt[c] \in Nat
  BY <1>1, SizeAssumption DEF PlaceShape, PlaceOf, Fresh, Untouched, Begun
<1>3. \A c \in Client : At(c)' = At(c) /\ (Listens(c)' <=> Listens(c))
  BY <1>1 DEF At, Listens
<1>4. PICK S \in SUBSET batch :
          /\ sessions' = Evaluated(S, Prompt) \/ (S = {} /\ sessions' = sessions)
          /\ \/ \A c \in Client : reply'[c] = IF c \in S THEN "ok" ELSE IF c \in batch THEN "error" ELSE reply[c]
             \/ \A c \in Client : reply'[c] = IF c \in batch THEN "error" ELSE reply[c]
  <2>1. PICK live \in SUBSET batch :
          \/ /\ sessions' = Evaluated(live, Prompt)
             /\ reply' = [c \in Client |-> IF c \in live THEN "ok"
                                           ELSE IF c \in batch THEN "error"
                                           ELSE reply[c]]
          \/ /\ \/ sessions' = sessions
                \/ \E S \in SUBSET live : sessions' = Evaluated(S, Prompt)
             /\ reply' = [c \in Client |-> IF c \in batch THEN "error" ELSE reply[c]]
    BY DEF RunDirect
  <2>2. CASE /\ sessions' = Evaluated(live, Prompt)
             /\ reply' = [c \in Client |-> IF c \in live THEN "ok"
                                           ELSE IF c \in batch THEN "error"
                                           ELSE reply[c]]
    BY <2>2
  <2>3. CASE /\ sessions' = sessions
             /\ reply' = [c \in Client |-> IF c \in batch THEN "error" ELSE reply[c]]
    <3>1. {} \in SUBSET batch
      OBVIOUS
    <3> QED BY <2>3, <3>1
  <2>4. CASE /\ \E S \in SUBSET live : sessions' = Evaluated(S, Prompt)
             /\ reply' = [c \in Client |-> IF c \in batch THEN "error" ELSE reply[c]]
    <3>1. PICK S \in SUBSET live : sessions' = Evaluated(S, Prompt)
      BY <2>4
    <3>2. S \in SUBSET batch
      OBVIOUS
    <3> QED BY <2>4, <3>1, <3>2
  <2> QED BY <2>1, <2>2, <2>3, <2>4
<1>5. \A c \in DOMAIN sessions : sessions[c] \in Nat
  BY DEF ContextShape
<1>6. \A c \in S : Prompt[c] \in Nat
  BY <1>2
<1>7. DOMAIN Evaluated(S, Prompt) = DOMAIN sessions \cup S
  BY <1>5, <1>6, EvaluatedIs
<1>8. \A c \in DOMAIN Evaluated(S, Prompt) : Evaluated(S, Prompt)[c] \in Nat
  BY <1>5, <1>6, EvaluatedIs
<1>9. \A c \in DOMAIN sessions : c \notin S => Evaluated(S, Prompt)[c] = sessions[c]
  BY <1>5, <1>6, EvaluatedIs
<1>10. \A c \in S : c \notin DOMAIN sessions => Evaluated(S, Prompt)[c] = Prompt[c]
  <2> SUFFICES ASSUME NEW c \in S, c \notin DOMAIN sessions
               PROVE  Evaluated(S, Prompt)[c] = Prompt[c]
    OBVIOUS
  <2>1. Evaluated(S, Prompt)[c] = 0 + Prompt[c]
    BY DEF Evaluated
  <2> QED BY <1>6, <2>1
<1>11. \A c \in Client \ S : SameSession(c)
  BY <1>4, <1>7, <1>9 DEF SameSession
<1>12. DOMAIN sessions' \subseteq Client /\ \A c \in DOMAIN sessions' : sessions'[c] \in Nat
  <2>1. DOMAIN sessions' \subseteq Client
    BY <1>1, <1>4, <1>7 DEF ContextShape
  <2>2. \A c \in DOMAIN sessions' : sessions'[c] \in Nat
    <3>1. CASE sessions' = Evaluated(S, Prompt)
      BY <1>8, <3>1
    <3>2. CASE sessions' = sessions
      BY <1>5, <3>2
    <3> QED BY <1>4, <3>1, <3>2
  <2> QED BY <2>1, <2>2
<1>13. \A c \in Client : InQueue("submit", c)' <=> InQueue("submit", c)
  BY <1>1, SameQueue
<1>14. ASSUME NEW c \in Client PROVE Followed(c)' /\ Prepared(c)'
  <2>1. Followed(c) /\ Prepared(c)
    BY DEF ContextShape
  <2>2. CASE c \in S
    <3>1. c \notin requests' /\ ~Untouched(c)' /\ pc'[c] = "prefilling"
      BY <1>1, <1>2, <1>4, <2>2 DEF Untouched, Fresh
    <3>2. c \notin DOMAIN sessions
      BY <1>2, <2>1, <2>2 DEF Prepared
    <3>3. c \in DOMAIN sessions' /\ sessions'[c] = Prompt[c]
      BY <1>4, <1>7, <1>10, <2>2, <3>2
    <3> QED BY <3>1, <3>3 DEF Followed, Prepared
  <2>3. CASE c \notin S
    <3>1. SameSession(c)
      BY <1>11, <2>3
    <3>2. Calm(c)
      BY <1>1, <1>4, <1>13, <2>3 DEF Calm, Untouched, Resumable
    <3>3. At(c)' = At(c) /\ (Listens(c)' <=> Listens(c))
      BY <1>3
    <3> QED BY <1>1, <2>1, <3>1, <3>2, <3>3, FollowedStays, PreparedStays
  <2> QED BY <2>2, <2>3
<1> QED BY <1>12, <1>14 DEF ContextShape

\* A panic leaves the worker without requests.
LEMMA ContextPanic ==
    ASSUME IInv, PlaceShape, ThreadShape, ContextShape, Panic
    PROVE  ContextShape'
<1>1. /\ requests' = requests \ requests /\ configured' = configured \ requests
      /\ \A c \in Client : reply'[c] \in {reply[c], "error"}
  BY DEF Panic, FailAll, Dismiss, Forget
<1>2. \A c \in Client : pc'[c] \in {pc[c], "done"}
  BY DEF Panic, Go, IInv, QueueShape
<1>3. \A c \in Client : InQueue("submit", c)' => InQueue("submit", c)
  <2>1. CASE UNCHANGED commands
    BY <2>1, SameQueue
  <2>2. CASE commands # <<>> /\ commands' = Tail(commands)
    <3>1. PICK m : m = Head(commands)
      OBVIOUS
    <3>2. \A o, d : InQueue(o, d)' <=> InQueue(o, d) /\ ~(o = m.op /\ d = m.client)
      BY <2>2, <3>1, TailQueue DEF IInv, PlaceShape
    <3> QED BY <3>2
  <2> QED BY <2>1, <2>2 DEF Panic
<1>4. \A c \in Client : Calm(c) /\ (Listens(c)' => Listens(c))
  BY <1>1, <1>2, <1>3, WorkerCalm
<1>5. CASE sessions' = Dropped(requests, sessions)
  <2>1. /\ DOMAIN sessions \subseteq Client /\ \A c \in DOMAIN sessions : sessions[c] \in Nat
    BY DEF ContextShape
  <2> QED BY <1>1, <1>4, <1>5, <2>1, ContextDropped
<1>6. CASE sessions' = sessions
  BY <1>1, <1>4, <1>6, ContextSame
<1> QED BY <1>5, <1>6 DEF Panic

\* Every step keeps the sessions in step with the cursors,
LEMMA ContextKept ==
    IInv /\ PlaceShape /\ ThreadShape /\ NumberShape /\ ContextShape /\ [Next]_vars => ContextShape'
<1> SUFFICES ASSUME IInv, PlaceShape, ThreadShape, NumberShape, ContextShape, [Next]_vars
             PROVE  ContextShape'
  OBVIOUS
<1>1. ASSUME NEW c \in Client, Begin(c) \/ RequestStep(c) \/ Abandon(c) PROVE ContextShape'
  <2>1. UNCHANGED <<sessions, requests, configured, plan, cursor>>
    BY <1>1 DEF Begin, RequestStep, Resume, PrefillFails, TakeToken, TakeVerdict, Cleanup,
                Abandon, engine, workerVars
  <2>2. \A d \in Client : Calm(d) /\ (Listens(d)' => Listens(d) \/ d \notin requests) /\ At(d)' = At(d)
    BY <1>1, <2>1, ThreadsCalm DEF At
  <2> QED BY <2>1, <2>2, ContextSame
<1>2. CASE ApplyControls
  <2>1. /\ requests' = requests \ stopped /\ configured' = configured \ stopped
        /\ sessions' = Dropped(stopped, sessions)
        /\ UNCHANGED <<commands, pc, reply, plan>>
        /\ \A c \in Client \ stopped : cursor'[c] = cursor[c]
    BY <1>2 DEF ApplyControls, Dismiss, Forget, Removed
  <2>2. \A c \in Client : Calm(c) /\ (Listens(c)' => Listens(c))
    BY <2>1, TurnCalm
  <2>3. /\ DOMAIN sessions \subseteq Client /\ \A c \in DOMAIN sessions : sessions[c] \in Nat
        /\ stopped \in SUBSET requests /\ requests \subseteq Client
    BY DEF ContextShape, IInv, RequestShape
  <2>4. ASSUME NEW c \in requests', c \in configured, Listens(c)
        PROVE  c \in DOMAIN sessions /\ sessions[c] = At(c)'
    <3>1. c \in Client /\ c \in requests /\ c \notin stopped
      BY <2>1, <2>3, <2>4
    <3>2. At(c)' = At(c)
      BY <2>1, <3>1 DEF At
    <3> QED BY <2>4, <3>1, <3>2 DEF ContextShape, Followed
  <2> QED BY <2>1, <2>2, <2>3, <2>4, ContextDropped
<1>3. CASE FailQueued \/ WorkerGone
  <2>1. UNCHANGED <<sessions, requests, configured, plan, cursor>>
    BY <1>3 DEF FailQueued, WorkerGone, engine
  <2>2. \A c \in Client : pc'[c] \in {pc[c], "done"} /\ reply'[c] \in {reply[c], "error"}
    BY <1>3 DEF FailQueued, WorkerGone, IInv, QueueShape
  <2>3. \A c \in Client : InQueue("submit", c)' => InQueue("submit", c)
    <3>1. CASE UNCHANGED commands
      BY <3>1, SameQueue
    <3>2. CASE commands # <<>> /\ commands' = Tail(commands)
      <4>1. PICK m : m = Head(commands)
        OBVIOUS
      <4>2. \A o, d : InQueue(o, d)' <=> InQueue(o, d) /\ ~(o = m.op /\ d = m.client)
        BY <3>2, <4>1, TailQueue DEF IInv, PlaceShape
      <4> QED BY <4>2
    <3>3. CASE commands' = <<>>
      BY <3>3, NoQueue
    <3> QED BY <1>3, <3>1, <3>2, <3>3 DEF FailQueued, WorkerGone
  <2>4. \A c \in Client : Calm(c) /\ (Listens(c)' => Listens(c))
    BY <2>2, <2>3, WorkerCalm
  <2>5. \A c \in Client : At(c)' = At(c)
    BY <2>1 DEF At
  <2> QED BY <2>1, <2>4, <2>5, ContextSame
<1>4. CASE TakeDirect \/ UNCHANGED vars
  <2>1. UNCHANGED <<sessions, requests, configured, plan, cursor, commands, pc, reply>>
    BY <1>4 DEF TakeDirect, vars, engine, workerVars, clientVars, threads
  <2>2. \A c \in Client : Calm(c) /\ (Listens(c)' => Listens(c)) /\ At(c)' = At(c)
    BY <2>1, TurnCalm DEF At
  <2> QED BY <2>1, <2>2, ContextSame
<1> QED BY <1>1, <1>2, <1>3, <1>4, ContextHandled, ContextPlanned, ContextSetUp, ContextRun,
           ContextDirect, ContextPanic DEF Next, WorkerStep

\* and there are none at the start.
LEMMA ContextInitially == Init => ContextShape
<1> SUFFICES ASSUME Init PROVE ContextShape
  OBVIOUS
<1>1. DOMAIN sessions = {}
  BY DEF Init
<1>2. requests = {} /\ \A c \in Client : pc[c] = "idle"
  BY DEF Init
<1> QED BY <1>1, <1>2 DEF ContextShape, Followed, Prepared, Untouched, Resumable

-----------------------------------------------------------------------------
(* Types.                                                                      *)

\* What the worker and the engine keep beside their requests.
EngineShape ==
    /\ prefills \in 0 .. 1 /\ viable \in BOOLEAN
    /\ measured \in SUBSET (1 .. Lanes)
    /\ lastDirect \in BOOLEAN /\ worker \in Worker
    /\ Len(commands) <= Capacity

\* The queue is never longer than it was made.
LEMMA QueueBounded ==
    ASSUME IInv, Len(commands) <= Capacity, [Next]_vars
    PROVE  Len(commands') <= Capacity
<1>a. Capacity \in Nat /\ commands \in Seq(Message) /\ Len(commands) \in Nat
  BY CapacityAssumption, LenProperties DEF IInv, QueueShape
<1>1. ASSUME NEW op, NEW c, Send(op, c) PROVE Len(commands') <= Capacity
  <2>1. CASE Accepts
    <3>1. commands' = Append(commands, Command(op, c)) /\ Len(commands) < Capacity
      BY <1>1, <2>1 DEF Send, Accepts
    <3>2. Len(commands') = Len(commands) + 1
      BY <1>a, <3>1
    <3> QED BY <1>a, <3>1, <3>2
  <2>2. CASE ~Accepts
    BY <1>1, <2>2 DEF Send
  <2> QED BY <2>1, <2>2
<1>2. CASE commands # <<>> /\ commands' = Tail(commands)
  <2>1. Len(commands') = Len(commands) - 1
    BY <1>a, <1>2, HeadTailProperties
  <2> QED BY <1>a, <2>1
<1>3. CASE commands' = <<>>
  <2>1. Len(commands') = 0
    BY <1>3
  <2> QED BY <1>a, <2>1
<1>4. CASE UNCHANGED commands
  BY <1>4
<1>5. ASSUME NEW c \in Client, Begin(c) \/ RequestStep(c) \/ Abandon(c)
      PROVE  UNCHANGED commands \/ \E op : Send(op, c)
  BY <1>5 DEF Begin, RequestStep, Resume, PrefillFails, TakeToken, TakeVerdict, Cleanup, Abandon
<1>6. CASE WorkerStep \/ Panic \/ UNCHANGED vars
  <2>1. \/ UNCHANGED commands
        \/ commands # <<>> /\ commands' = Tail(commands)
        \/ commands' = <<>>
    BY <1>6 DEF WorkerStep, Panic, Handle, ApplyControls, TakeDirect, TakePlan, Setup, Run,
                RunDirect, FailQueued, WorkerGone, vars
  <2> QED BY <1>2, <1>3, <1>4, <2>1
<1> QED BY <1>1, <1>4, <1>5, <1>6 DEF Next

\* A prefill iteration comes after at most one other, when there are rows to decode.
LEMMA PrefillsAlternate ==
    ASSUME prefills \in 0 .. 1, NEW p, NEW S
    PROVE  Prefills(p, S) \in 0 .. 1
<1>1. CASE ~Mixes(S) /\ PrefillPhase(S) /\ \E c \in S : Decoding(c)
  <2>1. prefills < 1
    BY <1>1 DEF PrefillPhase
  <2>2. prefills + 1 \in 0 .. 1
    BY <2>1
  <2> QED BY <1>1, <2>2 DEF Prefills
<1>2. CASE ~(~Mixes(S) /\ PrefillPhase(S) /\ \E c \in S : Decoding(c))
  <2>1. Prefills(p, S) = prefills \/ Prefills(p, S) = 0
    BY <1>2 DEF Prefills
  <2> QED BY <2>1
<1> QED BY <1>1, <1>2

\* The batches whose duration is measured have no more rows than there are lanes.
LEMMA MeasuresFit ==
    ASSUME IInv, MemoryHeld, EngineShape, Observe(plan)
    PROVE  measured' \in SUBSET (1 .. Lanes) /\ viable' \in BOOLEAN
<1> DEFINE rows == Cardinality({c \in DOMAIN plan : plan[c].decode})
<1>1. /\ measured' = measured \/ (rows > 0 /\ measured' = measured \cup {rows})
      /\ viable' \in {viable, FALSE}
  BY DEF Observe
<1>2. rows \in Nat /\ rows <= Lanes
  <2>1. active \subseteq Client /\ {c \in DOMAIN plan : plan[c].decode} \subseteq active
    BY DEF IInv, RequestShape, Tracked
  <2>2. IsFiniteSet(active) /\ Cardinality(active) \in Nat
    BY <2>1, ActiveIsFinite
  <2>3. rows \in Nat /\ rows <= Cardinality(active)
    BY <2>1, <2>2, FS_Subset, FS_CardinalityType
  <2>4. Cardinality(active) <= Lanes /\ Lanes \in Nat
    BY SizeAssumption DEF MemoryHeld
  <2> HIDE DEF rows
  <2> QED BY <2>2, <2>3, <2>4
<1> HIDE DEF rows
<1>3. rows > 0 => rows \in 1 .. Lanes
  BY <1>2, SizeAssumption
<1> QED BY <1>1, <1>3 DEF EngineShape

\* Every step keeps all this,
LEMMA EngineShapeKept == IInv /\ MemoryHeld /\ EngineShape /\ [Next]_vars => EngineShape'
<1> SUFFICES ASSUME IInv, MemoryHeld, EngineShape, [Next]_vars PROVE EngineShape'
  OBVIOUS
<1>1. Len(commands') <= Capacity
  BY QueueBounded DEF EngineShape
<1>2. ASSUME NEW c \in Client, Begin(c) \/ RequestStep(c) \/ Abandon(c)
      PROVE  UNCHANGED <<prefills, viable, measured, lastDirect, worker>>
  BY <1>2 DEF Begin, RequestStep, Resume, PrefillFails, TakeToken, TakeVerdict, Cleanup,
              Abandon, engine, workerVars
<1>3. ASSUME UNCHANGED <<prefills, viable, measured>>, lastDirect' \in BOOLEAN, worker' \in Worker
      PROVE  EngineShape'
  BY <1>1, <1>3 DEF EngineShape
<1>4. CASE Handle
  <2>1. UNCHANGED <<prefills, viable, measured, lastDirect, worker>>
    BY <1>4 DEF Handle, Submit, Cancel, engine
  <2> QED BY <1>3, <2>1 DEF EngineShape
<1>5. CASE ApplyControls \/ TakeDirect \/ Setup \/ RunDirect \/ FailQueued \/ WorkerGone \/ Panic
           \/ UNCHANGED vars
  <2>1. UNCHANGED <<prefills, viable, measured>>
    BY <1>5 DEF ApplyControls, TakeDirect, Setup, RunDirect, FailQueued, WorkerGone, Panic,
                engine, vars
  <2>2. lastDirect' \in {lastDirect, TRUE}
    BY <1>5 DEF ApplyControls, TakeDirect, Setup, RunDirect, FailQueued, WorkerGone, Panic,
                vars, workerVars
  <2>3. worker' \in Worker
    BY <1>5 DEF ApplyControls, TakeDirect, Setup, RunDirect, FailQueued, WorkerGone, Panic,
                vars, workerVars, EngineShape, Worker
  <2> QED BY <1>3, <2>1, <2>2, <2>3 DEF EngineShape
<1>6. CASE TakePlan
  <2>1. PICK S, A : PlanIteration(S) /\ A = active'
    BY <1>6 DEF TakePlan
  <2>2. UNCHANGED <<viable, measured>> /\ \E p : prefills' = Prefills(p, A)
    BY <2>1 DEF PlanIteration
  <2>3. lastDirect' \in {lastDirect, FALSE} /\ worker' \in Worker
    BY <1>6 DEF TakePlan, Worker
  <2> QED BY <1>1, <2>2, <2>3, PrefillsAlternate DEF EngineShape
<1>7. CASE Run
  <2>1. UNCHANGED <<prefills, lastDirect>> /\ worker' = "drain"
    BY <1>7 DEF Run
  <2>2. measured' \in SUBSET (1 .. Lanes) /\ viable' \in BOOLEAN
    <3>1. CASE RunFails
      BY <3>1 DEF RunFails, EngineShape
    <3>2. CASE RunSucceeds
      BY <3>2, MeasuresFit DEF RunSucceeds
    <3> QED BY <1>7, <3>1, <3>2 DEF Run
  <2> QED BY <1>1, <2>1, <2>2 DEF EngineShape, Worker
<1> QED BY <1>2, <1>3, <1>4, <1>5, <1>6, <1>7 DEF Next, WorkerStep, EngineShape

\* which holds at the start.
LEMMA EngineShapeInitially == Init => EngineShape
<1> SUFFICES ASSUME Init PROVE EngineShape
  OBVIOUS
<1>1. Len(commands) = 0 /\ 0 <= Capacity
  BY CapacityAssumption DEF Init
<1>2. prefills = 0 /\ viable = TRUE /\ measured = {} /\ lastDirect = FALSE /\ worker = "drain"
  BY DEF Init, EngineInit
<1>3. 0 \in 0 .. 1 /\ "drain" \in Worker
  BY DEF Worker
<1>4. prefills \in 0 .. 1 /\ lastDirect \in BOOLEAN /\ viable \in BOOLEAN /\ measured \in SUBSET (1 .. Lanes)
  BY <1>2, <1>3
<1> QED BY <1>1, <1>2, <1>3, <1>4 DEF EngineShape

\* All that is above, in one invariant.
Whole ==
    /\ IInv /\ MemoryHeld /\ PlaceShape /\ ThreadShape /\ NumberShape /\ TokenShape
    /\ ContextShape /\ EngineShape

\* It holds at the start, after every step, and so always.
LEMMA WholeInitially == Init => Whole
BY Initially, MemoryInitially, PlaceInitially, ThreadInitially, NumberInitially, TokenInitially,
   ContextInitially, EngineShapeInitially DEF Whole

LEMMA WholeKept == Whole /\ [Next]_vars => Whole'
BY StepKeeps, MemoryKept, PlaceKept, ThreadKept, NumberKept, TokenKept, ContextKept,
   EngineShapeKept DEF Whole

LEMMA WholeHolds == Spec => []Whole
BY WholeInitially, WholeKept, PTL DEF Spec

\* With it every variable has its type.
LEMMA WholeIsTyped == Whole => TypeOK
<1> SUFFICES ASSUME Whole PROVE TypeOK
  OBVIOUS
<1>1. /\ IInv /\ MemoryHeld /\ PlaceShape /\ ThreadShape /\ NumberShape /\ TokenShape
      /\ ContextShape /\ EngineShape
  BY DEF Whole
<1>2. MaxTokens \in Nat
  BY SizeAssumption
<1>3. EngineTypeOK
  <2>1. waiting \subseteq Client /\ active \subseteq Client
    BY <1>1 DEF IInv, Tracked, RequestShape
  <2>2. \A c \in Client : generated[c] \in 0 .. MaxTokens
    <3> SUFFICES ASSUME NEW c \in Client PROVE generated[c] \in 0 .. MaxTokens
      OBVIOUS
    <3>1. generated[c] \in Nat /\ (generated[c] < MaxTokens \/ generated[c] = 0)
      BY <1>1 DEF NumberShape, NumberOf
    <3> QED BY <1>2, <3>1
  <2>3. generated \in [Client -> 0 .. MaxTokens] /\ cursor \in [Client -> Nat]
    BY <1>1, <2>2 DEF NumberShape
  <2>4. used \in Nat
    <3>1. IsFiniteSet(active) /\ \A c \in active : Reservation[c] \in Nat
      BY <2>1, ActiveIsFinite
    <3> QED BY <1>1, <3>1, SumIsNat DEF MemoryHeld
  <2> QED BY <1>1, <2>1, <2>3, <2>4 DEF EngineTypeOK, EngineShape
<1>4. /\ \A i \in DOMAIN commands : /\ commands[i].op \in {"submit", "cancel", "direct", "drop"}
                                    /\ commands[i].client \in Client
      /\ Len(commands) <= Capacity
  <2>1. commands \in Seq(Message) /\ DOMAIN commands = 1 .. Len(commands)
    BY <1>1 DEF IInv, QueueShape
  <2>2. \A i \in DOMAIN commands : commands[i] \in Message
    BY <2>1, ElementOfSeq
  <2> QED BY <1>1, <2>2 DEF Message, Ops, EngineShape
<1>5. \A i \in DOMAIN direct : direct[i] \in Feature
  <2> SUFFICES ASSUME NEW i \in DOMAIN direct PROVE direct[i] \in Feature
    OBVIOUS
  <2>1. direct \in Seq(Client) /\ i \in 1 .. Len(direct)
    BY <1>1 DEF IInv, DirectShape
  <2>2. direct[i] \in Client
    BY <2>1, ElementOfSeq
  <2>3. InDirect(direct[i])
    BY <2>1 DEF InDirect
  <2> QED BY <1>1, <2>2, <2>3 DEF PlaceShape, PlaceOf, Fresh
<1>6. batch \subseteq Feature
  BY <1>1 DEF PlaceShape, PlaceOf, Fresh, IInv, DirectShape
<1>7. inbox \in [Client -> 0 .. MaxTokens] /\ taken \in [Client -> 0 .. MaxTokens]
  <2>1. ASSUME NEW c \in Client PROVE inbox[c] \in 0 .. MaxTokens /\ taken[c] \in 0 .. MaxTokens
    <3>1. inbox[c] \in Nat /\ taken[c] \in Nat
      BY <1>1 DEF ThreadShape
    <3>2. CASE pc[c] = "generating"
      <4>1. taken[c] + inbox[c] <= MaxTokens
        BY <1>1, <3>2 DEF TokenShape, TokensFit
      <4> QED BY <1>2, <3>1, <4>1
    <3>3. CASE pc[c] # "generating"
      <4>1. inbox[c] = 0 /\ taken[c] = 0
        BY <1>1, <3>3 DEF ThreadShape, ThreadOf
      <4> QED BY <1>2, <4>1
    <3> QED BY <3>2, <3>3
  <2> QED BY <1>1, <2>1 DEF ThreadShape
<1> QED BY <1>1, <1>3, <1>4, <1>5, <1>6, <1>7
        DEF TypeOK, IInv, RequestShape, QueueShape, EngineShape, ContextShape, ThreadShape, Verdict

\* Every variable of the scheduler, of its engine and of the request threads holds
\* what the code can put there: the queue stays within its slots, the measured
\* batches within the lanes, the tokens of a request within what it asked for.
THEOREM SchedulerTyped == Spec => []TypeOK
BY WholeHolds, WholeIsTyped, PTL

\* At the start no thread is done, and every step keeps their lanes free.
LEMMA LanesAre == Init => LanesComeBack
BY DEF Init, LanesComeBack

LEMMA LanesStay == Whole /\ LanesComeBack /\ [Next]_vars => LanesComeBack'
BY LanesKept DEF Whole

\* A request whose commands were all accepted leaves no session behind: the drop it
\* sends comes after its cancellation and no iteration makes the session again
\* (cleanup_local_generation_session, cancel, execute_plan).
THEOREM LanesReturn == Spec => []LanesComeBack
BY WholeHolds, LanesAre, LanesStay, PTL DEF Spec

\* Every token generated for a request was given to its callback or is on its way,
\* across the hand-over of a feature request's first token and every way in which a
\* request ends (finish_iteration, resume_generation, submit).
THEOREM TokensArrive == Spec => []TokensReachTheirRequest
BY WholeHolds, PTL DEF Whole, TokenShape

\* The sessions of those who listen are theirs and are where the cursors are.
LEMMA WholeContexts == Whole => ContextIsWhole
BY DEF Whole, ContextShape, Followed, At, ContextIsWhole, IInv, Tracked, RequestShape

\* The cursor the scheduler moves when it plans and the session the runtime moves
\* when it runs agree for every request that listens: no token of its context is
\* skipped or evaluated twice (plan_iteration, prepare_runtime_sessions, execute_plan).
THEOREM ContextsAreWhole == Spec => []ContextIsWhole
BY WholeHolds, WholeContexts, PTL
===============================================================================
