-------------------------- MODULE IterationScheduler --------------------------
(* The worker thread that owns the runtime of a skippy server, and the         *)
(* request threads that use it (frontend/iteration_scheduler.rs). A plain      *)
(* request submits its prompt and takes the tokens the worker generates; a     *)
(* feature request first has its prompt evaluated by a direct iteration, and   *)
(* then hands the generation over (resume_generation). Both release their      *)
(* runtime session with a last command.                                        *)
(*                                                                             *)
(* Commands travel through one bounded queue, and are refused when it is full; *)
(* tokens and verdicts come back through a channel of each request, which the  *)
(* worker does not wait for. Feature requests leave their session to the       *)
(* request thread (retain_runtime).                                            *)
EXTENDS BatchScheduler, Sequences, SequencesExt

CONSTANTS
    Feature,         \* the requests with a direct prefill
    Capacity,        \* slots of the command queue
    Permits,         \* requests served at a time (generation_concurrency)
    Faults           \* of "setup", "run", "missing", "panic"

\* The queue is made with MIN_COMMAND_QUEUE_CAPACITY slots at least.
ASSUME CapacityAssumption == Capacity \in Nat \ {0}
\* A longer prompt would take several direct iterations.
ASSUME FeatureAssumption ==
    Feature \subseteq Client /\ \A c \in Feature : Prompt[c] <= Budget

VARIABLES
    commands,        \* the command queue
    requests,        \* the worker's requests
    configured,      \* those whose runtime session is set up
    direct,          \* the queue of direct iterations
    lastDirect,      \* last_served_direct
    worker,          \* what the worker does next
    plan,            \* the planned rows, from "setup" to "run"
    batch,           \* the direct iterations, while "direct"
    sessions,        \* runtime sessions: the tokens each has evaluated
    pc,              \* per request: where its thread is
    inbox,           \* per request: tokens on their way to it
    verdict,         \* per request: what follows those tokens
    reply,           \* per request: the answer to its direct iteration
    taken,           \* per request: tokens its on_token was given
    stopped,         \* the worker's requests with a Stop among their controls
    refused          \* requests one of whose commands was refused

workerVars == <<requests, configured, direct, lastDirect, worker, plan, batch,
                sessions>>
threads == <<pc, inbox, verdict, reply, taken>>
clientVars == <<threads, stopped, refused>>
vars == <<engine, commands, workerVars, clientVars>>

Init ==
    /\ EngineInit
    /\ commands = <<>> /\ requests = {} /\ configured = {} /\ direct = <<>>
    /\ lastDirect = FALSE /\ worker = "drain" /\ plan = <<>> /\ batch = {}
    /\ sessions = <<>>
    /\ pc = [c \in Client |-> "idle"]
    /\ inbox = [c \in Client |-> 0]
    /\ verdict = [c \in Client |-> "none"]
    /\ reply = [c \in Client |-> "none"]
    /\ taken = [c \in Client |-> 0]
    /\ stopped = {} /\ refused = {}

Command(op, c) == [op |-> op, client |-> c]
PC == {"idle", "prefilling", "generating", "leaving", "dropping", "done"}
Worker == {"drain", "turn", "setup", "run", "direct", "panicked", "closing", "gone"}

\* The request thread still holds the receiver of its events.
Listens(c) == pc[c] = "generating"

Restricted(f, S) == [c \in DOMAIN f \cap S |-> f[c]]

\* Lanes no session occupies.
FreeLanes == Lanes - Cardinality(DOMAIN sessions)

-----------------------------------------------------------------------------
(* Request threads.                                                            *)

\* try_send: the queue takes the command unless it is full or the worker gone.
Accepts == worker # "gone" /\ Len(commands) < Capacity
Send(op, c) ==
    IF Accepts
    THEN commands' = Append(commands, Command(op, c)) /\ refused' = refused
    ELSE commands' = commands /\ refused' = refused \cup {c}

Go(c, state) == pc' = [pc EXCEPT ![c] = state]

\* A request thread that leaves drops its channels, and with the tokens on their
\* way the controls the worker waits for.
Leave(c) ==
    /\ Go(c, "leaving")
    /\ inbox' = [inbox EXCEPT ![c] = 0]
    /\ taken' = [taken EXCEPT ![c] = 0]
    /\ verdict' = [verdict EXCEPT ![c] = "none"]
    /\ reply' = [reply EXCEPT ![c] = "none"]
    /\ stopped' = IF c \in requests /\ inbox[c] > 0 THEN stopped \cup {c} ELSE stopped

\* generate, or the direct iteration of a feature request's prompt.
Begin(c) ==
    /\ pc[c] = "idle"
    /\ Cardinality({d \in Client : pc[d] \notin {"idle", "done"}}) < Permits
    /\ Send(IF c \in Feature THEN "direct" ELSE "submit", c)
    /\ Go(c, IF ~Accepts THEN "leaving"
             ELSE IF c \in Feature THEN "prefilling" ELSE "generating")
    /\ UNCHANGED <<engine, workerVars, inbox, verdict, reply, taken, stopped>>

\* The prompt is evaluated and the first token sampled: the request stops
\* there, is cancelled, has all its tokens, or hands the generation over.
Resume(c) ==
    /\ pc[c] = "prefilling" /\ reply[c] = "ok"
    /\ \/ /\ Leave(c)
          /\ UNCHANGED <<commands, refused>>
       \/ /\ MaxTokens > 1
          /\ Send("submit", c)
          /\ IF Accepts
             THEN /\ Go(c, "generating")
                  /\ taken' = [taken EXCEPT ![c] = 1]
                  /\ UNCHANGED <<inbox, verdict, reply, stopped>>
             ELSE Leave(c)
    /\ UNCHANGED <<engine, workerVars>>

\* The direct iteration failed, or the request ended while it ran.
PrefillFails(c) ==
    /\ pc[c] = "prefilling" /\ reply[c] # "none"
    /\ Leave(c)
    /\ UNCHANGED <<engine, commands, workerVars, refused>>

\* on_token: go on, or stop; the thread keeps listening until its verdict.
TakeToken(c) ==
    /\ pc[c] = "generating" /\ inbox[c] > 0
    /\ inbox' = [inbox EXCEPT ![c] = @ - 1]
    /\ taken' = [taken EXCEPT ![c] = @ + 1]
    /\ stopped' \in {stopped, stopped \cup ({c} \cap requests)}
    /\ UNCHANGED <<engine, commands, workerVars, pc, verdict, reply, refused>>

\* on_token fails, or the request is cancelled: the worker is told, if the
\* queue has room, and the thread leaves.
Abandon(c) ==
    /\ pc[c] = "generating"
    /\ Leave(c)
    /\ Send("cancel", c)
    /\ UNCHANGED <<engine, workerVars>>

\* Complete, Error, or a channel whose sender is gone.
TakeVerdict(c) ==
    /\ pc[c] = "generating" /\ inbox[c] = 0
    /\ verdict[c] # "none"
    /\ Leave(c)
    /\ UNCHANGED <<engine, commands, workerVars, refused>>

\* Mutant: a resumed request leaves its session to the worker.
CleanupOwn(c) ==
    /\ pc[c] = "leaving"
    /\ IF c \in Feature THEN UNCHANGED <<commands, refused>> ELSE Send("drop", c)
    /\ Go(c, IF Accepts /\ c \notin Feature THEN "dropping" ELSE "done")
    /\ UNCHANGED <<engine, workerVars, inbox, verdict, reply, taken, stopped>>

\* cleanup_local_generation_session: drop the session through the worker, or
\* not at all when the command is refused.
Cleanup(c) ==
    /\ pc[c] = "leaving"
    /\ Send("drop", c)
    /\ Go(c, IF Accepts THEN "dropping" ELSE "done")
    /\ UNCHANGED <<engine, workerVars, inbox, verdict, reply, taken, stopped>>

-----------------------------------------------------------------------------
(* The worker: commands.                                                       *)

\* Mutant: the controls of a request outlive it.
ForgetRequests(S) ==
    /\ requests' = requests \ S
    /\ configured' = configured \ S
    /\ stopped' = stopped

\* The worker forgets the requests S, and their pending controls.
Forget(S) ==
    /\ requests' = requests \ S
    /\ configured' = configured \ S
    /\ stopped' = stopped \ S

\* They end with verdict v.
Dismiss(S, v) ==
    /\ Forget(S)
    /\ verdict' = [c \in Client |-> IF c \in S /\ Listens(c) THEN v ELSE verdict[c]]

Without(f, S) == Restricted(f, DOMAIN f \ S)

\* Of the requests S that end, those whose session the worker drops.
Dropped(S, f) == Without(f, S \ Feature)

\* Mutants: the hand-over forgets one of these.
NoTokens(c) == 0
NoCursor(c) == 0
AlwaysConfigured(c) == TRUE

\* What a resumed request brings along: its first token, its evaluated prompt
\* and the session that holds it.
ResumedTokens(c) == IF c \in Feature THEN 1 ELSE 0
ResumedCursor(c) == IF c \in Feature THEN Prompt[c] ELSE 0
RuntimeConfigured(c) == c \in Feature

\* A full queue, or a sequence that is there already, is an error.
Submit(c) ==
    IF c \in Known \/ Cardinality(waiting) >= MaxWaiting
    THEN /\ verdict' = [verdict EXCEPT ![c] = IF Listens(c) THEN "error" ELSE @]
         /\ UNCHANGED <<engine, requests, configured>>
    ELSE /\ waiting' = waiting \cup {c}
         /\ requests' = requests \cup {c}
         /\ configured' = configured \cup (IF RuntimeConfigured(c) THEN {c} ELSE {})
         /\ generated' = [generated EXCEPT ![c] = ResumedTokens(c)]
         /\ cursor' = [cursor EXCEPT ![c] = ResumedCursor(c)]
         /\ UNCHANGED <<active, used, prefills, measured, viable, verdict>>

\* A request the worker does not know loses its session too.
Cancel(c) ==
    /\ Removed({c}, generated)
    /\ Forget({c})
    /\ sessions' = IF c \in requests \cap Feature THEN sessions ELSE Without(sessions, {c})
    /\ UNCHANGED <<prefills, measured, viable>>

Handle ==
    /\ worker = "drain" /\ commands # <<>>
    /\ commands' = Tail(commands)
    /\ LET op == Head(commands).op
           c == Head(commands).client
       IN \/ /\ op = "submit"
             /\ Submit(c)
             /\ UNCHANGED <<pc, direct, sessions, stopped>>
          \/ /\ op = "cancel"
             /\ Cancel(c)
             /\ UNCHANGED <<pc, direct, verdict>>
          \/ /\ op = "direct"
             /\ direct' = Append(direct, c)
             /\ UNCHANGED <<engine, pc, requests, configured, sessions, verdict, stopped>>
          \/ /\ op = "drop"
             /\ sessions' = Without(sessions, {c})
             /\ Go(c, "done")
             /\ UNCHANGED <<engine, requests, configured, direct, verdict, stopped>>
    /\ UNCHANGED <<lastDirect, worker, plan, batch, inbox, reply, taken, refused>>

-----------------------------------------------------------------------------
(* The worker: turns.                                                          *)

\* A turn begins once the queue is drained and there is work. Requests whose
\* control says Stop are complete before anything else (apply_pending_controls).
HasTurn == worker = "drain" /\ commands = <<>> /\ (requests # {} \/ direct # <<>>)

ApplyControls ==
    /\ HasTurn /\ stopped # {}
    /\ worker' = "turn"
    /\ Removed(stopped, generated)
    /\ Dismiss(stopped, "complete")
    /\ sessions' = Dropped(stopped, sessions)
    /\ UNCHANGED <<prefills, measured, viable, commands, direct, lastDirect, plan,
                   batch, pc, inbox, reply, taken, refused>>

InTurn == worker = "turn" \/ (HasTurn /\ stopped = {})

\* Direct and planned work take turns while there is both (should_serve_direct).
ServesDirect == direct # <<>> /\ (requests = {} \/ ~lastDirect)

\* take_direct_iteration_batch: from the front, as many as the lanes and the
\* budget allow.
TakeDirect ==
    /\ InTurn /\ ServesDirect
    /\ LET Tokens(i) == Prompt[direct[i]]
           Together(k) == k <= Lanes /\ MapThenSumSet(Tokens, 1 .. k) <= Budget
       IN \E n \in 1 .. Len(direct) :
             /\ Together(n) /\ (n < Len(direct) => ~Together(n + 1))
             /\ batch' = {direct[i] : i \in 1 .. n}
             /\ direct' = SubSeq(direct, n + 1, Len(direct))
    /\ lastDirect' = TRUE
    /\ worker' = "direct"
    /\ UNCHANGED <<engine, commands, requests, configured, plan, sessions,
                   clientVars>>

TakePlan ==
    /\ InTurn /\ ~ServesDirect
    /\ \E S \in SUBSET waiting :
          /\ PlanIteration(S)
          /\ plan' = Plan(active \cup S)
    /\ IF plan' = <<>>
       THEN worker' = "drain" /\ lastDirect' = lastDirect
       ELSE /\ worker' = IF DOMAIN plan' \subseteq configured THEN "run" ELSE "setup"
            /\ lastDirect' = FALSE
    /\ UNCHANGED <<commands, requests, configured, direct, batch, sessions,
                   clientVars>>

\* prepare_runtime_sessions: new sessions in the order of the rows, while there
\* are lanes; a request that gets none fails alone.
Setup ==
    /\ worker = "setup"
    /\ LET new == DOMAIN plan \ configured
           First == {c \in new : Cardinality({d \in new : d < c}) < FreeLanes}
       IN \E ready \in SUBSET new :
             /\ Cardinality(ready) <= FreeLanes
             /\ "setup" \in Faults \/ ready = First
             /\ Removed(new \ ready, generated)
             /\ requests' = requests \ (new \ ready)
             /\ stopped' = stopped \ (new \ ready)
             /\ configured' = configured \cup ready
             /\ verdict' = [c \in Client |->
                              IF c \in new \ ready /\ Listens(c) THEN "error" ELSE verdict[c]]
             /\ sessions' = [c \in DOMAIN sessions \cup ready |->
                              IF c \in ready THEN 0 ELSE sessions[c]]
             /\ plan' = Without(plan, new \ ready)
    /\ worker' = IF plan' = <<>> THEN "drain" ELSE "run"
    /\ UNCHANGED <<prefills, measured, viable, commands, direct, lastDirect, batch, pc,
                   inbox, reply, taken, refused>>

\* The sessions of S have evaluated n[c] more tokens; one that was not there is
\* a new one.
Evaluated(S, n) ==
    [c \in DOMAIN sessions \cup S |->
        (IF c \in DOMAIN sessions THEN sessions[c] ELSE 0) + (IF c \in S THEN n[c] ELSE 0)]

HasLanes(S) == Cardinality(S \ DOMAIN sessions) <= FreeLanes

-----------------------------------------------------------------------------
(* The worker: iterations.                                                     *)

\* fail_all: every request and every queued direct iteration ends in an error.
FailAll ==
    /\ Removed(requests, generated)
    /\ Dismiss(requests, "error")
    /\ reply' = [c \in Client |-> IF \E i \in DOMAIN direct : direct[i] = c
                                  THEN "error" ELSE reply[c]]
    /\ direct' = <<>>

\* A batch that fails may have evaluated some of its rows.
RunFails ==
    /\ ~HasLanes(DOMAIN plan) \/ "run" \in Faults
    /\ FailAll
    /\ LET Count == [c \in DOMAIN plan |-> plan[c].count]
           Rows == DOMAIN plan
       IN \/ sessions' = Dropped(requests, sessions)
          \/ /\ HasLanes(Rows)
             /\ \E S \in SUBSET Rows :
                   sessions' = Dropped(requests, Evaluated(S, Count))
    /\ UNCHANGED <<measured, viable, inbox>>

\* execute_plan and finish_iteration. A token goes to the thread that listens;
\* if none does, the request is cancelled.
RunSucceeds ==
    /\ HasLanes(DOMAIN plan)
    /\ LET Count == [c \in DOMAIN plan |-> plan[c].count]
           Samples == {"token", "end"} \cup (Faults \cap {"missing"})
       IN \E sample \in [Sampled(plan) -> Samples] :
             LET tokens == {c \in Sampled(plan) : sample[c] = "token"}
                 over == Ended(plan, sample) \cup {c \in tokens : ~Listens(c)}
                 failed == {c \in Sampled(plan) : sample[c] = "missing"}
             IN /\ Removed(over, Generated(plan, sample))
                /\ Forget(over)
                /\ sessions' = Dropped(over, Evaluated(DOMAIN plan, Count))
                /\ inbox' = [c \in Client |-> IF c \in tokens /\ Listens(c)
                                              THEN inbox[c] + 1 ELSE inbox[c]]
                /\ verdict' = [c \in Client |->
                                IF c \notin over \/ ~Listens(c) THEN verdict[c]
                                ELSE IF c \in failed THEN "error" ELSE "complete"]
    /\ Observe(plan)
    /\ UNCHANGED <<direct, reply>>

Run ==
    /\ worker = "run"
    /\ RunFails \/ RunSucceeds
    /\ worker' = "drain" /\ plan' = <<>>
    /\ UNCHANGED <<prefills, commands, lastDirect, batch, pc, taken, refused>>

\* run_direct_iteration_batch: requests that ended meanwhile are refused, the
\* others share one batch.
RunDirect ==
    /\ worker = "direct"
    /\ \E live \in SUBSET batch :
          \/ /\ HasLanes(live)
             /\ sessions' = Evaluated(live, Prompt)
             /\ reply' = [c \in Client |-> IF c \in live THEN "ok"
                                           ELSE IF c \in batch THEN "error"
                                           ELSE reply[c]]
          \/ /\ ~HasLanes(live) \/ "run" \in Faults
             /\ \/ sessions' = sessions
                \/ /\ HasLanes(live)
                   /\ \E S \in SUBSET live : sessions' = Evaluated(S, Prompt)
             /\ reply' = [c \in Client |-> IF c \in batch THEN "error" ELSE reply[c]]
    /\ worker' = "drain" /\ batch' = {}
    /\ UNCHANGED <<engine, commands, requests, configured, direct, lastDirect, plan,
                   pc, inbox, verdict, taken, stopped, refused>>

-----------------------------------------------------------------------------
(* The worker: a panic.                                                        *)

\* A batch or the drop of a session panics: everything the worker holds fails.
\* Nobody answers the direct iterations it was running. The sessions stay when
\* the panic left the runtime's lock poisoned.
Panic ==
    /\ "panic" \in Faults
    /\ \/ worker \in {"run", "direct"} /\ UNCHANGED <<commands, pc>>
       \/ /\ worker = "drain" /\ commands # <<>> /\ Head(commands).op = "drop"
          /\ commands' = Tail(commands)
          /\ Go(Head(commands).client, "done")
    /\ FailAll
    /\ sessions' \in {sessions, Dropped(requests, sessions)}
    /\ worker' = "panicked" /\ plan' = <<>> /\ batch' = {}
    /\ UNCHANGED <<prefills, measured, viable, lastDirect, inbox, taken, refused>>

\* fail_queued: an error for the commands still queued.
FailQueued ==
    /\ worker = "panicked"
    /\ IF commands = <<>>
       THEN worker' = "closing" /\ UNCHANGED <<commands, pc, verdict, reply>>
       ELSE LET op == Head(commands).op
                c == Head(commands).client
            IN /\ commands' = Tail(commands)
               /\ verdict' = IF op = "submit" /\ Listens(c)
                             THEN [verdict EXCEPT ![c] = "error"] ELSE verdict
               /\ reply' = IF op = "direct" THEN [reply EXCEPT ![c] = "error"] ELSE reply
               /\ pc' = IF op = "drop" THEN [pc EXCEPT ![c] = "done"] ELSE pc
               /\ worker' = worker
    /\ UNCHANGED <<engine, requests, configured, direct, lastDirect, plan, batch,
                   sessions, inbox, taken, stopped, refused>>

\* Mutant: the callers of generate keep a sender of their own as well.
WorkerGoneSilently ==
    /\ worker = "closing"
    /\ worker' = "gone" /\ commands' = <<>>
    /\ UNCHANGED <<engine, requests, configured, direct, lastDirect, plan, batch,
                   sessions, clientVars>>

\* The queue goes with the worker, and so do the senders it held. The caller of
\* a direct iteration keeps a sender of its own, and is not woken.
WorkerGone ==
    /\ worker = "closing"
    /\ worker' = "gone" /\ commands' = <<>>
    /\ LET Queued(op) == {commands[i].client : i \in {j \in DOMAIN commands :
                                                        commands[j].op = op}}
       IN /\ verdict' = [c \in Client |-> IF c \in Queued("submit") /\ Listens(c)
                                          THEN "closed" ELSE verdict[c]]
          /\ pc' = [c \in Client |-> IF c \in Queued("drop") THEN "done" ELSE pc[c]]
    /\ UNCHANGED <<engine, requests, configured, direct, lastDirect, plan, batch,
                   sessions, inbox, reply, taken, stopped, refused>>

-----------------------------------------------------------------------------
WorkerStep ==
    \/ Handle \/ ApplyControls \/ TakeDirect \/ TakePlan \/ Setup \/ Run \/ RunDirect
    \/ FailQueued \/ WorkerGone

RequestStep(c) ==
    Resume(c) \/ PrefillFails(c) \/ TakeToken(c) \/ TakeVerdict(c) \/ Cleanup(c)

Next ==
    \/ WorkerStep \/ Panic
    \/ \E c \in Client : Begin(c) \/ RequestStep(c) \/ Abandon(c)

Spec == Init /\ [][Next]_vars

\* Threads run while there is something for them to do: the worker's, and those of
\* the requests. It is enough that one of them runs, for no thread works for ever
\* without another. Requests need not come or be abandoned, and the
\* worker need not panic.
ThreadStep == WorkerStep \/ \E c \in Client : RequestStep(c)
FairSpec == Spec /\ WF_vars(ThreadStep)

-----------------------------------------------------------------------------
(* Properties.                                                                 *)

\* Every variable holds what the code can put there.
TypeOK ==
    /\ EngineTypeOK
    /\ \A i \in DOMAIN commands :
          /\ commands[i].op \in {"submit", "cancel", "direct", "drop"}
          /\ commands[i].client \in Client
    /\ Len(commands) <= Capacity
    /\ requests \subseteq Client /\ configured \subseteq requests
    /\ \A i \in DOMAIN direct : direct[i] \in Feature
    /\ lastDirect \in BOOLEAN /\ worker \in Worker
    /\ DOMAIN plan \subseteq active
    /\ batch \subseteq Feature
    /\ DOMAIN sessions \subseteq Client /\ \A c \in DOMAIN sessions : sessions[c] \in Nat
    /\ pc \in [Client -> PC]
    /\ inbox \in [Client -> 0 .. MaxTokens] /\ taken \in [Client -> 0 .. MaxTokens]
    /\ verdict \in [Client -> {"none", "complete", "error", "closed"}]
    /\ reply \in [Client -> {"none", "ok", "error"}]
    /\ stopped \subseteq requests
    /\ refused \subseteq Client

\* The worker's requests are exactly the engine's sequences, waiting or active,
\* through every way a request ends (submit, cancel, fail_request, fail_all,
\* apply_pending_controls, finish_iteration): no sequence runs for nobody and no
\* request waits for a sequence that is gone.
Tracked == requests = waiting \cup active /\ waiting \cap active = {}

\* The KV cells in use are the reservations of the active sequences, whichever
\* way they came and went, and neither cells nor lanes are promised twice.
MemoryHeld ==
    /\ used = SumFunctionOnSet(Reservation, active)
    /\ used <= KvTokens
    /\ Cardinality(active) <= Lanes

\* The scheduler's cursor and the runtime's session agree on what a request has
\* evaluated, but for the rows planned and not yet run: no token of a request
\* that still listens is skipped or evaluated twice, though cursors move when
\* the plan is made and the session only when it runs.
ContextIsWhole ==
    \A c \in active \cap configured :
        Listens(c) /\ c \in DOMAIN sessions =>
            sessions[c] = IF c \in DOMAIN plan THEN plan[c].start ELSE cursor[c]

\* A configured request that listens has its session: nobody takes it from under
\* the generation.
SessionStays ==
    \A c \in active \cap configured : Listens(c) => c \in DOMAIN sessions

\* Every token generated for a request was given to its callback or is on its
\* way, across the hand-over of a feature request's first token.
TokensReachTheirRequest ==
    \A c \in requests : pc[c] = "generating" => taken[c] + inbox[c] = generated[c]

\* A request whose commands were all accepted leaves no session behind: its lane
\* is free again, unless the worker panicked.
LanesComeBack ==
    \A c \in Client :
        pc[c] = "done" /\ c \notin refused /\ worker \notin {"panicked", "closing", "gone"}
            => c \notin DOMAIN sessions

\* A request that waits for the worker, for its direct prefill or for tokens, is
\* answered in the end, whatever else the worker is given to do and however that
\* ends. After a panic of the worker only those that generate can count on it.
Waits(c) == pc[c] = "generating" \/ (pc[c] = "prefilling" /\ worker # "gone")
Answered == \A c \in Client : Waits(c) ~> ~Waits(c)
===============================================================================
