---------------------------- MODULE BatchScheduler ----------------------------
(* The iteration scheduler of skippy-scheduler (engine.rs, sequence.rs): the   *)
(* sequences that wait, those that are active with their memory reserved, and  *)
(* the plan of the next batch. A sequence is its number of generated tokens    *)
(* and its cursor, the number of tokens planned so far.                        *)
(*                                                                             *)
(* An iteration's budget always has room for one row of each active sequence   *)
(* (BudgetAssumption; n_batch against the lane count), so the rotation of      *)
(* mixed_decode_cursor is not modelled. The order in which waiting sequences   *)
(* are tried (cache affinity, age, shared prefixes) is any order. Preemption   *)
(* and prefix restore have no caller in the server.                            *)
EXTENDS Integers, FiniteSets, FiniteSetsExt, Functions

CONSTANTS
    Client,          \* requests, by the order of their ids
    Prompt,          \* the prompt tokens of each
    MaxTokens,       \* the tokens each may generate (max_tokens)
    Headroom,        \* the tokens it reserves for them (DECODE_BATCH_HEADROOM_TOKENS)
    KvTokens,        \* the KV cells of the pool: what reservations share
    Lanes,           \* sequences that may be active (max_active_sequences)
    MaxWaiting,      \* max_waiting_sequences
    Budget,          \* max_tokens_per_iteration
    Chunk,           \* prefill_chunk_tokens
    Recurrent        \* the model has recurrent state: prefills one at a time

ASSUME ClientAssumption == Client \subseteq Nat /\ IsFiniteSet(Client)
ASSUME SizeAssumption ==
    /\ Prompt \in [Client -> Nat \ {0}]
    /\ {MaxTokens, Headroom, KvTokens, Lanes, MaxWaiting, Budget, Chunk} \subseteq Nat \ {0}
    /\ \A c \in Client : Prompt[c] <= KvTokens
    /\ Recurrent \in BOOLEAN
ASSUME BudgetAssumption == Lanes <= Budget /\ Chunk <= Budget

VARIABLES
    waiting,         \* the sequences not yet admitted
    active,          \* the admitted ones
    generated,       \* per sequence: the tokens it has generated
    cursor,          \* per sequence: prefill_cursor
    used,            \* component_used_bytes of the KV cells
    prefills,        \* consecutive_prefill_iterations
    measured,        \* the decode row counts with a measured duration
    viable           \* mixed_prefill_viable

engine == <<waiting, active, generated, cursor, used, prefills, measured, viable>>

EngineInit ==
    /\ waiting = {} /\ active = {} /\ used = 0
    /\ generated = [c \in Client |-> 0]
    /\ cursor = [c \in Client |-> 0]
    /\ prefills = 0 /\ measured = {} /\ viable = TRUE

EngineTypeOK ==
    /\ waiting \subseteq Client /\ active \subseteq Client
    /\ generated \in [Client -> 0 .. MaxTokens]
    /\ cursor \in [Client -> Nat]
    /\ used \in Nat
    /\ prefills \in 0 .. 1
    /\ measured \subseteq 1 .. Lanes
    /\ viable \in BOOLEAN

-----------------------------------------------------------------------------
(* Sequences.                                                                  *)

\* What a sequence reserves: its prompt and some room to decode, at most the
\* pool.  It may come to use more than that.
Reservation ==
    [c \in Client |-> LET room == Min({MaxTokens, Headroom})
                      IN  Max({Prompt[c], Min({Prompt[c] + room, KvTokens})})]

\* The tokens that come before the one to decode: all but the last generated.
Replay(c) == Prompt[c] + Max({generated[c] - 1, 0})

InPrefill(c) == cursor[c] < Replay(c)
Decoding(c) == ~InPrefill(c) /\ generated[c] > 0

Known == waiting \cup active

\* Mutants: a sequence that waits is not found; a sequence that waits gives back
\* what it never reserved.
RemovedActive(S, count) ==
    /\ generated' = [c \in Client |-> IF c \in S \cap active THEN 0 ELSE count[c]]
    /\ cursor' = [c \in Client |-> IF c \in S \cap active THEN 0 ELSE cursor[c]]
    /\ waiting' = waiting
    /\ active' = active \ S
    /\ used' = Max({used - SumFunctionOnSet(Reservation, S \cap active), 0})
RemovedTwice(S, count) ==
    /\ generated' = [c \in Client |-> IF c \in S THEN 0 ELSE count[c]]
    /\ cursor' = [c \in Client |-> IF c \in S THEN 0 ELSE cursor[c]]
    /\ waiting' = waiting \ S
    /\ active' = active \ S
    /\ used' = Max({used - SumFunctionOnSet(Reservation, S \cap Known), 0})

\* Release of the sequences S, wherever they are; those that stay have generated
\* as many tokens as count says.
Removed(S, count) ==
    /\ generated' = [c \in Client |-> IF c \in S THEN 0 ELSE count[c]]
    /\ cursor' = [c \in Client |-> IF c \in S THEN 0 ELSE cursor[c]]
    /\ waiting' = waiting \ S
    /\ active' = active \ S
    /\ used' = Max({used - SumFunctionOnSet(Reservation, S \cap active), 0})

-----------------------------------------------------------------------------
(* Admission and plan.                                                         *)

Fits(S) ==
    /\ Cardinality(active \cup S) <= Lanes
    /\ used + SumFunctionOnSet(Reservation, S) <= KvTokens

\* Whichever order the waiting sequences are tried in, those that fit go in.
Admissible(S) ==
    /\ S \subseteq waiting
    /\ Fits(S)
    /\ \A c \in waiting \ S : ~Fits(S \cup {c})

\* The prefill rows of the sequences S in a batch with room tokens left: in the
\* order of their ids, each a chunk, until the room is used up.
PrefillRows(S, room) ==
    LET Wants == [c \in S |-> Min({Chunk, Replay(c) - cursor[c]})]
        Ahead(c) == {d \in S : InPrefill(d) /\ d < c}
        Room(c) == room - SumFunctionOnSet(Wants, Ahead(c))
        Rows == {c \in S : /\ InPrefill(c) /\ Room(c) > 0
                           /\ Recurrent => Ahead(c) = {}}
    IN [c \in Rows |->
          LET n == Min({Wants[c], Room(c)})
          IN [start |-> cursor[c], count |-> n, decode |-> FALSE,
              sample |-> cursor[c] + n = Replay(c) /\ generated[c] = 0]]

\* The decode rows of the sequences S: one token each.
DecodeRows(S) ==
    [c \in {d \in S : Decoding(d)} |->
        [start |-> Replay(c), count |-> 1, decode |-> TRUE, sample |-> TRUE]]

Union(f, g) == [c \in DOMAIN f \cup DOMAIN g |-> IF c \in DOMAIN f THEN f[c] ELSE g[c]]

\* A model without recurrent state mixes prompts into a decode batch, once the
\* batch's duration is known and until mixing has proved too slow.
Mixes(S) ==
    LET rows == Cardinality({c \in S : Decoding(c)})
    IN ~Recurrent /\ viable /\ rows \in measured

\* Else prefill and decode iterations alternate while both have work.
PrefillPhase(S) ==
    /\ \E c \in S : InPrefill(c)
    /\ (\E c \in S : Decoding(c)) => prefills < 1

Plan(S) ==
    IF Mixes(S)
    THEN LET decode == DecodeRows(S)
         IN Union(decode, PrefillRows(S, Budget - Cardinality(DOMAIN decode)))
    ELSE IF PrefillPhase(S) THEN PrefillRows(S, Budget) ELSE DecodeRows(S)

Prefills(plan, S) ==
    IF plan = <<>> THEN prefills
    ELSE IF ~Mixes(S) /\ PrefillPhase(S) /\ \E c \in S : Decoding(c) THEN prefills + 1
    ELSE 0

\* plan_iteration, S admitted: move the cursors past what is planned.
PlanIteration(S) ==
    LET plan == Plan(active \cup S)
    IN /\ Admissible(S)
       /\ waiting' = waiting \ S
       /\ active' = active \cup S
       /\ used' = used + SumFunctionOnSet(Reservation, S)
       /\ prefills' = Prefills(plan, active')
       /\ cursor' = [c \in Client |->
                        IF c \in DOMAIN plan THEN plan[c].start + plan[c].count
                                             ELSE cursor[c]]
       /\ UNCHANGED <<generated, measured, viable>>

-----------------------------------------------------------------------------
(* Completion.                                                                 *)

\* observe_iteration_duration: a decode batch measures its row count; a mixed
\* one of a measured row count may turn out too slow.
Observe(plan) ==
    LET rows == Cardinality({c \in DOMAIN plan : plan[c].decode})
        prompts == \E c \in DOMAIN plan : ~plan[c].decode
    IN /\ measured' = IF rows > 0 /\ ~prompts THEN measured \cup {rows} ELSE measured
       /\ IF rows \in measured /\ prompts THEN viable' \in {viable, FALSE}
                                          ELSE viable' = viable

\* complete_iteration: what was sampled of each row. A missing sample fails the
\* sequence, an end token or the last allowed token finishes it.
Sampled(plan) == {c \in DOMAIN plan : plan[c].sample /\ c \in active}

Ended(plan, sample) ==
    {c \in Sampled(plan) : sample[c] # "token" \/ generated[c] + 1 >= MaxTokens}

Generated(plan, sample) ==
    [c \in Client |-> IF c \in Sampled(plan) /\ sample[c] = "token"
                      THEN generated[c] + 1 ELSE generated[c]]
===============================================================================
