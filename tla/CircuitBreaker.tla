--------------------------- MODULE CircuitBreaker ---------------------------
(***************************************************************************)
(* The circuit breaker of internal/embed, shared by every search and save  *)
(* of the daemon: after a number of failures in a row Ollama is left alone *)
(* for a cooldown, and search is lexical only.                             *)
(*                                                                         *)
(* Its fields are read and written without a lock, so each access is a     *)
(* step.  openedAt is three machine words: a comparison while another      *)
(* goroutine writes it can come out either way.  The clock is kept as the  *)
(* time since openedAt, up to the cooldown.                                *)
(***************************************************************************)
EXTENDS Integers

CONSTANTS Callers,    \* goroutines that search or save at once
          Threshold,  \* circuit_breaker_failures
          Cooldown    \* circuit_breaker_cooldown_ms, in clock units

ASSUME BreakerAssumption == {Threshold, Cooldown} \subseteq Nat \ {0}

VARIABLES failures,  \* the counter; Threshold stands for all larger values
          age,       \* time since openedAt, or Zero
          caller,    \* where each goroutine is, and the counter it has read
          up         \* does Ollama answer?

vars == <<failures, age, caller, up>>

Zero == -1   \* openedAt.IsZero()
Counts == 0..Threshold
Next1(n) == IF n < Threshold THEN n + 1 ELSE Threshold
Steps == {"idle", "isZero", "elapsed", "resetCount", "resetTime", "lexical",
          "embed", "load", "store", "compare", "open", "clearCount",
          "clearTime"}

TypeOK == /\ failures \in Counts
          /\ age \in {Zero} \cup 0..Cooldown
          /\ caller \in [Callers -> [pc : Steps, read : Counts]]
          /\ up \in BOOLEAN

Init == /\ failures = 0 /\ age = Zero
        /\ caller = [c \in Callers |-> [pc |-> "idle", read |-> 0]]
        /\ up = TRUE
------------------------------------------------------------------------------
At(c, pc) == caller[c].pc = pc
Goto(c, pc) == caller' = [caller EXCEPT ![c].pc = pc]

Begin(c) == /\ At(c, "idle") /\ Goto(c, "isZero")
            /\ UNCHANGED <<failures, age, up>>

\* Open: b.openedAt.IsZero().
IsZero(c) ==
  /\ At(c, "isZero")
  /\ \/ age = Zero /\ Goto(c, "embed")
     \/ age # Zero /\ Goto(c, "elapsed")
  /\ UNCHANGED <<failures, age, up>>

Torn(c) == \E d \in Callers \ {c} :
             At(d, "open") \/ At(d, "resetTime") \/ At(d, "clearTime")

\* Mutant: the cooldown never ends.
ElapsedNever(c) ==
  /\ At(c, "elapsed") /\ Goto(c, IF age = Zero THEN "resetCount" ELSE "lexical")
  /\ UNCHANGED <<failures, age, up>>

\* Open: b.now().Sub(b.openedAt) >= b.cooldown; the zero time is long ago.
Elapsed(c) ==
  /\ At(c, "elapsed")
  /\ \/ (age \in {Zero, Cooldown} \/ Torn(c)) /\ Goto(c, "resetCount")
     \/ (age \in 0..(Cooldown - 1) \/ Torn(c)) /\ Goto(c, "lexical")
  /\ UNCHANGED <<failures, age, up>>

\* Open: the cooldown is over, the breaker closes.
ResetCount(c) == /\ At(c, "resetCount") /\ failures' = 0 /\ Goto(c, "resetTime")
                 /\ UNCHANGED <<age, up>>
ResetTime(c) == /\ At(c, "resetTime") /\ age' = Zero
                /\ Goto(c, "embed")
                /\ UNCHANGED <<failures, up>>

\* vectorResults, saveMemoryEmbedding: the breaker is open.
Lexical(c) == /\ At(c, "lexical") /\ Goto(c, "idle")
              /\ UNCHANGED <<failures, age, up>>

\* Embedder.Embed returns; then RecordSuccess or RecordFailure is called.
Embed(c) ==
  /\ At(c, "embed")
  /\ \/ up /\ Goto(c, "clearCount")
     \/ ~up /\ Goto(c, "load")
  /\ UNCHANGED <<failures, age, up>>

\* RecordFailure: b.failures++ reads and writes; the comparison reads again.
Load(c) == /\ At(c, "load")
           /\ caller' = [caller EXCEPT ![c] = [pc |-> "store", read |-> failures]]
           /\ UNCHANGED <<failures, age, up>>
Store(c) == /\ At(c, "store") /\ failures' = Next1(caller[c].read)
            /\ Goto(c, "compare")
            /\ UNCHANGED <<age, up>>

Compare(c) ==
  /\ At(c, "compare")
  /\ \/ failures >= Threshold /\ Goto(c, "open")
     \/ failures < Threshold /\ Goto(c, "idle")
  /\ UNCHANGED <<failures, age, up>>
OpenNow(c) == /\ At(c, "open") /\ age' = 0 /\ Goto(c, "idle")
              /\ UNCHANGED <<failures, up>>

\* RecordSuccess.
ClearCount(c) == /\ At(c, "clearCount") /\ failures' = 0 /\ Goto(c, "clearTime")
                 /\ UNCHANGED <<age, up>>
ClearTime(c) == /\ At(c, "clearTime") /\ age' = Zero
                /\ Goto(c, "idle")
                /\ UNCHANGED <<failures, up>>

Tick == /\ age \in 0..(Cooldown - 1) /\ age' = age + 1
        /\ UNCHANGED <<failures, caller, up>>

\* Ollama stops or starts to answer.
Toggle == /\ up' = ~up
          /\ UNCHANGED <<failures, age, caller>>

Step(c) ==
  \/ IsZero(c) \/ Elapsed(c) \/ ResetCount(c) \/ ResetTime(c) \/ Lexical(c)
  \/ Embed(c) \/ Load(c) \/ Store(c) \/ Compare(c) \/ OpenNow(c)
  \/ ClearCount(c) \/ ClearTime(c)

Next == Tick \/ Toggle \/ \E c \in Callers : Begin(c) \/ Step(c)

Spec == Init /\ [][Next]_vars
------------------------------------------------------------------------------
\* Clients go on searching, goroutines run, and time passes.
LiveSpec == /\ Spec /\ WF_vars(Tick)
            /\ \A c \in Callers : WF_vars(Begin(c)) /\ WF_vars(Step(c))

\* Whatever the races left in its fields, the breaker does not stay open: once
\* Ollama answers for good, every search uses it again.
Recovers == <>[]up => <>[](\A c \in Callers : ~At(c, "lexical"))
=============================================================================
