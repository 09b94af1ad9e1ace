------------------------------ MODULE InferRun ------------------------------
(***************************************************************************)
(* One run of ShaftInferPipeline (shaft/infer/pipeline.py): stages one     *)
(* after the other, each with attempts and back-offs within one deadline,  *)
(* and an event that cancels the whole run from another thread.            *)
(*                                                                         *)
(* Time passes in the engine, in the codec and in a back-off; the          *)
(* pipeline's own code takes none.                                         *)
(***************************************************************************)
EXTENDS Naturals

CONSTANTS Configs,      \* the stage configurations to choose from: a subset of Config
          Stages,       \* number of stages, positive
          MaxTime       \* bound: no engine or codec takes the clock beyond it

\* timeout is 0 for none; deadlines and cancels are what the engine's adapter supports.
Config == [timeout : Nat, retries : Nat, backoff : Nat, failFast : BOOLEAN,
           deadlines : BOOLEAN, cancels : BOOLEAN]

VARIABLES config,       \* each stage's configuration
          event,        \* the caller's event: "none", "clear" or "set"
          now,
          stage,        \* the running stage
          doing,
          try,
          deadline,     \* of the stage, 0 if it has none
          wake,         \* end of the back-off
          short,        \* the back-off was cut to what remained
          valid,        \* the codec's verdict on the answer
          outcome,      \* each stage's result
          began         \* ghost: when each stage started

inferVars == <<config, event, now, stage, doing, try, deadline, wake, short, valid,
          outcome, began>>

Stage == 1 .. Stages
This == config[stage]
Expired == deadline > 0 /\ now >= deadline
Smaller(a, b) == IF a < b THEN a ELSE b

-----------------------------------------------------------------------------
InferInit ==
    /\ config \in [Stage -> Configs]
    /\ event \in {"none", "clear"}
    /\ now = 1 /\ stage = 1 /\ doing = "start" /\ try = 1
    /\ deadline = 0 /\ wake = 0 /\ short = FALSE /\ valid = FALSE
    /\ outcome = [s \in Stage |-> "none"]
    /\ began = [s \in Stage |-> 0]

Goto(p) ==
    /\ doing' = p
    /\ UNCHANGED <<config, event, now, stage, try, deadline, wake, short, valid,
                   outcome, began>>

\* The stage's result goes into the context, or the run raises.
EndStage(result) ==
    /\ outcome' = [outcome EXCEPT ![stage] = result]
    /\ IF result = "error" /\ This.failFast THEN doing' = "raised" /\ stage' = stage
       ELSE IF stage = Stages THEN doing' = "returned" /\ stage' = stage
       ELSE doing' = "start" /\ stage' = stage + 1
    /\ UNCHANGED <<config, event, now, try, deadline, wake, short, valid, began>>

\* Mutant: a set event is looked at in back-offs only.
CheckpointDeadline(proceed) ==
    IF doing = "backoff" /\ event = "set" THEN Goto("cancelled")
    ELSE IF Expired THEN EndStage("error")
    ELSE proceed

\* ShaftInferExecutionControl.checkpoint: a cancellation ends the run, an expiry the stage.
Checkpoint(proceed) ==
    IF event = "set" THEN Goto("cancelled")
    ELSE IF Expired THEN EndStage("error")
    ELSE proceed

StartStage ==
    /\ doing = "start"
    /\ doing' = "attempt" /\ try' = 1
    /\ deadline' = IF This.timeout = 0 THEN 0 ELSE now + This.timeout
    /\ began' = [began EXCEPT ![stage] = now]
    /\ UNCHANGED <<config, event, now, stage, wake, short, valid, outcome>>

\* The checkpoint, the adapter's validator, and the engine starts to work.
Attempt ==
    /\ doing = "attempt"
    /\ Checkpoint(IF \/ deadline > 0 /\ ~This.deadlines
                     \/ event # "none" /\ ~This.cancels
                  THEN EndStage("error")
                  ELSE Goto("engine"))

Answer == doing = "engine" /\ Goto("answered")

\* A timeout of the request ends the stage; an adapter may also raise the cancellation.
EngineTimesOut == doing = "engine" /\ This.deadlines /\ EndStage("error")
EngineCancelled == doing = "engine" /\ event = "set" /\ Goto("cancelled")

\* Another error of the attempt: back off if there is an attempt left.
Retry ==
    IF try > This.retries THEN EndStage("error")
    ELSE IF This.backoff = 0
         THEN /\ doing' = "attempt" /\ try' = try + 1
              /\ UNCHANGED <<config, event, now, stage, deadline, wake, short, valid, outcome, began>>
    ELSE LET remaining == IF deadline = 0 THEN This.backoff
                          ELSE IF now < deadline THEN deadline - now ELSE 0
         IN  /\ doing' = "backoff"
             /\ wake' = now + Smaller(This.backoff, remaining)
             /\ short' = (remaining < This.backoff)
             /\ UNCHANGED <<config, event, now, stage, try, deadline, valid, outcome, began>>

EngineRaises == doing = "engine" /\ Retry

\* After the answer a checkpoint, then the codec, then another.
Decode(ok) ==
    /\ doing = "answered"
    /\ Checkpoint(/\ doing' = "decoded" /\ valid' = ok
                  /\ UNCHANGED <<config, event, now, stage, try, deadline, wake, short,
                                 outcome, began>>)

\* Mutant: the checkpoint after the codec looks at the event alone.
FinishLate ==
    /\ doing = "decoded"
    /\ IF event = "set" THEN Goto("cancelled") ELSE IF valid THEN EndStage("ok") ELSE Retry

Finish ==
    /\ doing = "decoded"
    /\ Checkpoint(IF valid THEN EndStage("ok") ELSE Retry)

\* Mutant: the back-off waits for the event alone.
WakeOnEvent ==
    /\ doing = "backoff"
    /\ (event = "none" /\ now >= wake) \/ event = "set"
    /\ Checkpoint(IF short THEN EndStage("error")
                  ELSE /\ doing' = "attempt" /\ try' = try + 1
                       /\ UNCHANGED <<config, event, now, stage, deadline, wake, short, valid,
                                      outcome, began>>)

\* The back-off is over, or the event wakes it.
Wake ==
    /\ doing = "backoff"
    /\ now >= wake \/ event = "set"
    /\ Checkpoint(IF short THEN EndStage("error")
                  ELSE /\ doing' = "attempt" /\ try' = try + 1
                       /\ UNCHANGED <<config, event, now, stage, deadline, wake, short, valid,
                                      outcome, began>>)

\* The caller's thread.
Cancel ==
    /\ event = "clear"
    /\ event' = "set"
    /\ UNCHANGED <<config, now, stage, doing, try, deadline, wake, short, valid, outcome, began>>

\* An engine can be at work beyond the deadline: an adapter that supports deadlines bounds
\* each operation of its socket by what remains, not the request as a whole.
Tick ==
    /\ \/ doing \in {"engine", "decoded"} /\ now < MaxTime
       \/ doing = "backoff" /\ now < wake
    /\ now' = now + 1
    /\ UNCHANGED <<config, event, stage, doing, try, deadline, wake, short, valid, outcome, began>>

Pipeline == StartStage \/ Attempt \/ (\E ok \in BOOLEAN : Decode(ok)) \/ Finish \/ Wake
Engine == Answer \/ EngineTimesOut \/ EngineCancelled \/ EngineRaises

InferNext == Pipeline \/ Engine \/ Cancel \/ Tick

\* The pipeline's thread runs, engines come back and clocks go on; nobody has to cancel.
InferFairness == WF_inferVars(Pipeline) /\ WF_inferVars(Engine) /\ WF_inferVars(Tick)

InferSpec == InferInit /\ [][InferNext]_inferVars /\ InferFairness

-----------------------------------------------------------------------------
(* Properties *)

Ended == doing \in {"returned", "raised", "cancelled"}

\* A stage has one budget for all its attempts and back-offs.  From timeout_seconds after its
\* start on, whatever its engine or codec was doing by then, no engine is called for it, it
\* does not wait in a back-off, and no result of it is used.
BudgetKept ==
    [][config[stage].timeout > 0 /\ now >= began[stage] + config[stage].timeout =>
          /\ doing # "engine" => doing' # "engine"
          /\ doing = "backoff" => now' = now
          /\ outcome'[stage] = "ok" => outcome[stage] = "ok"]_inferVars

\* After a cancellation no engine is called any more and no result is used.
NothingAfterCancel ==
    [][event = "set" => /\ doing # "engine" => doing' # "engine"
                        /\ \A s \in Stage : outcome'[s] = "ok" => outcome[s] = "ok"]_inferVars

=============================================================================
