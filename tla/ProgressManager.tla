--------------------------- MODULE ProgressManager ---------------------------
(***************************************************************************)
(* ShaftProgressManager with a terminal and a JSON sink, used by several   *)
(* threads (shaft/observability/progress.py).  A change of a task is       *)
(* committed under the manager's lock and published after it: whoever      *)
(* holds the publish lock delivers every revision that is due, its own or  *)
(* another thread's.  The terminal redraws a task without a total from a   *)
(* ticker thread of its own.                                               *)
(*                                                                         *)
(* A section under the manager's lock or under a sink's is one step, a     *)
(* delivery is one step per sink.  The throttles of the sinks are choices. *)
(***************************************************************************)
EXTENDS Naturals, Sequences, FiniteSets

CONSTANTS Threads,
          Tasks,        \* task ids; "run.failure" is among them
          MaxRevision   \* bound: changes by the threads, without those of close

VARIABLES tasks,         \* task -> its record
          revision,
          publications,  \* the publications that are due, the next one first
          sinks,         \* the sinks that did not fail, of "terminal" and "json"
          closing, closed,
          holder,        \* the thread that has the publish lock, if any
          threads,       \* each thread: "idle", "publish", "deliver", "todo" or "close"
          mine,          \* the revision it publishes, 0 if none
          turn,          \* the sink it delivers to next
          todo,          \* the handles record_failure and close have yet to finish
          after,         \* what comes then: "return", "fail", "start" or "close"
          latest,        \* JSON sink: newest publication, its revision is 0 if none
          progressFile,  \* and the tasks in its file
          unsaved,       \* ghost: close could not write the file
          seen,          \* ghost: the revisions that each sink got
          display,       \* terminal: "none", "bounded" or "unbounded" task
          down,          \* terminal: _closed
          ticker         \* its thread: "none", "wait" or "exiting"

manager == <<tasks, revision, publications, closing, closed>>
thread == <<threads, mine, turn, todo, after>>
json == <<latest, progressFile, unsaved>>
terminal == <<display, down, ticker>>
progressVars == <<manager, sinks, holder, thread, json, seen, terminal>>

NoHolder == "nobody"
Unborn == [state |-> "none", generation |-> 0, current |-> 0, bounded |-> TRUE, order |-> 0]
NoTask == [k \in Tasks |-> Unborn]

RunningTasks(ts) == {k \in Tasks : ts[k].state = "running"}
Failed(ts) == \E k \in Tasks : ts[k].state = "failed"
AllIdle == \A t \in Threads : threads[t] = "idle"
Open == ~closing /\ ~closed
Published == revision - Len(publications)

\* The task on the terminal: the running one that was started last.
Shown(ts) ==
    IF RunningTasks(ts) = {} THEN "none"
    ELSE LET k == CHOOSE k \in RunningTasks(ts) : \A o \in RunningTasks(ts) : ts[o].order <= ts[k].order
         IN  IF ts[k].bounded THEN "bounded" ELSE "unbounded"

\* The handles of the running tasks, the last one first.
Handles ==
    LET run == RunningTasks(tasks)
        Rank(k) == Cardinality({o \in run : tasks[o].order >= tasks[k].order})
    IN  [i \in 1 .. Cardinality(run) |->
            LET k == CHOOSE k \in run : Rank(k) = i IN <<k, tasks[k].generation>>]

-----------------------------------------------------------------------------
ProgressInit ==
    /\ tasks = NoTask /\ revision = 0 /\ publications = <<>>
    /\ sinks \in SUBSET {"terminal", "json"}
    /\ closing = FALSE /\ closed = FALSE /\ holder = NoHolder
    /\ threads = [t \in Threads |-> "idle"] /\ mine = [t \in Threads |-> 0]
    /\ turn = [t \in Threads |-> "terminal"]
    /\ todo = [t \in Threads |-> <<>>] /\ after = [t \in Threads |-> "return"]
    /\ latest = [revision |-> 0, tasks |-> NoTask]
    /\ progressFile = NoTask /\ unsaved = FALSE /\ seen = [s \in {"terminal", "json"} |-> <<>>]
    /\ display = "none" /\ down = FALSE /\ ticker = "none"

\* _commit_locked: thread t has changed task k to record v.
CommitChange(t, k, v, lifecycle) ==
    /\ tasks' = [tasks EXCEPT ![k] = v]
    /\ revision' = revision + 1
    /\ publications' = Append(publications, [revision |-> revision', tasks |-> tasks', lifecycle |-> lifecycle])
    /\ mine' = [mine EXCEPT ![t] = revision']
    /\ threads' = [threads EXCEPT ![t] = "publish"]
    /\ UNCHANGED <<sinks, closing, closed, holder, turn, json, seen, terminal>>

Begun(k, bounded) ==
    [state |-> "running", generation |-> tasks[k].generation + 1, current |-> 0,
     bounded |-> bounded, order |-> revision + 1]

Calls(t) == threads[t] = "idle" /\ revision < MaxRevision

StartTask(t, k, bounded) ==
    /\ Calls(t) /\ Open /\ tasks[k].state # "running"
    /\ CommitChange(t, k, Begun(k, bounded), TRUE)
    /\ UNCHANGED <<todo, after>>

\* update, advance and set_total.
Update(t, k, bounded) ==
    /\ Calls(t) /\ Open /\ tasks[k].state = "running"
    /\ CommitChange(t, k, [tasks[k] EXCEPT !.current = @ + 1, !.bounded = bounded], FALSE)
    /\ UNCHANGED <<todo, after>>

\* complete or fail; cancel is like complete here.
FinishTask(t, k, state) ==
    /\ Calls(t) /\ tasks[k].state = "running"
    /\ CommitChange(t, k, [tasks[k] EXCEPT !.state = state], TRUE)
    /\ UNCHANGED <<todo, after>>

RecordFailure(t) ==
    /\ Calls(t) /\ Open
    /\ todo' = [todo EXCEPT ![t] = Handles]
    /\ after' = [after EXCEPT ![t] =
           IF RunningTasks(tasks) = {} /\ ~Failed(tasks) THEN "start" ELSE "fail"]
    /\ threads' = [threads EXCEPT ![t] = "todo"]
    /\ UNCHANGED <<manager, sinks, holder, mine, turn, json, seen, terminal>>

\* No task starts or changes any more; what runs is cancelled.
Close(t) ==
    /\ threads[t] = "idle" /\ Open
    /\ closing' = TRUE
    /\ todo' = [todo EXCEPT ![t] = Handles]
    /\ after' = [after EXCEPT ![t] = "close"]
    /\ threads' = [threads EXCEPT ![t] = "todo"]
    /\ UNCHANGED <<tasks, revision, publications, closed, sinks, holder, mine, turn, json, seen, terminal>>

\* The next handle, which may be stale by now.
FinishHandle(t) ==
    /\ threads[t] = "todo" /\ todo[t] # <<>>
    /\ LET k == todo[t][1][1]
           state == IF after[t] = "close" THEN "cancelled" ELSE "failed"
       IN  IF tasks[k].state = "running" /\ tasks[k].generation = todo[t][1][2]
           THEN CommitChange(t, k, [tasks[k] EXCEPT !.state = state], TRUE)
           ELSE UNCHANGED <<manager, sinks, holder, threads, mine, turn, json, seen, terminal>>
    /\ todo' = [todo EXCEPT ![t] = Tail(@)]
    /\ UNCHANGED after

\* With no task to fail, record_failure starts one; it raises if the manager was closed.
StartFailure(t) ==
    /\ threads[t] = "todo" /\ todo[t] = <<>> /\ after[t] = "start"
    /\ Open /\ tasks["run.failure"].state # "running"
    /\ CommitChange(t, "run.failure", Begun("run.failure", FALSE), TRUE)
    /\ todo' = [todo EXCEPT ![t] = <<<<"run.failure", tasks'["run.failure"].generation>>>>]
    /\ after' = [after EXCEPT ![t] = "fail"]

Return(t) ==
    /\ threads[t] = "todo" /\ todo[t] = <<>> /\ after[t] # "close"
    /\ after[t] = "start" => ~Open \/ tasks["run.failure"].state = "running"
    /\ threads' = [threads EXCEPT ![t] = "idle"] /\ after' = [after EXCEPT ![t] = "return"]
    /\ UNCHANGED <<manager, sinks, holder, mine, turn, todo, json, seen, terminal>>

Closed(t) ==
    /\ threads[t] = "todo" /\ todo[t] = <<>> /\ after[t] = "close"
    /\ closed' = TRUE
    /\ threads' = [threads EXCEPT ![t] = "close"] /\ after' = [after EXCEPT ![t] = "return"]
    /\ UNCHANGED <<tasks, revision, publications, closing, sinks, holder, mine, turn, todo, json, seen, terminal>>

-----------------------------------------------------------------------------
(* Publishing *)

Resume(t) ==
    /\ threads' = [threads EXCEPT ![t] = IF after[t] = "return" THEN "idle" ELSE "todo"]
    /\ mine' = [mine EXCEPT ![t] = 0]

\* Mutant: there is no publish lock.
EnterUnlocked(t) ==
    /\ threads[t] = "publish"
    /\ IF mine[t] <= Published THEN Resume(t)
       ELSE threads' = [threads EXCEPT ![t] = "deliver"] /\ mine' = mine
    /\ turn' = [turn EXCEPT ![t] = "terminal"]
    /\ UNCHANGED <<manager, sinks, holder, todo, after, json, seen, terminal>>

\* Take the publish lock, unless the revision has been delivered already.
Enter(t) ==
    /\ threads[t] = "publish" /\ holder = NoHolder
    /\ IF mine[t] <= Published
       THEN holder' = NoHolder /\ Resume(t)
       ELSE holder' = t /\ threads' = [threads EXCEPT ![t] = "deliver"] /\ mine' = mine
    /\ turn' = [turn EXCEPT ![t] = "terminal"]
    /\ UNCHANGED <<manager, sinks, todo, after, json, seen, terminal>>

Delivers(t, s) ==
    /\ threads[t] = "deliver" /\ turn[t] = s /\ s \in sinks
    /\ seen' = [seen EXCEPT ![s] = Append(@, Head(publications).revision)]
    /\ turn' = [turn EXCEPT ![t] = IF s = "terminal" THEN "json" ELSE "end"]
    /\ UNCHANGED <<manager, holder, threads, mine, todo, after>>

Skips(t) ==
    /\ threads[t] = "deliver" /\ turn[t] # "end" /\ turn[t] \notin sinks
    /\ turn' = [turn EXCEPT ![t] = IF @ = "terminal" THEN "json" ELSE "end"]
    /\ UNCHANGED <<manager, sinks, holder, threads, mine, todo, after, json, seen, terminal>>

\* The terminal draws, and starts a ticker for a task without a total; or it is closed or
\* has drawn just now.  A sink that raises is closed and not used any more.
Draw(t, throttled, fails) ==
    /\ Delivers(t, "terminal")
    /\ LET p == Head(publications)
           skipped == down \/ (throttled /\ ~p.lifecycle)
       IN  /\ sinks' = IF ~skipped /\ fails THEN sinks \ {"terminal"} ELSE sinks
           /\ down' = (down \/ (~skipped /\ fails))
           /\ display' = IF skipped THEN display ELSE IF fails THEN "none" ELSE Shown(p.tasks)
           /\ ticker' = IF ~skipped /\ Shown(p.tasks) = "unbounded" /\ ticker = "none"
                        THEN "wait" ELSE ticker
    /\ UNCHANGED json

\* The JSON sink replaces its file, unless it did so just now; if that raises it is closed,
\* which tries once more.
Save(t, throttled, fails) ==
    /\ Delivers(t, "json")
    /\ LET p == Head(publications)
           write == p.lifecycle \/ ~throttled
       IN  IF p.revision < latest.revision THEN UNCHANGED <<json, sinks>>
           ELSE /\ latest' = [revision |-> p.revision, tasks |-> p.tasks]
                /\ IF write THEN progressFile' = p.tasks \/ (fails /\ progressFile' = progressFile) ELSE progressFile' = progressFile
                /\ unsaved' = (unsaved /\ (~write \/ fails))
                /\ sinks' = IF write /\ fails THEN sinks \ {"json"} ELSE sinks
    /\ UNCHANGED terminal

\* All sinks have it: go on with the next revision, if one is due by now.
Delivered(t) ==
    /\ threads[t] = "deliver" /\ turn[t] = "end"
    /\ publications' = Tail(publications)
    /\ IF Len(publications) > 1
       THEN UNCHANGED <<holder, threads, mine>>
       ELSE holder' = NoHolder /\ Resume(t)
    /\ turn' = [turn EXCEPT ![t] = "terminal"]
    /\ UNCHANGED <<tasks, revision, closing, closed, sinks, todo, after, json, seen, terminal>>

\* close ends with the sinks, under the publish lock.
CloseSinks(t, fails) ==
    /\ threads[t] = "close" /\ holder = NoHolder
    /\ threads' = [threads EXCEPT ![t] = "idle"]
    /\ IF "terminal" \in sinks THEN down' = TRUE /\ display' = "none" ELSE UNCHANGED <<down, display>>
    /\ progressFile' = IF "json" \in sinks /\ latest.revision > 0 /\ ~fails THEN latest.tasks ELSE progressFile
    /\ unsaved' = fails
    /\ UNCHANGED <<manager, sinks, holder, mine, turn, todo, after, latest, seen, ticker>>

-----------------------------------------------------------------------------
(* The ticker *)

\* A log line that cannot be written, or a tick that cannot, closes the terminal.
TerminalBreaks ==
    /\ "terminal" \in sinks /\ ~down
    /\ down' = TRUE /\ display' = "none"
    /\ UNCHANGED <<manager, sinks, holder, thread, json, seen, ticker>>

\* It leaves its loop if there is nothing to animate; then it has released the sink's
\* lock, but it is alive until it has taken it once more.
TickerLeaves ==
    /\ ticker = "wait"
    /\ down \/ display # "unbounded"
    /\ ticker' = "exiting"
    /\ UNCHANGED <<manager, sinks, holder, thread, json, seen, display, down>>

TickerEnds ==
    /\ ticker = "exiting"
    /\ ticker' = "none"
    /\ UNCHANGED <<manager, sinks, holder, thread, json, seen, display, down>>

ProgressNext ==
    \/ \E t \in Threads, k \in Tasks \ {"run.failure"} :
           \/ \E bounded \in BOOLEAN : StartTask(t, k, bounded) \/ Update(t, k, bounded)
           \/ \E state \in {"succeeded", "failed"} : FinishTask(t, k, state)
    \/ \E t \in Threads :
           \/ RecordFailure(t) \/ Close(t) \/ FinishHandle(t) \/ StartFailure(t) \/ Return(t)
           \/ Closed(t) \/ Enter(t) \/ Skips(t) \/ Delivered(t)
           \/ \E fails \in BOOLEAN : CloseSinks(t, fails)
           \/ \E throttled, fails \in BOOLEAN : Draw(t, throttled, fails) \/ Save(t, throttled, fails)
    \/ TerminalBreaks \/ TickerLeaves \/ TickerEnds

ProgressSpec == ProgressInit /\ [][ProgressNext]_progressVars

-----------------------------------------------------------------------------
(* Properties *)

\* Every sink gets every revision once and in the order of the commits, whichever threads
\* deliver them; and when all calls have returned, a sink that did not fail has them all.
DeliveredInOrder ==
    \A s \in sinks :
        /\ \A i \in 1 .. Len(seen[s]) : seen[s][i] = i
        /\ AllIdle => Len(seen[s]) = revision

\* When the manager is closed and all calls have returned, no task runs and the progress
\* file holds the final state, though updates were throttled and calls raced with close.
FinalStatePersisted ==
    closed /\ AllIdle =>
        /\ RunningTasks(tasks) = {}
        /\ "json" \in sinks /\ ~unsaved /\ revision > 0 => progressFile = tasks

\* Every sink gets every revision once and in order, and the progress file holds the final
\* state once the manager is closed.
SinksFollow == DeliveredInOrder /\ FinalStatePersisted

\* A task without a total that is on the terminal is animated, at least when nothing else
\* is going on.
Animated == AllIdle /\ display = "unbounded" /\ ~down => ticker # "none"
=============================================================================
