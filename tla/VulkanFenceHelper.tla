------------------------- MODULE VulkanFenceHelper -------------------------
(***************************************************************************)
(* VulkanFenceHelper (app/graphics/vv_helper.cpp): cleanup tasks that must *)
(* wait until the GPU has finished the work they belong to.  Tasks are     *)
(* grouped into generations; a generation is retired by its fence, by the  *)
(* callback given to an external client, or by waiting for the whole queue.*)
(*                                                                         *)
(* The GPU (not part of the repository) finishes the generations in the    *)
(* order of their submission.  A fence is seen signaled, and a callback    *)
(* invoked, some time after the work: the two are not ordered.             *)
(***************************************************************************)
EXTENDS Integers, Sequences, SequencesExt

CONSTANTS
    MaxTasks,        \* bound: cleanup tasks ever enqueued
    MaxGenerations   \* bound: generations ever opened

ASSUME BoundsAssumption == MaxTasks \in Nat /\ MaxGenerations \in Nat

VARIABLES
    next,       \* next_generation_
    current,    \* current_generation_
    entries,    \* cleanup_tasks_, oldest first
    pending,    \* tasks_pending_fence_
    enqueued,   \* number of tasks enqueued so far; they are numbered from 1
    ran,        \* the lists of tasks run so far, in order
    destroyed,  \* generations whose fence was destroyed
    waiting,    \* the generation Wait() is blocked on, 0 if none
    alive,      \* Destroy() has not been called
    callbacks,  \* generations whose callback has not been invoked
    done,       \* GPU: the last generation whose work is finished
    signaled,   \* GPU: generations whose fence is signaled
    lost        \* GPU: VK_ERROR_DEVICE_LOST

helper == <<next, current, entries, pending, enqueued, ran, destroyed, waiting, alive, callbacks>>
gpu == <<done, signaled, lost>>
vars == <<helper, gpu>>

Generations == 1 .. MaxGenerations
Tasks == 1 .. MaxTasks

\* TasksForFence; fence is FALSE for VK_NULL_HANDLE (UsingCallback).
TasksForFence(gen, fence, tasks) == [gen |-> gen, fence |-> fence, tasks |-> tasks]
Entry == [gen : Generations, fence : BOOLEAN, tasks : Seq(Tasks)]

Init ==
    /\ next = 1 /\ current = 0 /\ entries = <<>> /\ pending = <<>>
    /\ enqueued = 0 /\ ran = <<>> /\ destroyed = {}
    /\ waiting = 0 /\ alive = TRUE /\ callbacks = {}
    /\ done = 0 /\ signaled = {} /\ lost = FALSE

FenceGens(es) == {es[i].gen : i \in {j \in 1 .. Len(es) : es[j].fence}}

\* The tasks without a generation, as they are run by an immediate cleanup.
Rest == TasksForFence(0, FALSE, pending)

-----------------------------------------------------------------------------
(* Cleaning up *)

\* Mutant: the queue is not waited for.
PerformImmediateCleanupUnwaited ==
    /\ current' = next - 1
    /\ ran' = Append(ran \o entries, Rest)
    /\ destroyed' = destroyed \cup FenceGens(entries)
    /\ entries' = <<>> /\ pending' = <<>>
    /\ UNCHANGED gpu

\* vkQueueWaitIdle: unless the device is lost, all the submitted work is then
\* finished and its fences signaled.
PerformImmediateCleanup ==
    IF entries = <<>> /\ pending = <<>> THEN
        UNCHANGED <<current, entries, pending, ran, destroyed, gpu>>
    ELSE
        /\ current' = next - 1
        /\ ran' = Append(ran \o entries, Rest)
        /\ destroyed' = destroyed \cup FenceGens(entries)
        /\ entries' = <<>> /\ pending' = <<>>
        /\ IF lost THEN UNCHANGED <<done, signaled>>
           ELSE done' = next - 1 /\ signaled' = signaled \cup FenceGens(entries)
        /\ UNCHANGED lost

\* Mutant: a fence that is not ready does not hold the generation back.
RetiredUnclipped(asked) ==
    LET unready == FenceGens(entries) \ signaled
        seen    == {g \in FenceGens(entries) : \A u \in unready : g < u}
    IN  Max({asked} \cup seen)

\* Mutant: a signaled fence retires nothing.
RetiredAsked(asked) ==
    LET unready == FenceGens(entries) \ signaled
    IN  Min({asked} \cup {u - 1 : u \in unready})

\* The loop over the fences: each signaled one raises the generation, the first
\* one that is not ready caps it and ends the loop.
Retired(asked) ==
    LET unready == FenceGens(entries) \ signaled
        seen    == {g \in FenceGens(entries) : \A u \in unready : g < u}
    IN  Min({Max({asked} \cup seen)} \cup {u - 1 : u \in unready})

\* How many entries leave the queue: the loop takes them from the front and
\* ends at the first of a later generation.
Leaving(generation) ==
    Max({n \in 0 .. Len(entries) : \A i \in 1 .. n : entries[i].gen <= generation})

\* Everything up to the retired generation leaves the queue from the front.
Retire(generation) ==
    LET gone == SubSeq(entries, 1, Leaving(generation))
    IN  /\ current' = generation
        /\ entries' = SubSeq(entries, Leaving(generation) + 1, Len(entries))
        /\ destroyed' = destroyed \cup FenceGens(gone)
        /\ ran' = ran \o gone
        /\ UNCHANGED <<pending, gpu>>

\* vkGetFenceStatus fails on an unsignaled fence of a lost device, and may fail
\* for want of memory on any.
ProcessCleanupTasks(asked) ==
    \/ /\ lost => FenceGens(entries) \subseteq signaled
       /\ \E retired \in {Retired(IF asked = 0 THEN current ELSE asked)} : Retire(retired)
    \/ /\ FenceGens(entries) # {}
       /\ PerformImmediateCleanup

-----------------------------------------------------------------------------
(* The operations.  All run on one thread, so none while Wait() is blocked. *)

Ready == alive /\ waiting = 0

EnqueueCleanupTaskForSubmittedWork ==
    /\ Ready /\ enqueued < MaxTasks
    /\ enqueued' = enqueued + 1
    /\ pending' = Append(pending, enqueued + 1)
    /\ UNCHANGED <<next, current, entries, ran, destroyed, waiting, alive, callbacks, gpu>>

\* Mutant: the tasks stay behind for the next fence as well.
OpenKeeping(fence) ==
    /\ next' = next + 1
    /\ entries' = Append(entries, TasksForFence(next, fence, pending))
    /\ UNCHANGED pending

\* A new generation takes the tasks enqueued so far.
Open(fence) ==
    /\ next' = next + 1
    /\ entries' = Append(entries, TasksForFence(next, fence, pending))
    /\ pending' = <<>>

EnqueueFence ==
    /\ Ready /\ next <= MaxGenerations
    /\ Open(TRUE)
    /\ UNCHANGED <<current, enqueued, ran, destroyed, waiting, alive, callbacks, gpu>>

\* The fence is created and submitted, or one of the two fails and everything
\* is cleaned up at once.
GenerateCleanupFence ==
    /\ Ready /\ pending # <<>>
    /\ \/ next <= MaxGenerations /\ Open(TRUE) /\ UNCHANGED <<current, ran, destroyed, gpu>>
       \/ PerformImmediateCleanup /\ UNCHANGED next
    /\ UNCHANGED <<enqueued, waiting, alive, callbacks>>

CreateExternalCallback ==
    /\ Ready /\ pending # <<>> /\ next <= MaxGenerations
    /\ Open(FALSE)
    /\ callbacks' = callbacks \cup {next}
    /\ UNCHANGED <<current, enqueued, ran, destroyed, waiting, alive, gpu>>

\* The client invokes the callback once its work is finished, or after the
\* device was lost; the weak pointer may be dead by then.
ExternalCallback ==
    /\ waiting = 0
    /\ \E g \in callbacks :
          /\ g <= done \/ lost
          /\ callbacks' = callbacks \ {g}
          /\ IF alive /\ g > current THEN ProcessCleanupTasks(g)
             ELSE UNCHANGED <<current, entries, pending, ran, destroyed, gpu>>
    /\ UNCHANGED <<next, enqueued, waiting, alive>>

HasPassed ==
    /\ Ready
    /\ ProcessCleanupTasks(0)
    /\ UNCHANGED <<next, enqueued, waiting, alive, callbacks>>

Passed(g) == current' >= g

\* Wait on any handle given out, the default one (generation 0) included.
Wait ==
    /\ Ready
    /\ ProcessCleanupTasks(0)
    /\ \E g \in {0} \cup destroyed \cup FenceGens(entries) :
          waiting' = IF Passed(g) THEN 0 ELSE g
    /\ UNCHANGED <<next, enqueued, alive, callbacks>>

\* vkWaitForFences returns: signaled, timed out or failed; the answer is only
\* passed on, the cleanup is the same.
WaitReturns ==
    /\ waiting # 0
    /\ waiting' = 0
    /\ ProcessCleanupTasks(0)
    /\ UNCHANGED <<next, enqueued, alive, callbacks>>

Destroy ==
    /\ Ready
    /\ PerformImmediateCleanup
    /\ alive' = FALSE
    /\ UNCHANGED <<next, enqueued, waiting, callbacks>>

-----------------------------------------------------------------------------
(* The GPU *)

Finish ==
    /\ ~lost /\ done < next - 1
    /\ done' = done + 1
    /\ UNCHANGED <<signaled, lost, helper>>

Signal(g) ==
    /\ ~lost /\ g \in FenceGens(entries) \ signaled /\ g <= done
    /\ signaled' = signaled \cup {g}
    /\ UNCHANGED <<done, lost, helper>>

LoseDevice ==
    /\ ~lost /\ lost' = TRUE
    /\ UNCHANGED <<done, signaled, helper>>

Next ==
    \/ EnqueueCleanupTaskForSubmittedWork \/ EnqueueFence \/ GenerateCleanupFence
    \/ CreateExternalCallback \/ ExternalCallback
    \/ HasPassed \/ Wait \/ WaitReturns \/ Destroy
    \/ Finish \/ (\E g \in Generations : Signal(g)) \/ LoseDevice

\* The GPU makes progress while the device is there, and the owner of the
\* helper goes on asking it whether a handle has passed.
Fairness ==
    /\ WF_vars(Finish)
    /\ \A g \in Generations : WF_vars(Signal(g))
    /\ WF_vars(WaitReturns)
    /\ WF_vars(HasPassed)

Spec == Init /\ [][Next]_vars /\ Fairness

-----------------------------------------------------------------------------

TypeOK ==
    /\ next \in 1 .. MaxGenerations + 1 /\ current \in 0 .. next - 1
    /\ entries \in Seq(Entry)
    /\ ran \in Seq([gen : 0 .. MaxGenerations, fence : BOOLEAN, tasks : Seq(Tasks)])
    /\ pending \in Seq(Tasks) /\ enqueued \in 0 .. MaxTasks
    /\ destroyed \subseteq Generations /\ callbacks \subseteq Generations
    /\ waiting \in 0 .. MaxGenerations /\ alive \in BOOLEAN
    /\ done \in 0 .. next - 1 /\ signaled \subseteq Generations /\ lost \in BOOLEAN

\* No fence is destroyed while it is in use: the assertion of
\* ProcessCleanupTasks that it is signaled holds unless the device is lost, and
\* Wait() never hands a destroyed fence to vkWaitForFences.
FencesInUse ==
    /\ destroyed \subseteq signaled \/ lost
    /\ waiting # 0 => waiting \in FenceGens(entries)

\* A task runs, and a handle is reported as passed, only when the GPU has
\* finished the work of its generation: the resources it frees are no longer
\* in use.
NoEarlyCleanup ==
    \/ lost
    \/ /\ current <= done
       /\ \A i \in 1 .. Len(ran) : ran[i].gen <= done

\* Whatever retires the generations, each task is run exactly once and in the
\* order of enqueueing: those run, queued and pending are all the tasks, in order.
TasksInOrder ==
    LET lists == Append(ran \o entries, Rest)
    IN  FlattenSeq([i \in DOMAIN lists |-> lists[i].tasks]) = [i \in 1 .. enqueued |-> i]

\* No task is lost or run twice, and the variables keep their types; among them
\* the current generation, which is always one that was handed out.
EachTaskOnce == TypeOK /\ TasksInOrder

\* A generation with a fence is always retired, also behind a callback that was
\* never invoked or was invoked too early to count.
FencesRetire == \A g \in Generations : (g \in FenceGens(entries)) ~> (g <= current \/ ~alive)

=============================================================================
