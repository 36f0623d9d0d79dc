------------------------------- MODULE Threads -------------------------------
(***************************************************************************)
(* The threads of lib_thread.c: a script makes a thread suspended, starts, *)
(* joins, cancels and closes it through natives that take no lock, and may *)
(* hand the thread's value to any other thread in a global.  A clone of    *)
(* the vm runs the routine, and shares globals, strings and heap with all  *)
(* the others until main calls vm_close.                                   *)
(*                                                                         *)
(* A native call is as many steps as it has accesses that another thread   *)
(* can come between.  The thread functions of Windows, the only system     *)
(* lib_thread.c is written for, are modelled from how it uses them.        *)
(*                                                                         *)
(* Of a script it is assumed that it uses no thread it has closed, closes  *)
(* none that another call is busy with, and passes no other value for one: *)
(* the natives check none of it.                                           *)
(***************************************************************************)
EXTENDS Integers, FiniteSets

CONSTANTS
  Threads,    \* the threads that may be made
  Main,       \* the thread of main()
  Unfit,      \* those whose routine takes parameters
  Structured, \* whether scripts keep to the discipline below
  MaxCalls    \* bound: natives each thread calls, joins of its own aside

Actors == Threads \cup {Main}

ASSUME ThreadsAssumption ==
  /\ Main \notin Threads
  /\ Unfit \subseteq Threads
  /\ Structured \in BOOLEAN
  /\ MaxCalls \in Nat

VARIABLES
  record,    \* the thread_t of each thread, and with it its vm
  running,   \* thread->running
  os,        \* what Windows does with the thread
  call,      \* the native each actor is in, and on which thread
  creator,   \* who made it
  loose,     \* history: threads started and not joined since
  shared,    \* whether main's vm_close has freed what the vms share
  process,   \* "up", "exited" or "crashed"
  calls      \* natives each actor has called

vars == <<record, running, os, call, creator, loose, shared, process, calls>>

In(op, t) == [op |-> op, t |-> t]
Script == In("script", Main)

Init ==
  /\ record = [t \in Threads |-> "none"]
  /\ running = [t \in Threads |-> FALSE]
  /\ os = [a \in Actors |-> IF a = Main THEN "ready" ELSE "none"]
  /\ call = [a \in Actors |-> IF a = Main THEN Script ELSE In("entry", Main)]
  /\ creator = [t \in Threads |-> Main]
  /\ loose = {}
  /\ shared = "live"
  /\ process = "up"
  /\ calls = [a \in Actors |-> 0]

Runs(a) == process = "up" /\ os[a] = "ready"
At(a, op) == Runs(a) /\ call[a].op = op
Go(a, c) == call' = [call EXCEPT ![a] = c]

-----------------------------------------------------------------------------
(* What a script may do.                                                   *)

Closing(t) == \E b \in Actors : call[b] = In("closing", t)
Usable(t) == record[t] = "made" /\ ~Closing(t)
Busy(a, t) == \E b \in Actors \ {a} : os[b] = "ready" /\ call[b].t = t

Counted(a) == calls[a] < MaxCalls /\ calls' = [calls EXCEPT ![a] = @ + 1]

(* The discipline: whoever makes a thread is the only one to use it, gives *)
(* it a routine that fits, and joins it when it has started it before it   *)
(* closes it or ends itself.                                               *)
Own(a, t) == Structured => creator[t] = a
Settled(a) == Structured => \A t \in Threads : record[t] # "none" /\ creator[t] = a => t \notin loose

-----------------------------------------------------------------------------
(* The natives.                                                            *)

(* Fault: make the record and no thread, as the empty branch for other     *)
(* systems does.                                                           *)
ThreadCreatePosix(a, t) ==
  /\ At(a, "script") /\ record[t] = "none" /\ Counted(a)
  /\ record' = [record EXCEPT ![t] = "made"]
  /\ running' = [running EXCEPT ![t] = FALSE]
  /\ creator' = [creator EXCEPT ![t] = a]
  /\ UNCHANGED <<os, call, loose, shared, process>>

(* Nobody else knows the thread before thread_create returns.              *)
ThreadCreate(a, t) ==
  /\ At(a, "script") /\ record[t] = "none" /\ Counted(a)
  /\ Structured => t \notin Unfit
  /\ record' = [record EXCEPT ![t] = "made"]
  /\ running' = [running EXCEPT ![t] = FALSE]
  /\ os' = [os EXCEPT ![t] = "suspended"]
  /\ creator' = [creator EXCEPT ![t] = a]
  /\ UNCHANGED <<call, loose, shared, process>>

ThreadStart(a, t) ==
  /\ At(a, "script") /\ Usable(t) /\ Own(a, t) /\ Counted(a)
  /\ \/ running[t] /\ UNCHANGED <<call, loose>>
     \/ ~running[t] /\ Go(a, In("starting", t)) /\ loose' = loose \cup {t}
  /\ UNCHANGED <<record, running, os, creator, shared, process>>

SetRunning(a) ==
  /\ At(a, "starting")
  /\ running' = [running EXCEPT ![call[a].t] = TRUE]
  /\ Go(a, In("resuming", call[a].t))
  /\ UNCHANGED <<record, os, creator, loose, shared, process, calls>>

ResumeThread(a) ==
  /\ At(a, "resuming")
  /\ os' = [os EXCEPT ![call[a].t] = IF @ = "suspended" THEN "ready" ELSE @]
  /\ Go(a, Script)
  /\ UNCHANGED <<record, running, creator, loose, shared, process, calls>>

(* thread_routine: vm_call fails for a routine that takes parameters, and  *)
(* vm_execute then runs without a frame.                                   *)
ThreadRoutine(t) ==
  /\ At(t, "entry")
  /\ \/ t \notin Unfit /\ Go(t, Script) /\ UNCHANGED process
     \/ t \in Unfit /\ process' = "crashed" /\ UNCHANGED call
  /\ UNCHANGED <<record, running, os, creator, loose, shared, calls>>

(* Fault: wait only for a thread that is not running.                      *)
ThreadJoinIdle(a, t) ==
  /\ At(a, "script") /\ Usable(t) /\ Own(a, t)
  /\ Counted(a) \/ (t \in loose /\ UNCHANGED calls)
  /\ \/ ~running[t] /\ Go(a, In("joining", t)) /\ UNCHANGED loose
     \/ running[t] /\ loose' = loose \ {t} /\ UNCHANGED call
  /\ UNCHANGED <<record, running, os, creator, shared, process>>

ThreadJoin(a, t) ==
  /\ At(a, "script") /\ Usable(t) /\ Own(a, t)
  /\ Counted(a) \/ (t \in loose /\ UNCHANGED calls)
  /\ \/ running[t] /\ Go(a, In("joining", t))
     \/ ~running[t] /\ UNCHANGED call
  /\ UNCHANGED <<record, running, os, creator, loose, shared, process>>

(* Fault: the wait that only a thread never resumed can end.               *)
WaitForSuspended(a) ==
  /\ At(a, "joining") /\ os[call[a].t] = "suspended"
  /\ Go(a, Script)
  /\ loose' = loose \ {call[a].t}
  /\ UNCHANGED <<record, running, os, creator, shared, process, calls>>

WaitForSingleObject(a) ==
  /\ At(a, "joining") /\ os[call[a].t] = "ended"
  /\ Go(a, Script)
  /\ loose' = loose \ {call[a].t}
  /\ UNCHANGED <<record, running, os, creator, shared, process, calls>>

ThreadCancel(a, t) ==
  /\ At(a, "script") /\ Usable(t) /\ Own(a, t) /\ Counted(a)
  /\ \/ ~running[t] /\ Go(a, In("cancelling", t))
     \/ running[t] /\ UNCHANGED call
  /\ UNCHANGED <<record, running, os, creator, loose, shared, process>>

(* It may have been started since.                                         *)
TerminateThread(a) ==
  /\ At(a, "cancelling")
  /\ os' = [os EXCEPT ![call[a].t] = "ended"]
  /\ Go(a, Script)
  /\ UNCHANGED <<record, running, creator, loose, shared, process, calls>>

(* Fault: terminate one that is not running, as thread_cancel does.        *)
ThreadCloseIdle(a, t) ==
  /\ At(a, "script") /\ Usable(t) /\ Own(a, t) /\ ~Busy(a, t) /\ Counted(a)
  /\ Structured => t \notin loose
  /\ os' = IF ~running[t] THEN [os EXCEPT ![t] = "ended"] ELSE os
  /\ Go(a, In("closing", t))
  /\ UNCHANGED <<record, running, creator, loose, shared, process>>

(* A running thread is terminated first, which ends the call when it is    *)
(* the caller itself.                                                      *)
ThreadClose(a, t) ==
  /\ At(a, "script") /\ Usable(t) /\ Own(a, t) /\ ~Busy(a, t) /\ Counted(a)
  /\ Structured => t \notin loose
  /\ os' = IF running[t] THEN [os EXCEPT ![t] = "ended"] ELSE os
  /\ Go(a, In("closing", t))
  /\ UNCHANGED <<record, running, creator, loose, shared, process>>

(* CloseHandle, free(thread->vm), free(thread).                            *)
FreeThread(a) ==
  /\ At(a, "closing")
  /\ record' = [record EXCEPT ![call[a].t] = "freed"]
  /\ Go(a, Script)
  /\ UNCHANGED <<running, os, creator, loose, shared, process, calls>>

(* thread_exit; for a routine, also vm_execute coming to its end.          *)
ThreadExit(a) ==
  /\ At(a, "script") /\ Settled(a)
  /\ os' = [os EXCEPT ![a] = "ended"]
  /\ UNCHANGED <<record, running, call, creator, loose, shared, process, calls>>

-----------------------------------------------------------------------------
(* main: the script ends, vm_close frees what all vms use, and returning   *)
(* from main ends every thread.                                            *)
VmClose ==
  /\ At(Main, "script") /\ Settled(Main)
  /\ shared' = "freed"
  /\ Go(Main, In("exiting", Main))
  /\ UNCHANGED <<record, running, os, creator, loose, process, calls>>

ExitProcess ==
  /\ At(Main, "exiting")
  /\ process' = "exited"
  /\ os' = [a \in Actors |-> IF os[a] = "none" THEN "none" ELSE "ended"]
  /\ UNCHANGED <<record, running, call, creator, loose, shared, calls>>

-----------------------------------------------------------------------------
Continue(a) ==
  \/ SetRunning(a) \/ ResumeThread(a) \/ WaitForSingleObject(a)
  \/ TerminateThread(a) \/ FreeThread(a)

Call(a) ==
  \E t \in Threads :
    ThreadCreate(a, t) \/ ThreadStart(a, t) \/ ThreadJoin(a, t)
    \/ ThreadCancel(a, t) \/ ThreadClose(a, t)

Next ==
  \/ \E a \in Actors : Continue(a) \/ Call(a) \/ ThreadExit(a)
  \/ \E t \in Threads : ThreadRoutine(t)
  \/ VmClose \/ ExitProcess

Spec == Init /\ [][Next]_vars

(* Windows runs every thread that can run, and a script comes to its end:  *)
(* it joins what it has to and returns.                                    *)
WindUp(a) == (\E t \in loose : ThreadJoin(a, t)) \/ ThreadExit(a) \/ (a = Main /\ VmClose)

FairSpec ==
  /\ Spec
  /\ \A a \in Actors : WF_vars(Continue(a)) /\ WF_vars(WindUp(a))
  /\ \A t \in Threads : WF_vars(ThreadRoutine(t))
  /\ WF_vars(ExitProcess)

-----------------------------------------------------------------------------
Steps == {"entry", "script", "starting", "resuming", "joining", "cancelling", "closing",
          "exiting"}

TypeOK ==
  /\ record \in [Threads -> {"none", "made", "freed"}]
  /\ running \in [Threads -> BOOLEAN]
  /\ os \in [Actors -> {"none", "suspended", "ready", "ended"}]
  /\ call \in [Actors -> [op : Steps, t : Actors]]
  /\ creator \in [Threads -> Actors]
  /\ loose \subseteq Threads
  /\ shared \in {"live", "freed"}
  /\ process \in {"up", "exited", "crashed"}
  /\ calls \in [Actors -> 0..MaxCalls]
  /\ \A t \in Threads : os[t] = "none" <=> record[t] = "none"

(* No thread runs on a vm that thread_close has freed, though its running  *)
(* flag is all that thread_close has to go by and nothing ever clears it.  *)
VmInUse == \A t \in Threads : os[t] = "ready" => record[t] = "made"

(* When main frees what the vms share, no thread runs that could use it:   *)
(* a structured script has been joined down to the last descendant.        *)
SharedInUse ==
  Structured => (shared = "freed" => \A t \in Threads : os[t] # "ready")

(* A structured script ends: no join waits for a thread that was never     *)
(* resumed, or in a circle.                                                *)
MainEnds == Structured => <>(os[Main] = "ended")
=============================================================================
