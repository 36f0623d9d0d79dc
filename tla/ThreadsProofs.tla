---------------------------- MODULE ThreadsProofs ----------------------------
(***************************************************************************)
(* Proofs about Threads for any number of threads and of calls.  That no   *)
(* thread runs on a freed vm rests on what each native has in hand between *)
(* its steps; that vm_close finds no thread running, on the tree of who    *)
(* made whom: a thread that still runs has a maker that still runs.        *)
(***************************************************************************)
EXTENDS Threads, TLAPS

OnThread == {"starting", "resuming", "joining", "cancelling", "closing"}

(* Actor a is between two steps of a native called on a thread.            *)
On(a) == os[a] = "ready" /\ call[a].op \in OnThread

-----------------------------------------------------------------------------
(* What keeps a thread off a freed vm.                                     *)

Target == \A a \in Actors : On(a) => call[a].t \in Threads /\ record[call[a].t] = "made"

NotBegun == \A a \in Actors : os[a] \in {"none", "suspended"} => call[a].op = "entry"

Flagged ==
  /\ \A t \in Threads : os[t] = "ready" => running[t]
  /\ \A a \in Actors : On(a) /\ call[a].op = "resuming" => running[call[a].t]

(* Who closes a thread is alone with it, and it does not run.              *)
LastUser ==
  \A b \in Actors : On(b) /\ call[b].op = "closing" =>
    /\ os[call[b].t] # "ready"
    /\ \A c \in Actors \ {b} : On(c) => call[c].t # call[b].t

UseInv == TypeOK /\ Target /\ NotBegun /\ Flagged /\ LastUser /\ VmInUse

-----------------------------------------------------------------------------
(* What keeps a structured script's threads within their maker's life.     *)

(* Only its maker has a thread in hand.                                    *)
Private == \A a \in Actors : On(a) => creator[call[a].t] = a

(* A thread that runs or is about to is still to be joined.                *)
ToJoin ==
  /\ \A t \in Threads : os[t] = "ready" => t \in loose
  /\ \A a \in Actors : On(a) /\ call[a].op \in {"starting", "resuming"} => call[a].t \in loose
  /\ \A a \in Actors : On(a) /\ call[a].op = "cancelling" => os[call[a].t] # "ready"

(* Only a thread that has begun makes others, so makers form a forest.     *)
MakersBegun ==
  \A t \in Threads : record[t] # "none" => os[creator[t]] \notin {"none", "suspended"}

Forest ==
  \A S \in SUBSET Threads :
    S # {} /\ (\A t \in S : record[t] # "none") => \E t \in S : creator[t] \notin S

(* What has ended left no thread of its own running.                       *)
LeftNone ==
  process = "up" =>
    \A a \in Actors : os[a] = "ended" =>
      \A t \in Threads : record[t] # "none" /\ creator[t] = a => t \notin loose

Closed == shared = "freed" => call[Main].op = "exiting" /\ \A t \in Threads : os[t] # "ready"

Lives == Private /\ ToJoin /\ MakersBegun /\ LeftNone /\ Closed

TreeInv == Structured => Lives /\ Forest

-----------------------------------------------------------------------------
(* Every step keeps UseInv.  The natives that only look at a thread and    *)
(* take it in hand are alike.                                              *)
LEMMA UseStep == UseInv /\ [Next]_vars => UseInv'
<1> SUFFICES ASSUME UseInv, [Next]_vars  PROVE UseInv'
  OBVIOUS
<1> USE ThreadsAssumption DEF UseInv, Actors, On, OnThread, In, Script, Go, At, Runs
<1>1. ASSUME NEW a \in Actors, NEW t \in Threads, ThreadCreate(a, t)  PROVE UseInv'
  <2>1. TypeOK'
    BY <1>1 DEF TypeOK, ThreadCreate, Counted
  <2>2. Target' /\ LastUser' /\ VmInUse'
    BY <1>1 DEF Target, LastUser, VmInUse, ThreadCreate
  <2>3. NotBegun' /\ Flagged'
    BY <1>1 DEF TypeOK, Target, NotBegun, Flagged, ThreadCreate
  <2> QED BY <2>1, <2>2, <2>3
<1>2. ASSUME NEW a \in Actors, NEW t \in Threads,
             ThreadStart(a, t) \/ ThreadJoin(a, t) \/ ThreadCancel(a, t)
      PROVE  UseInv'
  <2>1. TypeOK'
    BY <1>2 DEF TypeOK, Steps, Counted, ThreadStart, ThreadJoin, ThreadCancel
  <2>2. /\ os[a] = "ready" /\ call[a].op = "script"
        /\ record[t] = "made" /\ ~Closing(t)
        /\ UNCHANGED <<record, running, os>>
        /\ UNCHANGED call \/ \E op \in {"starting", "joining", "cancelling"} : Go(a, In(op, t))
    BY <1>2 DEF Usable, ThreadStart, ThreadJoin, ThreadCancel
  <2>3. CASE UNCHANGED call
    BY <2>1, <2>2, <2>3 DEF Target, NotBegun, Flagged, LastUser, VmInUse
  <2>4. ASSUME NEW op \in {"starting", "joining", "cancelling"}, Go(a, In(op, t))
        PROVE  UseInv'
    <3>1. call'[a] = In(op, t) /\ \A b \in Actors \ {a} : call'[b] = call[b]
      BY <2>4 DEF TypeOK
    <3>2. \A b \in Actors : On(b) /\ call[b].op = "closing" => call[b].t # t
      BY <2>2 DEF Closing, TypeOK
    <3>3. Target' /\ NotBegun' /\ Flagged' /\ VmInUse'
      BY <2>2, <2>4, <3>1 DEF Target, NotBegun, Flagged, VmInUse
    <3>4. LastUser'
      BY <2>2, <2>4, <3>1, <3>2 DEF LastUser
    <3> QED BY <2>1, <3>3, <3>4
  <2> QED BY <2>2, <2>3, <2>4
<1>3. ASSUME NEW a \in Actors, NEW t \in Threads, ThreadClose(a, t)  PROVE UseInv'
  <2>1. TypeOK'
    BY <1>3 DEF TypeOK, Steps, ThreadClose, Counted, Usable
  <2>2. Target' /\ LastUser' /\ VmInUse'
    BY <1>3 DEF TypeOK, Target, Flagged, LastUser, VmInUse, ThreadClose, Usable, Busy
  <2>3. NotBegun' /\ Flagged'
    BY <1>3 DEF NotBegun, Flagged, ThreadClose
  <2> QED BY <2>1, <2>2, <2>3
<1>4. ASSUME NEW a \in Actors, SetRunning(a)  PROVE UseInv'
  <2>1. TypeOK'
    BY <1>4 DEF TypeOK, Steps, SetRunning
  <2>2. Target' /\ LastUser' /\ VmInUse'
    BY <1>4 DEF Target, LastUser, VmInUse, SetRunning
  <2>3. NotBegun' /\ Flagged'
    BY <1>4 DEF TypeOK, Target, NotBegun, Flagged, SetRunning
  <2> QED BY <2>1, <2>2, <2>3
<1>5. ASSUME NEW a \in Actors, ResumeThread(a)  PROVE UseInv'
  <2>1. TypeOK'
    BY <1>5 DEF TypeOK, Steps, ResumeThread
  <2>2. Target' /\ LastUser' /\ VmInUse'
    BY <1>5 DEF Target, NotBegun, LastUser, VmInUse, ResumeThread
  <2>3. NotBegun' /\ Flagged'
    BY <1>5 DEF NotBegun, Flagged, ResumeThread
  <2> QED BY <2>1, <2>2, <2>3
<1>6. ASSUME NEW a \in Actors, WaitForSingleObject(a)  PROVE UseInv'
  <2>1. TypeOK'
    BY <1>6 DEF TypeOK, Steps, WaitForSingleObject
  <2>2. Target' /\ LastUser' /\ VmInUse'
    BY <1>6 DEF Target, LastUser, VmInUse, WaitForSingleObject
  <2>3. NotBegun' /\ Flagged'
    BY <1>6 DEF NotBegun, Flagged, WaitForSingleObject
  <2> QED BY <2>1, <2>2, <2>3
<1>7. ASSUME NEW a \in Actors, TerminateThread(a)  PROVE UseInv'
  <2>1. TypeOK'
    BY <1>7 DEF TypeOK, Steps, Target, TerminateThread
  <2>2. Target' /\ LastUser' /\ VmInUse'
    BY <1>7 DEF Target, LastUser, VmInUse, TerminateThread
  <2>3. NotBegun' /\ Flagged'
    BY <1>7 DEF NotBegun, Flagged, TerminateThread
  <2> QED BY <2>1, <2>2, <2>3
<1>8. ASSUME NEW a \in Actors, FreeThread(a)  PROVE UseInv'
  <2>1. TypeOK'
    BY <1>8 DEF TypeOK, Steps, Target, FreeThread
  <2>2. Target' /\ LastUser' /\ VmInUse'
    BY <1>8 DEF TypeOK, Target, LastUser, VmInUse, FreeThread
  <2>3. NotBegun' /\ Flagged'
    BY <1>8 DEF NotBegun, Flagged, FreeThread
  <2> QED BY <2>1, <2>2, <2>3
<1>9. ASSUME NEW a \in Actors, ThreadExit(a)  PROVE UseInv'
  <2>1. TypeOK'
    BY <1>9 DEF TypeOK, ThreadExit
  <2>2. Target' /\ LastUser' /\ VmInUse'
    BY <1>9 DEF Target, LastUser, VmInUse, ThreadExit
  <2>3. NotBegun' /\ Flagged'
    BY <1>9 DEF NotBegun, Flagged, ThreadExit
  <2> QED BY <2>1, <2>2, <2>3
<1>10. ASSUME NEW t \in Threads, ThreadRoutine(t)  PROVE UseInv'
  <2>1. TypeOK'
    BY <1>10 DEF TypeOK, Steps, ThreadRoutine
  <2>2. Target' /\ LastUser' /\ VmInUse'
    BY <1>10 DEF TypeOK, Target, LastUser, VmInUse, ThreadRoutine
  <2>3. NotBegun' /\ Flagged'
    BY <1>10 DEF TypeOK, NotBegun, Flagged, ThreadRoutine
  <2> QED BY <2>1, <2>2, <2>3
<1>11. ASSUME VmClose  PROVE UseInv'
  <2>1. TypeOK'
    BY <1>11 DEF TypeOK, Steps, VmClose
  <2>2. Target' /\ LastUser' /\ VmInUse'
    BY <1>11 DEF Target, LastUser, VmInUse, VmClose
  <2>3. NotBegun' /\ Flagged'
    BY <1>11 DEF NotBegun, Flagged, VmClose
  <2> QED BY <2>1, <2>2, <2>3
<1>12. ASSUME ExitProcess  PROVE UseInv'
  <2>1. TypeOK'
    BY <1>12 DEF TypeOK, ExitProcess
  <2>2. Target' /\ LastUser' /\ VmInUse'
    BY <1>12 DEF Target, LastUser, VmInUse, ExitProcess
  <2>3. NotBegun' /\ Flagged'
    BY <1>12 DEF NotBegun, Flagged, ExitProcess
  <2> QED BY <2>1, <2>2, <2>3
<1>13. CASE UNCHANGED vars
  BY <1>13 DEF vars, TypeOK, Target, NotBegun, Flagged, LastUser, VmInUse
<1> QED BY <1>1, <1>2, <1>3, <1>4, <1>5, <1>6, <1>7, <1>8, <1>9, <1>10, <1>11, <1>12, <1>13
       DEF Next, Continue, Call

LEMMA UseInit == Init => UseInv
BY ThreadsAssumption DEF Init, UseInv, TypeOK, Steps, Target, NotBegun, Flagged, LastUser,
                         VmInUse, Actors, On, OnThread, In, Script

LEMMA UseInvariant == Spec => []UseInv
BY UseInit, UseStep, PTL DEF Spec

(* Every variable keeps its type, and Windows knows the threads that have  *)
(* been made and no others (thread_create).                                *)
THEOREM ThreadsTyped == Spec => []TypeOK
BY UseInvariant, PTL DEF UseInv

(* thread_close frees no vm that a thread runs on, in a script that closes *)
(* no thread another call is busy with: nothing clears the running flag,   *)
(* but a thread that runs has it set, so that it is terminated first.      *)
THEOREM ThreadsVmInUse == Spec => []VmInUse
BY UseInvariant, PTL DEF UseInv

-----------------------------------------------------------------------------
(* Makers form a forest: a new thread has made none, so that it is neither *)
(* the maker of a set's other threads nor its own.                         *)
LEMMA ForestStep ==
  ASSUME UseInv, MakersBegun, Forest, [Next]_vars
  PROVE  Forest'
<1> USE ThreadsAssumption DEF Actors, At, Runs
<1>. TypeOK /\ Target
  BY DEF UseInv
<1>1. ASSUME NEW a \in Actors, NEW t \in Threads, ThreadCreate(a, t)  PROVE Forest'
  <2>1. /\ record[t] = "none" /\ os[t] = "none" /\ a # t
        /\ creator'[t] = a
        /\ \A u \in Threads \ {t} : creator'[u] = creator[u] /\ record'[u] = record[u]
    BY <1>1 DEF ThreadCreate, TypeOK
  <2>2. \A u \in Threads : record[u] # "none" => creator[u] # t
    BY <2>1 DEF MakersBegun
  <2>3. ASSUME NEW S \in SUBSET Threads, S # {}, \A u \in S : record'[u] # "none"
        PROVE  \E u \in S : creator'[u] \notin S
    <3>1. CASE S = {t}
      BY <2>1, <3>1
    <3>2. CASE S \ {t} # {}
      <4>1. PICK u \in S \ {t} : creator[u] \notin S \ {t}
        BY <2>1, <2>3, <3>2 DEF Forest
      <4> QED BY <2>1, <2>2, <2>3, <4>1
    <3> QED BY <2>3, <3>1, <3>2
  <2> QED BY <2>3 DEF Forest
<1>2. CASE ~ \E a \in Actors, t \in Threads : ThreadCreate(a, t)
  <2>1. creator' = creator /\ \A t \in Threads : record'[t] # "none" => record[t] # "none"
    BY <1>2 DEF Next, Continue, Call, vars, ThreadStart, ThreadJoin, ThreadCancel,
                ThreadClose, SetRunning, ResumeThread, WaitForSingleObject, TerminateThread,
                FreeThread, ThreadExit, ThreadRoutine, VmClose, ExitProcess, TypeOK, Target,
                On, OnThread
  <2> QED BY <2>1 DEF Forest
<1> QED BY <1>1, <1>2

(* When main has settled no thread runs: a running one is still to be      *)
(* joined, so its maker is not main and has not ended, so it runs too; and *)
(* no set of threads holds all of their makers.                            *)
LEMMA SettledAlone ==
  ASSUME UseInv, Structured, TreeInv, process = "up", Settled(Main)
  PROVE  \A t \in Threads : os[t] # "ready"
<1> DEFINE S == {t \in Threads : os[t] = "ready"}
<1> SUFFICES ASSUME S # {}  PROVE FALSE
  OBVIOUS
<1>1. \A t \in S : record[t] # "none" /\ t \in loose
  BY DEF UseInv, TypeOK, TreeInv, Lives, ToJoin
<1>2. PICK t \in S : creator[t] \notin S
  BY <1>1 DEF TreeInv, Forest
<1>3. creator[t] # Main
  BY <1>1, <1>2 DEF Settled
<1>4. creator[t] \in Threads /\ os[creator[t]] \in {"none", "suspended", "ended"}
  BY <1>2, <1>3 DEF UseInv, TypeOK, Actors
<1>5. os[creator[t]] = "ended"
  BY <1>1, <1>4 DEF TreeInv, Lives, MakersBegun
<1> QED BY <1>1, <1>4, <1>5 DEF TreeInv, Lives, LeftNone, Actors

(* Every step keeps TreeInv: a structured script changes a thread only     *)
(* through its maker.                                                      *)
LEMMA TreeStep == UseInv /\ TreeInv /\ [Next]_vars => TreeInv'
<1> SUFFICES ASSUME UseInv, TreeInv, [Next]_vars, Structured
             PROVE  Lives' /\ Forest'
  BY ThreadsAssumption DEF TreeInv
<1> USE ThreadsAssumption DEF Lives, Actors, On, OnThread, In, Script, Go, At, Runs
<1>. TypeOK /\ Target /\ NotBegun /\ Lives /\ Forest
  BY DEF UseInv, TreeInv
<1>0. Forest'
  BY ForestStep
<1>1. ASSUME NEW a \in Actors, NEW t \in Threads, ThreadCreate(a, t)  PROVE Lives'
  <2>1. Private' /\ ToJoin'
    BY <1>1 DEF Private, ToJoin, Target, ThreadCreate
  <2>2. MakersBegun' /\ LeftNone'
    BY <1>1 DEF TypeOK, MakersBegun, LeftNone, ThreadCreate
  <2>3. Closed'
    BY <1>1 DEF Closed, ThreadCreate
  <2> QED BY <2>1, <2>2, <2>3
<1>2. ASSUME NEW a \in Actors, NEW t \in Threads, ThreadStart(a, t)  PROVE Lives'
  <2>1. Private' /\ ToJoin'
    BY <1>2 DEF TypeOK, Private, ToJoin, ThreadStart, Own
  <2>2. MakersBegun' /\ LeftNone'
    BY <1>2 DEF MakersBegun, LeftNone, ThreadStart, Own
  <2>3. Closed'
    BY <1>2 DEF Closed, ThreadStart
  <2> QED BY <2>1, <2>2, <2>3
<1>3. ASSUME NEW a \in Actors, NEW t \in Threads, ThreadJoin(a, t)  PROVE Lives'
  <2>1. Private' /\ ToJoin'
    <3>1. (UNCHANGED call) \/ (running[t] /\ Go(a, In("joining", t)))
      BY <1>3, Zenon DEF ThreadJoin
    <3>2. call[a].op = "script" /\ creator[t] = a /\ UNCHANGED <<os, creator, loose>>
      BY <1>3 DEF Own, ThreadJoin
    <3>3. CASE UNCHANGED call
      BY <3>2, <3>3 DEF Private, ToJoin
    <3>4. CASE running[t] /\ Go(a, In("joining", t))
      <4>1. call'[a] = In("joining", t) /\ \A b \in Actors \ {a} : call'[b] = call[b]
        BY <3>4 DEF TypeOK
      <4> QED BY <3>2, <3>4, <4>1 DEF Private, ToJoin
    <3> QED BY <3>1, <3>3, <3>4
  <2>2. MakersBegun' /\ LeftNone'
    BY <1>3 DEF MakersBegun, LeftNone, ThreadJoin
  <2>3. Closed'
    BY <1>3 DEF Closed, ThreadJoin
  <2> QED BY <2>1, <2>2, <2>3
<1>4. ASSUME NEW a \in Actors, NEW t \in Threads, ThreadCancel(a, t)  PROVE Lives'
  <2>1. Private' /\ ToJoin'
    <3>1. (UNCHANGED call) \/ (~running[t] /\ Go(a, In("cancelling", t)))
      BY <1>4, Zenon DEF ThreadCancel
    <3>2. call[a].op = "script" /\ creator[t] = a /\ UNCHANGED <<os, creator, loose>>
      BY <1>4 DEF Own, ThreadCancel
    <3>3. CASE UNCHANGED call
      BY <3>2, <3>3 DEF Private, ToJoin
    <3>4. CASE ~running[t] /\ Go(a, In("cancelling", t))
      <4>1. call'[a] = In("cancelling", t) /\ \A b \in Actors \ {a} : call'[b] = call[b]
        BY <3>4 DEF TypeOK
      <4> QED BY <3>2, <3>4, <4>1 DEF Private, ToJoin, UseInv, Flagged
    <3> QED BY <3>1, <3>3, <3>4
  <2>2. MakersBegun' /\ LeftNone'
    BY <1>4 DEF MakersBegun, LeftNone, ThreadCancel
  <2>3. Closed'
    BY <1>4 DEF Closed, ThreadCancel
  <2> QED BY <2>1, <2>2, <2>3
<1>5. ASSUME NEW a \in Actors, NEW t \in Threads, ThreadClose(a, t)  PROVE Lives'
  <2>1. Private' /\ ToJoin'
    BY <1>5 DEF Private, ToJoin, ThreadClose, Own
  <2>2. MakersBegun' /\ LeftNone'
    BY <1>5 DEF TypeOK, MakersBegun, LeftNone, ToJoin, ThreadClose
  <2>3. Closed'
    BY <1>5 DEF Closed, ThreadClose
  <2> QED BY <2>1, <2>2, <2>3
<1>6. ASSUME NEW a \in Actors, SetRunning(a)  PROVE Lives'
  <2>1. Private' /\ ToJoin'
    BY <1>6 DEF Private, ToJoin, SetRunning
  <2>2. MakersBegun' /\ LeftNone'
    BY <1>6 DEF MakersBegun, LeftNone, SetRunning
  <2>3. Closed'
    BY <1>6 DEF Closed, SetRunning
  <2> QED BY <2>1, <2>2, <2>3
<1>7. ASSUME NEW a \in Actors, ResumeThread(a)  PROVE Lives'
  <2>1. Private' /\ ToJoin'
    <3> DEFINE t == call[a].t
    <3>1. /\ t \in Threads /\ t \in loose /\ creator[t] = a /\ os[a] = "ready"
          /\ call[a].op = "resuming"
          /\ UNCHANGED <<creator, loose>>
      BY <1>7 DEF ResumeThread, Target, Private, ToJoin
    <3>2. call'[a] = Script /\ \A b \in Actors \ {a} : call'[b] = call[b]
      BY <1>7 DEF ResumeThread, TypeOK
    <3>3. os' = [os EXCEPT ![t] = IF os[t] = "suspended" THEN "ready" ELSE os[t]]
      BY <1>7 DEF ResumeThread
    <3>4. /\ os'[t] = IF os[t] = "suspended" THEN "ready" ELSE os[t]
          /\ \A b \in Actors \ {t} : os'[b] = os[b]
      BY <3>1, <3>3 DEF TypeOK
    <3>5. \A b \in Actors : os[b] = "suspended" => call[b].op = "entry"
      BY DEF NotBegun
    <3> HIDE DEF t
    <3>6. \A b \in Actors : On(b)' => b # a /\ On(b) /\ call'[b] = call[b]
      BY <3>1, <3>2, <3>4, <3>5
    <3>7. \A b \in Actors : On(b)' => call[b].t # t
      BY <3>1, <3>6 DEF Private
    <3> QED BY <3>1, <3>2, <3>4, <3>6, <3>7 DEF Private, ToJoin, Target
  <2>2. MakersBegun' /\ LeftNone'
    BY <1>7 DEF MakersBegun, LeftNone, ResumeThread
  <2>3. Closed'
    BY <1>7 DEF Closed, ResumeThread
  <2> QED BY <2>1, <2>2, <2>3
<1>8. ASSUME NEW a \in Actors, WaitForSingleObject(a)  PROVE Lives'
  <2>1. Private' /\ ToJoin'
    BY <1>8 DEF Private, ToJoin, WaitForSingleObject
  <2>2. MakersBegun' /\ LeftNone'
    BY <1>8 DEF MakersBegun, LeftNone, WaitForSingleObject
  <2>3. Closed'
    BY <1>8 DEF Closed, WaitForSingleObject
  <2> QED BY <2>1, <2>2, <2>3
<1>9. ASSUME NEW a \in Actors, TerminateThread(a)  PROVE Lives'
  <2>1. Private' /\ ToJoin'
    BY <1>9 DEF Private, ToJoin, TerminateThread
  <2>2. MakersBegun' /\ LeftNone'
    BY <1>9 DEF TypeOK, MakersBegun, LeftNone, ToJoin, TerminateThread
  <2>3. Closed'
    BY <1>9 DEF Closed, TerminateThread
  <2> QED BY <2>1, <2>2, <2>3
<1>10. ASSUME NEW a \in Actors, FreeThread(a)  PROVE Lives'
  <2>1. Private' /\ ToJoin'
    BY <1>10 DEF Private, ToJoin, FreeThread
  <2>2. MakersBegun' /\ LeftNone'
    BY <1>10 DEF MakersBegun, LeftNone, Target, FreeThread
  <2>3. Closed'
    BY <1>10 DEF Closed, FreeThread
  <2> QED BY <2>1, <2>2, <2>3
<1>11. ASSUME NEW a \in Actors, ThreadExit(a)  PROVE Lives'
  <2>1. Private' /\ ToJoin'
    BY <1>11 DEF Private, ToJoin, ThreadExit
  <2>2. MakersBegun' /\ LeftNone'
    BY <1>11 DEF MakersBegun, LeftNone, ThreadExit, Settled
  <2>3. Closed'
    BY <1>11 DEF Closed, ThreadExit
  <2> QED BY <2>1, <2>2, <2>3
<1>12. ASSUME NEW t \in Threads, ThreadRoutine(t)  PROVE Lives'
  <2>1. Private' /\ ToJoin'
    BY <1>12 DEF TypeOK, Private, ToJoin, ThreadRoutine
  <2>2. MakersBegun' /\ LeftNone'
    BY <1>12 DEF MakersBegun, LeftNone, ThreadRoutine
  <2>3. Closed'
    BY <1>12 DEF Closed, ThreadRoutine
  <2> QED BY <2>1, <2>2, <2>3
<1>13. ASSUME VmClose  PROVE Lives'
  <2>1. Private' /\ ToJoin'
    BY <1>13 DEF Private, ToJoin, VmClose
  <2>2. MakersBegun' /\ LeftNone'
    BY <1>13 DEF MakersBegun, LeftNone, VmClose
  <2>3. Closed'
    <3>1. \A t \in Threads : os[t] # "ready"
      BY <1>13, SettledAlone DEF VmClose
    <3> QED BY <1>13, <3>1 DEF Closed, VmClose, TypeOK
  <2> QED BY <2>1, <2>2, <2>3
<1>14. ASSUME ExitProcess  PROVE Lives'
  <2>1. Private' /\ ToJoin'
    BY <1>14 DEF Private, ToJoin, ExitProcess
  <2>2. MakersBegun' /\ LeftNone'
    BY <1>14 DEF TypeOK, MakersBegun, LeftNone, ExitProcess
  <2>3. Closed'
    BY <1>14 DEF Closed, ExitProcess
  <2> QED BY <2>1, <2>2, <2>3
<1>15. CASE UNCHANGED vars
  BY <1>0, <1>15 DEF vars, Private, ToJoin, MakersBegun, LeftNone, Closed
<1> QED BY <1>0, <1>1, <1>2, <1>3, <1>4, <1>5, <1>6, <1>7, <1>8, <1>9, <1>10, <1>11, <1>12,
       <1>13, <1>14, <1>15
       DEF Next, Continue, Call

LEMMA TreeInit == Init => TreeInv
BY ThreadsAssumption DEF Init, TreeInv, Lives, Private, ToJoin, MakersBegun, Forest,
                         LeftNone, Closed, Actors, On, OnThread, In, Script

(* vm_close frees globals, strings and heap under no running thread when   *)
(* every maker joins what it started before it closes it or ends, however  *)
(* deep threads start threads: thread_join waits for all it has to.        *)
THEOREM ThreadsSharedInUse == Spec => []SharedInUse
<1>1. Init => UseInv /\ TreeInv
  BY UseInit, TreeInit
<1>2. UseInv /\ TreeInv /\ [Next]_vars => (UseInv /\ TreeInv)'
  BY UseStep, TreeStep
<1>3. TreeInv => SharedInUse
  BY DEF TreeInv, Lives, Closed, SharedInUse
<1> QED BY <1>1, <1>2, <1>3, PTL DEF Spec
=============================================================================
