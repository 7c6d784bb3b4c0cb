------------------------- MODULE WebGPUQueueProofs -------------------------
(***************************************************************************)
(* Proofs about WebGPUQueue: nobody sleeps for a call that does not come,  *)
(* and what a copy to the host gives, for every set of buffers, every      *)
(* kernel and every number of outstanding commands.                        *)
(***************************************************************************)
EXTENDS WebGPUQueue, TLAPS, SequenceTheorems

(* The host waits for the copy it has submitted.                           *)
Waiting ==
  {"request", "poll", "check", "wait", "asleep", "woken", "await", "map"}
Polling == {"request", "poll", "check", "wait", "asleep", "woken"}

Reported == \E i \in DOMAIN queue : queue[i].op # "write"

(* A flag that is clear will be set, if every submission is reported.      *)
FlagWillBeSet ==
  build = "dawn" /\ reports = "each" /\ pc \in Polling /\ ~ is_ready
    => Reported \/ due > 0 \/ cb = "set"

(* A flag that was set under a sleeping host will be signalled.            *)
SignalWillCome ==
  /\ pc = "asleep" /\ is_ready => cb = "signal"
  /\ pc = "wait" => ~ is_ready

SyncInv == WebGPUTypeOK /\ FlagWillBeSet /\ SignalWillCome

Memory == [Buffer -> Val]

(* The commands of q lead from memory m to memory n: there is a memory     *)
(* before and after each of them.                                          *)
Leads(q, m, n) ==
  \E path \in [1 .. Len(q) + 1 -> Memory] :
    /\ path[1] = m
    /\ path[Len(q) + 1] = n
    /\ \A i \in 1 .. Len(q) : path[i + 1] = Applied(q[i], path[i])

(* What the device still has to do ends in what the calls meant.           *)
QueueLeadsToMeant == Leads(queue, mem, meant)

(* The only copy to the host in the queue is the one the host waits for,   *)
(* the last of the commands, until it is done.                             *)
ReadIsLast ==
  /\ pc \in Waiting => call.op = "read"
  /\ \A i \in 1 .. Len(queue) : queue[i].op = "read" =>
       pc \in Waiting /\ i = Len(queue) /\ queue[i] = call
  /\ pc \notin Waiting => staging = None
  /\ staging # None => queue = <<>> /\ staging = meant[call.src]

(* What the wait of a copy relies on if nothing was outstanding: its own   *)
(* completion is the next, so that the flag means that it is done.         *)
QuietWait ==
  quiet /\ build = "dawn" =>
    /\ pc \in {"add", "clear", "submit"} =>
         queue = <<>> /\ due = 0 /\ cb = "idle"
    /\ pc = "submit" => ~ is_ready
    /\ pc \in Polling /\ staging = None =>
         queue = <<call>> /\ due = 0 /\ cb = "idle" /\ ~ is_ready
    /\ pc = "map" => staging # None

(* Only a copy that is done is mapped; JavaScript has waited for that.     *)
Mapped ==
  /\ mapping = "done" => staging # None
  /\ build = "js" /\ pc = "map" => mapping = "done"

CopyInv ==
  SyncInv /\ QueueLeadsToMeant /\ ReadIsLast /\ QuietWait /\ Mapped

-----------------------------------------------------------------------------
LEMMA AppliedType ==
  ASSUME NEW c \in Command, NEW m \in [Buffer -> Val]
  PROVE  Applied(c, m) \in [Buffer -> Val]
<1>1. CASE c \in [op : {"write"}, dst : Buffer, val : Val]
  BY <1>1 DEF Applied
<1>2. CASE c \in [op : {"copy", "kernel"}, dst : Buffer, src : Buffer]
  BY <1>2, WebGPUAssumption DEF Applied
<1>3. CASE c \in [op : {"read"}, src : Buffer] \/ c = Void
  BY <1>3 DEF Applied, Void
<1> QED BY <1>1, <1>2, <1>3 DEF Command, Submitted

LEMMA InitSync == Init => SyncInv
<1> SUFFICES ASSUME Init PROVE SyncInv
  OBVIOUS
<1>1. WebGPUTypeOK
  BY EmptySeq DEF Init, WebGPUTypeOK
<1>2. FlagWillBeSet /\ SignalWillCome
  BY DEF Init, FlagWillBeSet, SignalWillCome, Polling
<1> QED BY <1>1, <1>2 DEF SyncInv

(* The commands the host can begin. *)
LEMMA NextCases ==
  ASSUME Next,
         NEW P,
         \A b \in Buffer, v \in Val : MemoryCopyHtoD(b, v) => P,
         \A c \in Submitted : Begin(c) => P,
         DeviceGet \/ HostStep \/ SpuriousWake \/ Execute \/ MapDone \/ Callback => P
  PROVE  P
<1>1. \A b, c \in Buffer :
        CopyDtoD(b, c) \in Submitted /\ Run(b, c) \in Submitted
  BY DEF CopyDtoD, Run, Submitted
<1>2. \A c \in Buffer : CopyDtoH(c) \in Submitted
  BY DEF CopyDtoH, Submitted
<1> QED BY <1>1, <1>2 DEF Next

LEMMA TypeStep == WebGPUTypeOK /\ [Next]_vars => WebGPUTypeOK'
<1> SUFFICES ASSUME WebGPUTypeOK, [Next]_vars PROVE WebGPUTypeOK'
  OBVIOUS
<1> USE DEF WebGPUTypeOK, env, gpuVars, syncVars
<1>1. ASSUME NEW b \in Buffer, NEW v \in Val, MemoryCopyHtoD(b, v)
      PROVE  WebGPUTypeOK'
  <2>1. Write(b, v) \in Command
    BY DEF Write, Command
  <2>2. queue' \in Seq(Command) /\ meant' \in [Buffer -> Val]
    BY <1>1, <2>1, AppliedType DEF MemoryCopyHtoD
  <2> QED BY <1>1, <2>2 DEF MemoryCopyHtoD, Idle
<1>2. ASSUME NEW c \in Submitted, Begin(c) PROVE WebGPUTypeOK'
  BY <1>2 DEF Begin, Idle
<1>3. CASE DeviceGet
  BY <1>3 DEF DeviceGet
<1>4. CASE Submit
  <2>1. call \in Submitted /\ call \in Command
    BY <1>4 DEF Submit, Command
  <2>2. queue' \in Seq(Command) /\ meant' \in [Buffer -> Val]
    BY <1>4, <2>1, AppliedType DEF Submit
  <2>3. pc' = AfterSubmit
    BY <1>4 DEF Submit
  <2>4. pc' = "idle" \/ pc' = "request"
    BY ONLY <2>3 DEF AfterSubmit
  <2> QED BY <1>4, <2>1, <2>2, <2>4 DEF Submit
<1>5. CASE ReadBack
  <2>1. queue' \in Seq(Command)
    BY <1>5 DEF ReadBack, Command, Void
  <2> QED BY <1>5, <2>1 DEF ReadBack
<1>6. CASE Execute
  <2>1. Head(queue) \in Command /\ queue' \in Seq(Command)
    BY <1>6, HeadTailProperties DEF Execute
  <2>2. mem' \in [Buffer -> Val]
    BY <1>6, <2>1, AppliedType DEF Execute
  <2>3. staging' \in Val \cup {None}
    <3>1. CASE Head(queue).op = "read"
      <4>1. Head(queue).src \in Buffer
        BY <2>1, <3>1 DEF Command, Submitted, Void
      <4> QED BY <1>6, <3>1, <4>1 DEF Execute
    <3> QED BY <1>6, <3>1 DEF Execute
  <2>4. due' \in Nat
    BY <1>6 DEF Execute
  <2> QED BY <1>6, <2>1, <2>2, <2>3, <2>4 DEF Execute
<1>7. CASE AddLock \/ AddClear
  BY <1>7 DEF AddLock, AddClear
<1>8. CASE PollLock \/ PollReady \/ PollNotReady
  BY <1>8 DEF PollLock, PollReady, PollNotReady
<1>9. CASE CondWait \/ SpuriousWake \/ Await
  BY <1>9 DEF CondWait, SpuriousWake, Await
<1>13. CASE RequestMap
  BY <1>13, WebGPUAssumption DEF RequestMap
<1>14. CASE MapDone
  BY <1>14 DEF MapDone
<1>10. CASE CallbackLock
  <2>1. due' \in Nat
    BY <1>10 DEF CallbackLock
  <2> QED BY <1>10, <2>1 DEF CallbackLock
<1>11. CASE CallbackSet
  <2>1. /\ cb = "set" /\ cb' = "signal" /\ is_ready' = TRUE
        /\ UNCHANGED <<build, reports, device, pc, call, mutex, queue, due, mem,
                      staging, mapping, host, meant, quiet>>
    BY <1>11 DEF CallbackSet
  <2> QED BY <2>1
<1>16. CASE CallbackUnlock
  BY <1>16 DEF CallbackUnlock
<1>15. CASE CallbackSignal
  <2>1. /\ cb = "signal" /\ cb' = "unlock"
        /\ pc' = pc \/ (pc = "asleep" /\ pc' = "woken")
        /\ UNCHANGED <<build, reports, device, call, is_ready, mutex, queue,
                      due, mem, staging, mapping, host, meant, quiet>>
    BY <1>15 DEF CallbackSignal
  <2> QED BY <2>1
<1>12. CASE UNCHANGED vars
  BY <1>12 DEF vars
<1> QED
  <2>1. DeviceGet \/ HostStep \/ SpuriousWake \/ Execute \/ MapDone \/ Callback
          => WebGPUTypeOK'
    BY <1>3, <1>4, <1>5, <1>6, <1>7, <1>8, <1>9, <1>10, <1>11, <1>13, <1>14,
       <1>15, <1>16
       DEF HostStep, Callback
  <2>2. CASE Next
    BY ONLY <2>2, <2>1, <1>1, <1>2, NextCases
  <2> QED BY <2>2, <1>12

(* The state the synchronisation depends on is left alone.                 *)
LEMMA SyncKept ==
  /\ FlagWillBeSet /\ SignalWillCome
  /\ build' = build /\ reports' = reports
  /\ is_ready' = is_ready /\ queue' = queue /\ due' = due /\ cb' = cb
  /\ \/ pc' = pc
     \/ pc' \notin Polling
     \/ pc \in Polling /\ pc' \in {"poll", "check", "woken", "await"}
  => FlagWillBeSet' /\ SignalWillCome'
BY DEF FlagWillBeSet, SignalWillCome, Reported, Polling

LEMMA SyncStep == SyncInv /\ [Next]_vars => SyncInv'
<1> SUFFICES ASSUME SyncInv, [Next]_vars
             PROVE  FlagWillBeSet' /\ SignalWillCome'
  BY TypeStep DEF SyncInv
<1> USE DEF SyncInv, env, gpuVars, syncVars
<1>1. ASSUME NEW b \in Buffer, NEW v \in Val, MemoryCopyHtoD(b, v)
      PROVE  FlagWillBeSet' /\ SignalWillCome'
  BY <1>1 DEF MemoryCopyHtoD, Idle, FlagWillBeSet, SignalWillCome, Polling
<1>2. ASSUME NEW c \in Submitted, Begin(c)
      PROVE  FlagWillBeSet' /\ SignalWillCome'
  BY <1>2 DEF Begin, Idle, FlagWillBeSet, SignalWillCome, Polling
<1>3. CASE DeviceGet
  BY <1>3 DEF DeviceGet, FlagWillBeSet, SignalWillCome, Polling, WebGPUTypeOK
<1>4. CASE Submit
  <2>1. call \in Submitted /\ call \in Command /\ queue \in Seq(Command)
    BY <1>4 DEF Submit, WebGPUTypeOK, Command
  <2>2. Reported'
    <3>1. Len(queue) + 1 \in DOMAIN queue' /\ queue'[Len(queue) + 1] = call
      BY <1>4, <2>1, AppendProperties, LenProperties DEF Submit
    <3>2. call.op # "write"
      BY <2>1 DEF Submitted
    <3> QED BY <3>1, <3>2 DEF Reported
  <2>3. pc' = AfterSubmit
    BY <1>4 DEF Submit
  <2>4. pc' # "asleep" /\ pc' # "wait"
    BY ONLY <2>3 DEF AfterSubmit
  <2> QED BY <2>2, <2>4 DEF FlagWillBeSet, SignalWillCome
<1>5. CASE ReadBack
  BY <1>5 DEF ReadBack, FlagWillBeSet, SignalWillCome, Polling
<1>6. CASE Execute
  <2> DEFINE c == Head(queue)
  <2>1. queue \in Seq(Command) /\ queue # <<>> /\ c \in Command
    BY <1>6, HeadTailProperties DEF Execute, WebGPUTypeOK
  <2>3. FlagWillBeSet'
    <3>1. CASE c.op = "write"
      <4>1. Reported => Reported'
        <5> SUFFICES ASSUME NEW i \in DOMAIN queue, queue[i].op # "write"
                     PROVE  Reported'
          BY DEF Reported
        <5>1. queue[1] = c /\ i \in 1 .. Len(queue) /\ Len(queue) \in Nat
          BY <2>1, LenProperties
        <5>2. i # 1
          BY <5>1, <3>1
        <5>3. /\ Len(queue') = Len(queue) - 1
              /\ \A j \in 1 .. Len(queue') : queue'[j] = queue[j + 1]
              /\ queue' \in Seq(Command)
          BY <1>6, <2>1, HeadTailProperties DEF Execute
        <5>4. i - 1 \in DOMAIN queue' /\ queue'[i - 1] = queue[i]
          BY <5>1, <5>2, <5>3, LenProperties
        <5> QED BY <5>4 DEF Reported
      <4>2. due' = due
        BY <1>6, <3>1 DEF Execute
      <4> QED BY <1>6, <4>1, <4>2 DEF Execute, FlagWillBeSet
    <3>2. CASE c.op # "write"
      <4>1. build' = "dawn" /\ reports' = "each" => due' > 0
        BY <1>6, <3>2 DEF Execute, WebGPUTypeOK
      <4> QED BY <4>1 DEF FlagWillBeSet
    <3> QED BY <3>1, <3>2
  <2> QED BY <1>6, <2>3 DEF Execute, SignalWillCome
<1>7. CASE AddLock \/ AddClear
  BY <1>7 DEF AddLock, AddClear, FlagWillBeSet, SignalWillCome, Polling
<1>8. CASE PollLock \/ PollReady \/ SpuriousWake \/ Await
             \/ RequestMap \/ MapDone
  BY ONLY SyncInv, <1>8, SyncKept
     DEF PollLock, PollReady, SpuriousWake, Await, RequestMap, MapDone, Polling
<1>9. CASE PollNotReady
  BY <1>9 DEF PollNotReady, FlagWillBeSet, SignalWillCome, Polling, Reported
<1>10. CASE CondWait
  BY <1>10 DEF CondWait, FlagWillBeSet, SignalWillCome, Polling, Reported
<1>11. CASE CallbackLock
  BY <1>11 DEF CallbackLock, FlagWillBeSet, SignalWillCome, WebGPUTypeOK
<1>12. CASE CallbackSet
  BY <1>12 DEF CallbackSet, FlagWillBeSet, SignalWillCome, WebGPUTypeOK
<1>13. CASE CallbackSignal
  BY <1>13
     DEF CallbackSignal, FlagWillBeSet, SignalWillCome, Polling, Reported,
         WebGPUTypeOK
<1>14. CASE CallbackUnlock
  BY <1>14
     DEF CallbackUnlock, FlagWillBeSet, SignalWillCome, Polling, Reported
<1>15. CASE UNCHANGED vars
  BY ONLY SyncInv, <1>15, SyncKept DEF vars
<1> QED
  <2>1. DeviceGet \/ HostStep \/ SpuriousWake \/ Execute \/ MapDone \/ Callback
          => FlagWillBeSet' /\ SignalWillCome'
    BY <1>3, <1>4, <1>5, <1>6, <1>7, <1>8, <1>9, <1>10, <1>11, <1>12, <1>13,
       <1>14
       DEF HostStep, Callback
  <2>2. CASE Next
    BY ONLY <2>2, <2>1, <1>1, <1>2, NextCases
  <2> QED BY <2>2, <1>15

(* Nobody sleeps for a call that does not come. *)
LEMMA SyncSleeper == SyncInv => SleeperIsWoken
<1>1. WebGPUTypeOK /\ pc \in {"wait", "asleep"} => build = "dawn"
  BY DEF WebGPUTypeOK
<1> QED BY <1>1 DEF SyncInv, FlagWillBeSet, SignalWillCome, SleeperIsWoken,
                    Reported, Polling

(* Types, and the protocol of the mutex: both sides are in their critical  *)
(* sections exactly when they hold it.                                     *)
THEOREM WebGPUTypeCorrect == Spec => []WebGPUTypeOK
<1>1. Init => SyncInv
  BY InitSync
<1>2. SyncInv /\ [Next]_vars => SyncInv'
  BY SyncStep
<1>3. SyncInv => WebGPUTypeOK
  BY DEF SyncInv
<1> QED BY <1>1, <1>2, <1>3, PTL DEF Spec

(* No wake-up is lost: while the host waits in wgpuDevicePoll a completion *)
(* is on its way that signals it, however callbacks of other submissions   *)
(* and spurious wake-ups come in between.                                  *)
THEOREM SleepersAreWoken == Spec => []SleeperIsWoken
<1>1. Init => SyncInv
  BY InitSync
<1>2. SyncInv /\ [Next]_vars => SyncInv'
  BY SyncStep
<1>3. SyncInv => SleeperIsWoken
  BY SyncSleeper
<1> QED BY <1>1, <1>2, <1>3, PTL DEF Spec

-----------------------------------------------------------------------------
LEMMA LeadsEmpty ==
  ASSUME NEW m \in Memory, NEW n
  PROVE  Leads(<<>>, m, n) <=> m = n
<1>1. Len(<<>>) = 0
  OBVIOUS
<1>2. m = n => Leads(<<>>, m, n)
  <2> SUFFICES ASSUME m = n PROVE Leads(<<>>, m, n)
    OBVIOUS
  <2> DEFINE path == [i \in 1 .. Len(<<>>) + 1 |-> m]
  <2>1. path \in [1 .. Len(<<>>) + 1 -> Memory]
    OBVIOUS
  <2>2. path[1] = m /\ path[Len(<<>>) + 1] = n
    BY <1>1
  <2>3. \A i \in 1 .. Len(<<>>) : path[i + 1] = Applied(<<>>[i], path[i])
    BY <1>1
  <2> HIDE DEF path
  <2> QED BY <2>1, <2>2, <2>3 DEF Leads
<1> QED BY <1>1, <1>2 DEF Leads

LEMMA LeadsAppend ==
  ASSUME NEW q \in Seq(Command), NEW c \in Command,
         NEW m, NEW n \in Memory, Leads(q, m, n)
  PROVE  Leads(Append(q, c), m, Applied(c, n))
<1> DEFINE r == Append(q, c)
<1>1. PICK path \in [1 .. Len(q) + 1 -> Memory] :
        /\ path[1] = m
        /\ path[Len(q) + 1] = n
        /\ \A i \in 1 .. Len(q) : path[i + 1] = Applied(q[i], path[i])
  BY DEF Leads
<1>2. /\ Len(q) \in Nat
      /\ Len(r) = Len(q) + 1
      /\ \A i \in 1 .. Len(q) : r[i] = q[i]
      /\ r[Len(q) + 1] = c
  BY AppendProperties, LenProperties
<1> DEFINE longer == [i \in 1 .. Len(r) + 1 |->
                        IF i <= Len(q) + 1 THEN path[i] ELSE Applied(c, n)]
<1>3. Applied(c, n) \in Memory
  BY AppliedType DEF Memory
<1>4. longer \in [1 .. Len(r) + 1 -> Memory]
  BY <1>2, <1>3
<1>5. longer[1] = m /\ longer[Len(r) + 1] = Applied(c, n)
  BY <1>1, <1>2
<1>6. ASSUME NEW i \in 1 .. Len(r)
      PROVE  longer[i + 1] = Applied(r[i], longer[i])
  <2>1. CASE i \in 1 .. Len(q)
    BY <2>1, <1>1, <1>2
  <2>2. CASE i = Len(q) + 1
    BY <2>2, <1>1, <1>2
  <2> QED BY <2>1, <2>2, <1>2
<1> QED BY <1>4, <1>5, <1>6 DEF Leads

LEMMA LeadsTail ==
  ASSUME NEW q \in Seq(Command), q # <<>>, NEW m, NEW n, Leads(q, m, n)
  PROVE  Leads(Tail(q), Applied(Head(q), m), n)
<1> DEFINE r == Tail(q)
<1>1. PICK path \in [1 .. Len(q) + 1 -> Memory] :
        /\ path[1] = m
        /\ path[Len(q) + 1] = n
        /\ \A i \in 1 .. Len(q) : path[i + 1] = Applied(q[i], path[i])
  BY DEF Leads
<1>2. /\ Len(q) \in Nat \ {0}
      /\ Len(r) = Len(q) - 1
      /\ \A i \in 1 .. Len(r) : r[i] = q[i + 1]
      /\ Head(q) = q[1]
  BY HeadTailProperties, EmptySeq
<1> DEFINE shorter == [i \in 1 .. Len(r) + 1 |-> path[i + 1]]
<1>3. shorter \in [1 .. Len(r) + 1 -> Memory]
  BY <1>2
<1>4. shorter[1] = Applied(Head(q), m) /\ shorter[Len(r) + 1] = n
  BY <1>1, <1>2
<1>5. ASSUME NEW i \in 1 .. Len(r)
      PROVE  shorter[i + 1] = Applied(r[i], shorter[i])
  <2>1. i + 1 \in 1 .. Len(q) /\ r[i] = q[i + 1]
    BY <1>2
  <2>2. path[i + 2] = Applied(q[i + 1], path[i + 1])
    BY <1>1, <2>1
  <2>3. shorter[i] = path[i + 1] /\ shorter[i + 1] = path[i + 2]
    BY <1>2
  <2> QED BY <2>1, <2>2, <2>3
<1> QED BY <1>3, <1>4, <1>5 DEF Leads

(* A command that only reads, or whose destination is gone, changes no     *)
(* memory.                                                                 *)
LEMMA AppliedReads ==
  ASSUME NEW c, c.op \in {"read", "void"}, NEW m
  PROVE  Applied(c, m) = m
  BY Zenon DEF Applied

(* Destroying the destination of a copy to the host changes no memory.     *)
LEMMA LeadsVoid ==
  ASSUME NEW q \in Seq(Command), NEW m, NEW n, Leads(q, m, n)
  PROVE  Leads([i \in DOMAIN q |->
                  IF q[i].op = "read" THEN Void ELSE q[i]], m, n)
<1> DEFINE r == [i \in DOMAIN q |-> IF q[i].op = "read" THEN Void ELSE q[i]]
<1>1. PICK path \in [1 .. Len(q) + 1 -> Memory] :
        /\ path[1] = m
        /\ path[Len(q) + 1] = n
        /\ \A i \in 1 .. Len(q) : path[i + 1] = Applied(q[i], path[i])
  BY DEF Leads
<1>2. Len(q) \in Nat /\ DOMAIN q = 1 .. Len(q)
  BY LenProperties
<1>3. Len(r) = Len(q)
  BY <1>2
<1>4. ASSUME NEW i \in 1 .. Len(r)
      PROVE  path[i + 1] = Applied(r[i], path[i])
  <2>1. path[i + 1] = Applied(q[i], path[i])
    BY <1>1, <1>3
  <2>2. CASE q[i].op = "read"
    <3>1. r[i] = Void
      BY <2>2, <1>2, <1>3
    <3>2. path[i + 1] = path[i]
      BY <2>1, <2>2, AppliedReads
    <3> QED BY <3>1, <3>2, AppliedReads DEF Void
  <2>3. CASE q[i].op # "read"
    BY <2>1, <2>3, <1>2, <1>3
  <2> QED BY <2>2, <2>3
<1> QED BY <1>1, <1>3, <1>4 DEF Leads

-----------------------------------------------------------------------------
LEMMA InitCopy == Init => CopyInv
<1> SUFFICES ASSUME Init PROVE CopyInv
  OBVIOUS
<1>1. SyncInv
  BY InitSync
<1>2. QueueLeadsToMeant
  BY LeadsEmpty DEF Init, QueueLeadsToMeant, Memory
<1>3. ReadIsLast /\ QuietWait /\ Mapped
  BY DEF Init, ReadIsLast, QuietWait, Mapped, Waiting, Polling
<1> QED BY <1>1, <1>2, <1>3 DEF CopyInv

(* The memories: every step keeps a way from mem to meant. *)
LEMMA LeadsStep == CopyInv /\ [Next]_vars => QueueLeadsToMeant'
<1> SUFFICES ASSUME CopyInv, [Next]_vars PROVE QueueLeadsToMeant'
  OBVIOUS
<1> USE DEF CopyInv, SyncInv, env, gpuVars, syncVars
<1>0. /\ queue \in Seq(Command)
      /\ mem \in Memory /\ meant \in Memory
      /\ Leads(queue, mem, meant)
  BY DEF WebGPUTypeOK, Memory, QueueLeadsToMeant
<1>1. ASSUME NEW b \in Buffer, NEW v \in Val, MemoryCopyHtoD(b, v)
      PROVE  QueueLeadsToMeant'
  <2>1. Write(b, v) \in Command
    BY DEF Write, Command
  <2> QED BY <1>0, <1>1, <2>1, LeadsAppend
          DEF MemoryCopyHtoD, QueueLeadsToMeant
<1>2. ASSUME NEW c \in Submitted, Begin(c) PROVE QueueLeadsToMeant'
  BY <1>0, <1>2 DEF Begin, QueueLeadsToMeant
<1>3. CASE Submit
  <2>1. call \in Command
    BY <1>3 DEF Submit, WebGPUTypeOK, Command
  <2> QED BY <1>0, <1>3, <2>1, LeadsAppend DEF Submit, QueueLeadsToMeant
<1>4. CASE ReadBack
  BY <1>0, <1>4, LeadsVoid DEF ReadBack, QueueLeadsToMeant
<1>5. CASE Execute
  BY <1>0, <1>5, LeadsTail DEF Execute, QueueLeadsToMeant
<1>6. CASE UNCHANGED <<queue, mem, meant>>
  BY <1>0, <1>6 DEF QueueLeadsToMeant
<1>7. DeviceGet \/ AddLock \/ AddClear \/ PollLock \/ PollReady
        \/ PollNotReady \/ CondWait \/ SpuriousWake \/ Await
        \/ RequestMap \/ MapDone \/ Callback
        => UNCHANGED <<queue, mem, meant>>
  BY DEF DeviceGet, AddLock, AddClear, PollLock, PollReady, PollNotReady,
         CondWait, SpuriousWake, Await, RequestMap, MapDone, Callback,
         CallbackLock, CallbackSet, CallbackSignal, CallbackUnlock
<1> QED
  <2>1. DeviceGet \/ HostStep \/ SpuriousWake \/ Execute \/ MapDone \/ Callback
          => QueueLeadsToMeant'
    BY <1>3, <1>4, <1>5, <1>6, <1>7 DEF HostStep
  <2>2. CASE Next
    BY ONLY <2>2, <2>1, <1>1, <1>2, NextCases
  <2>3. CASE UNCHANGED vars
    BY <1>6, <2>3 DEF vars
  <2> QED BY <2>2, <2>3

(* The callback leaves the calls and the memory alone, and may wake the    *)
(* host.                                                                   *)
LEMMA CallbackFrame ==
  Callback =>
    /\ build' = build /\ call' = call /\ queue' = queue
    /\ staging' = staging /\ mapping' = mapping /\ meant' = meant
    /\ quiet' = quiet
    /\ pc' = pc \/ (pc = "asleep" /\ pc' = "woken")
<1>1. CallbackLock =>
        /\ build' = build /\ call' = call /\ queue' = queue
        /\ staging' = staging /\ mapping' = mapping /\ meant' = meant
        /\ quiet' = quiet
        /\ pc' = pc
  BY ONLY DEF CallbackLock, env
<1>2. CallbackSet =>
        /\ build' = build /\ call' = call /\ queue' = queue
        /\ staging' = staging /\ mapping' = mapping /\ meant' = meant
        /\ quiet' = quiet
        /\ pc' = pc
  BY ONLY DEF CallbackSet, env, gpuVars
<1>3. CallbackSignal =>
        /\ build' = build /\ call' = call /\ queue' = queue
        /\ staging' = staging /\ mapping' = mapping /\ meant' = meant
        /\ quiet' = quiet
        /\ pc' = pc \/ (pc = "asleep" /\ pc' = "woken")
  BY ONLY DEF CallbackSignal, env, gpuVars
<1>4. CallbackUnlock =>
        /\ build' = build /\ call' = call /\ queue' = queue
        /\ staging' = staging /\ mapping' = mapping /\ meant' = meant
        /\ quiet' = quiet
        /\ pc' = pc
  BY ONLY DEF CallbackUnlock, env, gpuVars
<1> QED BY ONLY <1>1, <1>2, <1>3, <1>4 DEF Callback

(* ReadIsLast depends on whether the host waits, and not on where.         *)
LEMMA ReadKept ==
  /\ ReadIsLast
  /\ queue' = queue /\ call' = call /\ staging' = staging /\ meant' = meant
  /\ pc' \in Waiting <=> pc \in Waiting
  => ReadIsLast'
BY DEF ReadIsLast

Rest == ReadIsLast /\ QuietWait /\ Mapped

LEMMA CopyStep == CopyInv /\ [Next]_vars => CopyInv'
<1> SUFFICES ASSUME CopyInv, [Next]_vars PROVE Rest'
  BY SyncStep, LeadsStep DEF CopyInv, Rest
<1> USE DEF Rest, env, gpuVars, syncVars
<1>0. /\ queue \in Seq(Command)
      /\ Len(queue) \in Nat
      /\ ReadIsLast /\ QuietWait /\ Mapped /\ WebGPUTypeOK
  BY LenProperties DEF CopyInv, SyncInv, WebGPUTypeOK
<1>1. ASSUME NEW b \in Buffer, NEW v \in Val, MemoryCopyHtoD(b, v)
      PROVE  Rest'
  <2> DEFINE c == Write(b, v)
  <2>1. c \in Command /\ c.op # "read"
    BY DEF Write, Command
  <2>2. /\ Len(queue') = Len(queue) + 1
        /\ \A i \in 1 .. Len(queue) : queue'[i] = queue[i]
        /\ queue'[Len(queue) + 1] = c
    BY <1>0, <1>1, <2>1, AppendProperties DEF MemoryCopyHtoD
  <2>3. pc = "idle" /\ pc' = "idle" /\ UNCHANGED <<call, staging, mapping>>
    BY <1>1 DEF MemoryCopyHtoD, Idle
  <2>4. ReadIsLast'
    BY <1>0, <2>1, <2>2, <2>3 DEF ReadIsLast, Waiting
  <2> QED BY <1>0, <2>3, <2>4 DEF QuietWait, Mapped, Polling
<1>2. ASSUME NEW c \in Submitted, Begin(c) PROVE Rest'
  <2>1. /\ pc = "idle" /\ pc' \in {"add", "submit"}
        /\ build = "dawn" => pc' = "add"
        /\ build' = build /\ queue' = queue /\ due' = due
        /\ cb' = cb /\ staging' = staging /\ is_ready' = is_ready
        /\ meant' = meant /\ mapping' = mapping
        /\ quiet' => queue = <<>> /\ due = 0 /\ cb = "idle"
    BY <1>2 DEF Begin, Idle
  <2>2. ReadIsLast'
    BY <1>0, <2>1 DEF ReadIsLast, Waiting
  <2> QED BY <1>0, <2>1, <2>2 DEF QuietWait, Mapped, Polling
<1>3. CASE Submit
  <2>1. /\ call \in Command
        /\ pc = "submit"
        /\ build' = build /\ call' = call /\ is_ready' = is_ready
        /\ due' = due /\ cb' = cb /\ staging' = staging
        /\ quiet' = quiet /\ mapping' = mapping
        /\ pc' = AfterSubmit
    BY <1>0, <1>3 DEF Submit, WebGPUTypeOK, Command
  <2>2. /\ Len(queue') = Len(queue) + 1
        /\ \A i \in 1 .. Len(queue) : queue'[i] = queue[i]
        /\ queue'[Len(queue) + 1] = call
    BY <1>0, <1>3, <2>1, AppendProperties DEF Submit
  <2>3. /\ call.op = "read" => pc' = "request"
        /\ call.op # "read" => pc' = "idle"
    BY ONLY <2>1 DEF AfterSubmit
  <2>4. staging = None /\ \A i \in 1 .. Len(queue) : queue[i].op # "read"
    BY <1>0, <2>1 DEF ReadIsLast, Waiting
  <2>5. ReadIsLast'
    <3>1. call.op = "read" => pc' \in Waiting
      BY <2>3 DEF Waiting
    <3>2. call.op # "read" => pc' \notin Waiting
      BY <2>3 DEF Waiting
    <3> QED BY <1>0, <2>1, <2>2, <2>4, <3>1, <3>2 DEF ReadIsLast
  <2>6. QuietWait'
    <3> SUFFICES ASSUME quiet', build' = "dawn", pc' \in Polling
                 PROVE  /\ queue' = <<call'>> /\ due' = 0 /\ cb' = "idle"
                        /\ ~ is_ready'
      BY <2>3 DEF QuietWait, Polling
    <3>1. queue = <<>> /\ due = 0 /\ cb = "idle" /\ ~ is_ready
      BY <1>0, <2>1 DEF QuietWait
    <3>2. queue' = <<call>>
      BY <1>3, <3>1 DEF Submit
    <3> QED BY <2>1, <3>1, <3>2
  <2>7. Mapped'
    BY <1>0, <2>1, <2>3 DEF Mapped
  <2> QED BY <2>5, <2>6, <2>7
<1>4. CASE ReadBack
  <2>1. /\ pc' = "idle" /\ staging' = None /\ mapping' = "none"
        /\ queue' = [i \in DOMAIN queue |->
                       IF queue[i].op = "read" THEN Void ELSE queue[i]]
    BY <1>4 DEF ReadBack
  <2>2. Len(queue') = Len(queue) /\ DOMAIN queue = 1 .. Len(queue)
    BY <1>0, <2>1, LenProperties
  <2>3. \A i \in 1 .. Len(queue') : queue'[i].op # "read"
    BY <2>1, <2>2 DEF Void
  <2>4. ReadIsLast'
    BY <2>1, <2>3 DEF ReadIsLast, Waiting
  <2> QED BY <2>1, <2>4 DEF QuietWait, Mapped, Polling
<1>5. CASE Execute
  <2> DEFINE c == Head(queue)
  <2>1. /\ queue # <<>>
        /\ build' = build /\ pc' = pc /\ call' = call
        /\ is_ready' = is_ready /\ cb' = cb /\ meant' = meant
        /\ quiet' = quiet /\ mapping' = mapping
        /\ queue' = Tail(queue)
        /\ staging' = IF c.op = "read" THEN mem[c.src] ELSE staging
        /\ mem' = Applied(c, mem)
    BY <1>5 DEF Execute
  <2>2. /\ c = queue[1] /\ c \in Command
        /\ Len(queue) \in Nat \ {0}
        /\ Len(queue') = Len(queue) - 1
        /\ \A i \in 1 .. Len(queue') : queue'[i] = queue[i + 1]
        /\ queue' \in Seq(Command)
    BY <1>0, <2>1, HeadTailProperties, EmptySeq
  <2>3. staging = None
    BY <1>0, <2>1 DEF ReadIsLast
  <2>4. CASE c.op = "read"
    <3>1. pc \in Waiting /\ Len(queue) = 1 /\ c = call
      BY <1>0, <2>2, <2>4 DEF ReadIsLast
    <3>2. queue' = <<>>
      BY <2>2, <3>1, LenProperties
    <3>3. mem' = mem
      BY <2>1, <2>4 DEF Applied
    <3>4. mem \in Memory /\ call.src \in Buffer
      BY <1>0, <2>2, <2>4, <3>1
         DEF WebGPUTypeOK, Memory, Command, Submitted, Void
    <3>5. mem' = meant'
      <4>1. QueueLeadsToMeant'
        BY LeadsStep
      <4> QED BY <3>2, <3>3, <3>4, <4>1, LeadsEmpty DEF QueueLeadsToMeant
    <3>6. staging' = meant'[call'.src] /\ staging' # None
      <4>1. staging' = mem[call.src] /\ call' = call
        BY <2>1, <2>4, <3>1
      <4>2. mem[call.src] \in Val
        BY ONLY <3>4 DEF Memory
      <4> QED BY ONLY <3>3, <3>5, <4>1, <4>2, WebGPUAssumption
    <3>7. ReadIsLast'
      <4>1. pc' \in Waiting /\ call'.op = "read"
        BY <2>1, <2>4, <3>1
      <4>2. 1 .. Len(queue') = {}
        BY ONLY <3>2
      <4> QED BY ONLY <3>2, <3>6, <4>1, <4>2 DEF ReadIsLast
    <3>8. pc' \notin {"add", "clear", "submit"}
      BY <2>1, <3>1 DEF Waiting
    <3>9. Mapped'
      BY <1>0, <2>1, <3>6 DEF Mapped
    <3> QED BY <3>6, <3>7, <3>8, <3>9 DEF QuietWait
  <2>5. CASE c.op # "read"
    <3>1. staging' = None
      BY <2>1, <2>3, <2>5
    <3>2. ReadIsLast'
      <4>1. ASSUME NEW i \in 1 .. Len(queue'), queue'[i].op = "read"
            PROVE  pc' \in Waiting /\ i = Len(queue') /\ queue'[i] = call'
        <5>1. i + 1 \in 1 .. Len(queue) /\ queue'[i] = queue[i + 1]
          BY <2>2
        <5>2. /\ pc \in Waiting
              /\ i + 1 = Len(queue)
              /\ queue[i + 1] = call
          BY <1>0, <4>1, <5>1 DEF ReadIsLast
        <5>3. i = Len(queue')
          BY <2>2, <5>2
        <5> QED BY <2>1, <5>1, <5>2, <5>3
      <4>2. pc' \in Waiting => call'.op = "read"
        BY <1>0, <2>1 DEF ReadIsLast
      <4> QED BY <3>1, <4>1, <4>2 DEF ReadIsLast
    <3>3. ASSUME quiet', build' = "dawn"
          PROVE  pc' \notin {"add", "clear", "submit", "map"} \cup Polling
      <4>1. pc \notin {"add", "clear", "submit", "map"}
        BY <1>0, <2>1, <2>3, <3>3 DEF QuietWait
      <4>2. pc \notin Polling
        <5> SUFFICES ASSUME pc \in Polling PROVE FALSE
          OBVIOUS
        <5>1. queue = <<call>>
          BY <1>0, <2>1, <2>3, <3>3 DEF QuietWait
        <5>2. call.op = "read"
          BY <1>0 DEF ReadIsLast, Waiting, Polling
        <5> QED BY <2>5, <5>1, <5>2
      <4> QED BY <2>1, <4>1, <4>2
    <3>4. Mapped'
      BY <1>0, <2>1, <2>3, <3>1 DEF Mapped
    <3> QED BY <3>2, <3>3, <3>4 DEF QuietWait, Polling
  <2> QED BY <2>4, <2>5
<1>6. CASE DeviceGet
  BY <1>0, <1>6
     DEF DeviceGet, WebGPUTypeOK, ReadIsLast, QuietWait, Mapped, Waiting,
         Polling
<1>11. CASE RequestMap
  <2>1. /\ pc = "request" /\ pc' \in {"poll", "await"} /\ mapping' = "pending"
        /\ build' = build /\ call' = call /\ queue' = queue
        /\ staging' = staging /\ due' = due /\ cb' = cb
        /\ is_ready' = is_ready /\ meant' = meant /\ quiet' = quiet
    BY <1>11 DEF RequestMap
  <2>2. ReadIsLast'
    BY <1>0, <2>1, ReadKept DEF Waiting
  <2> QED BY <1>0, <2>1, <2>2 DEF QuietWait, Mapped, Polling
<1>12. CASE MapDone
  <2>1. /\ pc' = pc /\ staging # None
        /\ build' = build /\ call' = call /\ queue' = queue
        /\ staging' = staging /\ due' = due /\ cb' = cb
        /\ is_ready' = is_ready /\ meant' = meant /\ quiet' = quiet
    BY <1>12 DEF MapDone
  <2>2. ReadIsLast'
    BY <1>0, <2>1, ReadKept
  <2>3. mapping' = "done"
    BY <1>12 DEF MapDone
  <2> QED BY <1>0, <2>1, <2>2, <2>3 DEF QuietWait, Mapped
<1>7. CASE AddLock \/ AddClear
  <2>1. ReadIsLast'
    BY <1>0, <1>7 DEF AddLock, AddClear, ReadIsLast, Waiting
  <2> QED BY <1>0, <1>7, <2>1
          DEF AddLock, AddClear, QuietWait, Mapped, Polling
<1>8. CASE PollLock \/ PollReady \/ PollNotReady \/ CondWait
             \/ SpuriousWake \/ Await
  <2> USE DEF PollLock, PollReady, PollNotReady, CondWait, SpuriousWake, Await
  <2>1. /\ build' = build /\ call' = call /\ queue' = queue
        /\ staging' = staging /\ due' = due /\ cb' = cb
        /\ is_ready' = is_ready /\ meant' = meant /\ quiet' = quiet
        /\ mapping' = mapping
    BY <1>8
  <2>2. pc \in Waiting /\ pc' \in Waiting
    BY <1>8 DEF Waiting
  <2>3. pc' \in Polling => pc \in Polling
    BY <1>8 DEF Polling
  <2>4. pc' = "map" =>
          \/ pc = "check" /\ build = "dawn" /\ is_ready
          \/ pc = "await" /\ mapping = "done"
    <3>1. CASE PollReady
      BY ONLY <1>0, <3>1 DEF PollReady, WebGPUTypeOK
    <3>2. CASE Await
      BY ONLY <3>2 DEF Await
    <3>3. CASE PollLock \/ PollNotReady \/ CondWait \/ SpuriousWake
      BY <3>3
    <3> QED BY <1>8, <3>1, <3>2, <3>3
  <2> HIDE DEF PollLock, PollReady, PollNotReady, CondWait, SpuriousWake, Await
  <2>5. ReadIsLast'
    BY <1>0, <2>1, <2>2, ReadKept
  <2>6. Mapped'
    BY <1>0, <2>1, <2>4 DEF Mapped
  <2>7. QuietWait'
    <3> SUFFICES ASSUME quiet, build = "dawn"
                 PROVE  QuietWait'
      BY <2>1 DEF QuietWait
    <3>1. pc' \notin {"add", "clear", "submit"}
      BY <2>2 DEF Waiting
    <3>2. pc' \in Polling /\ staging' = None
            => queue' = <<call'>> /\ due' = 0 /\ cb' = "idle" /\ ~ is_ready'
      BY <1>0, <2>1, <2>3 DEF QuietWait
    <3>3. pc' = "map" => staging' # None
      BY <1>0, <2>1, <2>4 DEF QuietWait, Mapped, Polling
    <3> QED BY <3>1, <3>2, <3>3 DEF QuietWait
  <2> QED BY <2>5, <2>6, <2>7
<1>9. CASE Callback
  <2>1. /\ build' = build /\ call' = call /\ queue' = queue
        /\ staging' = staging /\ mapping' = mapping /\ meant' = meant
        /\ quiet' = quiet
    BY <1>9, CallbackFrame
  <2>a. pc' = pc \/ (pc = "asleep" /\ pc' = "woken")
    BY <1>9, CallbackFrame
  <2>2. ReadIsLast'
    <3>1. pc' \in Waiting <=> pc \in Waiting
      BY <2>a DEF Waiting
    <3> QED BY <1>0, <2>1, <3>1, ReadKept
  <2>3. Mapped'
    BY <1>0, <2>1, <2>a DEF Mapped
  <2>4. cb # "idle" \/ due > 0
    BY <1>9
       DEF Callback, CallbackLock, CallbackSet, CallbackSignal, CallbackUnlock
  <2>5. QuietWait'
    BY <1>0, <2>1, <2>a, <2>4 DEF QuietWait, Polling, WebGPUTypeOK
  <2> QED BY <2>2, <2>3, <2>5
<1>10. CASE UNCHANGED vars
  BY <1>0, <1>10 DEF vars, ReadIsLast, QuietWait, Mapped
<1> QED
  <2>1. DeviceGet \/ HostStep \/ SpuriousWake \/ Execute \/ MapDone \/ Callback => Rest'
    BY <1>3, <1>4, <1>5, <1>6, <1>7, <1>8, <1>9, <1>11, <1>12 DEF HostStep
  <2>2. CASE Next
    BY ONLY <2>2, <2>1, <1>1, <1>2, NextCases
  <2> QED BY <2>2, <1>10

(* What a copy to the host gives, whatever was queued before it: what the  *)
(* calls meant, or, where the native build does not wait for the mapping,  *)
(* no range; in the native build the staging buffer has the right contents *)
(* by then if nothing was outstanding when the copy began.                 *)
THEOREM CopiesReadProgramOrder == Spec => HostReadsProgramOrder
<1> DEFINE Read == /\ host' \in {meant[call.src], None}
                   /\ build = "js" => host' = meant[call.src]
                   /\ quiet => staging = meant[call.src]
<1>1. Init => CopyInv
  BY InitCopy
<1>2. CopyInv /\ [Next]_vars => CopyInv'
  BY CopyStep
<1>3. CopyInv /\ [Next]_vars => [pc = "map" /\ pc' = "idle" => Read]_vars
  <2> SUFFICES ASSUME CopyInv, Next, pc = "map", pc' = "idle"
               PROVE  Read
    BY DEF vars
  <2>1. WebGPUTypeOK /\ ReadIsLast /\ QuietWait /\ Mapped
    BY DEF CopyInv, SyncInv
  <2>2. build \in {"dawn", "js"}
    BY <2>1, WebGPUAssumption DEF WebGPUTypeOK
  <2>3. /\ mapping = "done" => staging = meant[call.src]
        /\ build = "js" => mapping = "done"
        /\ quiet => staging = meant[call.src]
    BY <2>1, <2>2 DEF ReadIsLast, QuietWait, Mapped
  <2>4. ReadBack
    BY DEF Next, MemoryCopyHtoD, Begin, Idle, DeviceGet, HostStep, AddLock,
           AddClear, Submit, RequestMap, PollLock, PollReady, PollNotReady,
           CondWait, SpuriousWake, Await, Execute, MapDone, Callback,
           CallbackLock, CallbackSet, CallbackSignal, CallbackUnlock
  <2>5. host' = IF mapping = "done" THEN staging ELSE None
    BY <2>4 DEF ReadBack
  <2> QED BY <2>3, <2>5
<1> QED BY <1>1, <1>2, <1>3, PTL DEF Spec, HostReadsProgramOrder

(* If the one request is answered once, a copy to the host of the native   *)
(* build that clears the flag after that answer never returns: no step of  *)
(* the host, the device or Dawn gets it out of the poll.                   *)
THEOREM OneAnswerStrands == Spec => [][Stranded => Stranded']_vars
<1>1. Init => SyncInv
  BY InitSync
<1>2. SyncInv /\ [Next]_vars => SyncInv'
  BY SyncStep
<1>3. SyncInv /\ [Next]_vars => [Stranded => Stranded']_vars
  <2> SUFFICES ASSUME WebGPUTypeOK, Next, Stranded
               PROVE  Stranded'
    BY DEF SyncInv, vars
  <2> USE DEF Stranded, env, gpuVars, syncVars
  <2>1. \A b \in Buffer, v \in Val : ~ MemoryCopyHtoD(b, v)
    BY DEF MemoryCopyHtoD, Idle
  <2>2. \A c \in Submitted : ~ Begin(c)
    BY DEF Begin, Idle
  <2>3. CASE DeviceGet \/ SpuriousWake \/ Execute \/ MapDone
    BY <2>3 DEF DeviceGet, SpuriousWake, Execute, MapDone, WebGPUTypeOK
  <2>4. CASE HostStep
    BY <2>4 DEF HostStep, AddLock, AddClear, Submit, RequestMap, PollLock,
                PollReady, PollNotReady, CondWait, Await, ReadBack
  <2>5. ~ Callback
    BY DEF Callback, CallbackLock, CallbackSet, CallbackSignal, CallbackUnlock
  <2> QED
    BY ONLY <2>1, <2>2, <2>3, <2>4, <2>5, Next, NextCases
<1> QED BY <1>1, <1>2, <1>3, PTL DEF Spec
=============================================================================
