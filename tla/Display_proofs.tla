--------------------------- MODULE Display_proofs ---------------------------
(***************************************************************************)
(* The display for every set of threads, priorities and updates.           *)
(***************************************************************************)
EXTENDS Display, Integers, TLAPS

\* Whoever is inside LVGL owns its mutex.
Inside == {"set", "unlock"}
OwnerInv ==
    /\ DOMAIN pc = Threads
    /\ \A t \in Threads : pc[t] \in Inside => lvgl_mutex = t
    /\ {"connection", "bt", "ot", "name", "address"} \subseteq DOMAIN buffer
    /\ DOMAIN shown = Lines

\* The mutex is free at the start.
LEMMA OwnerInit == Init => OwnerInv
    BY DEF Init, OwnerInv, Inside, Lines

\* The mutex is taken only when free, and passed on only by its owner.
LEMMA OwnerNext == OwnerInv /\ [Next]_vars => OwnerInv'
<1> SUFFICES ASSUME OwnerInv, [Next]_vars PROVE OwnerInv'
    OBVIOUS
<1> USE DEF Inside
<1>1. ASSUME NEW t \in Threads, NEW c, Call(t, c)
      PROVE  OwnerInv'
    BY <1>1 DEF OwnerInv, Call, FirstLabel, Goto, locks
<1>2. CASE BootCall \/ \E t \in Callers \ {"main"} : ThreadCall(t)
    BY <1>1, <1>2, DisplayAssumption DEF BootCall, ThreadCall, Threads
<1>3. ASSUME NEW t \in Threads, Step(t)
      PROVE  OwnerInv'
  <2>1. CASE TakeOpenThread(t)
      BY <2>1 DEF OwnerInv, TakeOpenThread, Goto, FirstLabel
  <2>2. CASE Store(t) \/ PrintLine(t) \/ PrintRest(t)
      BY <2>2 DEF OwnerInv, Store, PrintLine, PrintRest, Goto, locks
  <2>3. CASE Lock(t)
    <3>1. "none" \notin Threads
        BY DisplayAssumption DEF Threads
    <3> QED
        BY <2>3, <3>1 DEF OwnerInv, Lock, Goto
  <2>4. CASE SetText(t)
      BY <2>4 DEF OwnerInv, SetText, Goto, At, locks
  <2>5. CASE Unlock(t)
    <3>1. lvgl_mutex = t /\ pc[t] = "unlock"
        BY <2>5 DEF OwnerInv, Unlock, At
    <3>2. \A u \in Threads \ {t} : pc[u] \notin {"set", "unlock"}
        BY <3>1 DEF OwnerInv
    <3> QED
        BY <2>5, <3>2 DEF OwnerInv, Unlock, Goto
  <2> QED
      BY <1>3, <2>1, <2>2, <2>3, <2>4, <2>5 DEF Step
<1>4. CASE Wake \/ Draw \/ Timeout
    BY <1>4 DEF OwnerInv, Wake, Draw, Timeout, Goto, At, locks, Threads
<1>5. CASE UNCHANGED vars
    BY <1>5 DEF OwnerInv, vars, locks
<1> QED
    BY <1>2, <1>3, <1>4, <1>5 DEF Next

\* LVGL is never entered by two threads (1306_display.c:94-130).
THEOREM LvglIsExclusive == Spec => []LvglExclusive
<1>1. OwnerInv => LvglExclusive
    BY DEF OwnerInv, Inside, LvglExclusive
<1> QED
    BY <1>1, OwnerInit, OwnerNext, PTL DEF Spec

\* The address that is shown is the one its update was called with
\* (1306_display.c:230-247).
THEOREM AddressIsOwn == Spec => OwnAddressShown
<1>1. OwnerInv /\ [Next]_vars =>
        (shown'["address"] # shown["address"] => shown'["address"] = call[lvgl_mutex].arg)
  <2> SUFFICES ASSUME OwnerInv, [Next]_vars, shown'["address"] # shown["address"]
               PROVE  shown'["address"] = call[lvgl_mutex].arg
      OBVIOUS
  <2>1. PICK t \in Threads : SetText(t)
      BY DEF Next, Step, BootCall, ThreadCall, Call, TakeOpenThread, Store, PrintLine, PrintRest,
             Lock, Unlock, Wake, Draw, Timeout, vars
  <2>2. Line(call[t].update) = "address" /\ call[t].update = "address"
      BY <2>1 DEF SetText, Line, StatusUpdates, OwnerInv, Lines
  <2>3. shown'["address"] = buffer'["address"] /\ buffer'["address"] = call[t].arg
      BY <2>1, <2>2 DEF SetText, OwnerInv, Lines
  <2>4. lvgl_mutex = t
      BY <2>1 DEF SetText, At, OwnerInv, Inside
  <2> QED
      BY <2>3, <2>4
<1> QED
    BY <1>1, OwnerInit, OwnerNext, PTL DEF Spec, OwnAddressShown

-----------------------------------------------------------------------------
(* Nobody waits for ever for somebody who waits.                           *)

\* Both mutexes are where they are released: that of LVGL with a thread inside,
\* OpenThread's with a thread past its lock.  Who waits, waits for an owner.  Of
\* the cooperative threads one has the CPU at most.
MutexInv ==
    /\ lvgl_mutex \in Threads \cup {"none"}
    /\ lvgl_mutex # "none" => pc[lvgl_mutex] \in Inside
    /\ \A t \in Threads : pc[t] = "waiting" => lvgl_mutex # "none"
    /\ ot_mutex \in Callers \cup {"none"}
    /\ ot_mutex # "none" => pc[ot_mutex] \notin {"idle", "otWait"}
    /\ pc["anim"] \in {"idle", "lock", "waiting", "set", "unlock"}
CpuInv ==
    \A t, u \in Threads \ Preemptive : pc[t] \notin Blocked /\ pc[u] \notin Blocked => t = u
ReadyInv == OwnerInv /\ MutexInv /\ CpuInv

\* Neither mutex has the name of a thread for its owner when it has none.
LEMMA NoneIsNoThread == "none" \notin Threads /\ "anim" \in Threads /\ Callers \subseteq Threads
                        /\ "anim" \notin Callers
    BY DisplayAssumption DEF Threads

\* At the start nobody owns a mutex or has the CPU.
LEMMA ReadyInit == Init => ReadyInv
    BY OwnerInit, NoneIsNoThread DEF Init, ReadyInv, MutexInv, CpuInv, Blocked

\* Whoever takes a step finds every cooperative thread but itself blocked, and
\* unblocks nobody but the one it hands its mutex to.
LEMMA CpuKept ==
    ASSUME OwnerInv, CpuInv, NEW t \in Threads, CanRun(t), NEW u \in Threads,
           u = t \/ pc'[t] \in Blocked,
           \A v \in Threads \ {t, u} : pc'[v] = pc[v]
    PROVE  CpuInv'
  BY DEF CpuInv, CanRun

\* Every step leaves the mutexes with somebody who can release them.
LEMMA ReadyNext == ReadyInv /\ [Next]_vars => ReadyInv'
<1> SUFFICES ASSUME ReadyInv, [Next]_vars PROVE ReadyInv'
    OBVIOUS
<1> USE NoneIsNoThread
<1>1. OwnerInv /\ OwnerInv' /\ DOMAIN pc = Threads
    BY OwnerNext DEF ReadyInv, OwnerInv
<1>2. ASSUME NEW t \in Callers, NEW c, Call(t, c)
      PROVE  ReadyInv'
  <2>1. CASE ~display_initialized
      BY <1>1, <1>2, <2>1 DEF Call, ReadyInv, MutexInv, CpuInv, locks
  <2>2. CASE display_initialized
    <3>1. /\ pc[t] = "idle" /\ CanRun(t) /\ UNCHANGED <<lvgl_mutex, ot_mutex>>
          /\ pc'[t] \in {"otWait", "store", "lock", "print"}
          /\ \A v \in Threads \ {t} : pc'[v] = pc[v]
        BY <1>1, <1>2, <2>2 DEF Call, At, Goto, FirstLabel, locks
    <3>2. CpuInv'
        BY <1>1, <3>1, CpuKept DEF ReadyInv
    <3>3. MutexInv'
        BY <1>1, <3>1 DEF ReadyInv, MutexInv, OwnerInv, Inside
    <3> QED
        BY <1>1, <3>2, <3>3 DEF ReadyInv
  <2> QED
      BY <2>1, <2>2
<1>3. CASE BootCall \/ \E t \in Callers \ {"main"} : ThreadCall(t)
    BY <1>2, <1>3, DisplayAssumption DEF BootCall, ThreadCall
<1>4. ASSUME NEW t \in Threads, CanRun(t), pc[t] \notin {"idle", "waiting"},
             pc'[t] \notin {"idle", "waiting", "otWait"},
             \A v \in Threads \ {t} : pc'[v] = pc[v],
             pc[t] \in Inside => pc'[t] \in Inside,
             lvgl_mutex' = lvgl_mutex,
             t = "anim" => pc'[t] \in {"lock", "set", "unlock"},
             ot_mutex' \in {ot_mutex} \cup (Callers \cap {t})
      PROVE  ReadyInv'
  <2>1. CpuInv'
      BY <1>1, <1>4, CpuKept DEF ReadyInv
  <2>2. MutexInv'
      BY <1>1, <1>4 DEF ReadyInv, MutexInv
  <2> QED
      BY <1>1, <2>1, <2>2 DEF ReadyInv
<1>5. ASSUME NEW t \in Threads, Step(t)
      PROVE  ReadyInv'
  <2>1. CASE TakeOpenThread(t)
    <3>1. t # "anim"
        BY <2>1 DEF TakeOpenThread, At, ReadyInv, MutexInv
    <3> QED
        BY <1>1, <1>4, <2>1, <3>1 DEF TakeOpenThread, At, Goto, FirstLabel, Inside, Threads
  <2>2. CASE Store(t) \/ PrintLine(t) \/ PrintRest(t)
      BY <1>1, <1>4, <2>2 DEF Store, PrintLine, PrintRest, At, Goto, Inside, locks, ReadyInv, MutexInv
  <2>3. CASE SetText(t)
      BY <1>1, <1>4, <2>3 DEF SetText, At, Goto, Inside, locks
  <2>4. CASE Lock(t)
    <3>1. /\ pc[t] = "lock" /\ CanRun(t) /\ ot_mutex' = ot_mutex
          /\ \A v \in Threads \ {t} : pc'[v] = pc[v]
          /\ \/ lvgl_mutex = "none" /\ lvgl_mutex' = t /\ pc'[t] = "set"
             \/ lvgl_mutex # "none" /\ lvgl_mutex' = lvgl_mutex /\ pc'[t] = "waiting"
        BY <1>1, <2>4 DEF Lock, At, Goto
    <3>2. CpuInv'
        BY <1>1, <3>1, CpuKept DEF ReadyInv
    <3>3. MutexInv'
        BY <1>1, <3>1 DEF ReadyInv, MutexInv, Inside
    <3> QED
        BY <1>1, <3>2, <3>3 DEF ReadyInv
  <2>5. CASE Unlock(t)
    <3>1. /\ pc[t] = "unlock" /\ CanRun(t) /\ lvgl_mutex = t
          /\ ot_mutex' = IF ot_mutex = t THEN "none" ELSE ot_mutex
        BY <1>1, <2>5 DEF Unlock, At, OwnerInv, Inside
    <3>2. CASE Successors = {} /\ lvgl_mutex' = "none" /\ Goto(t, "idle")
      <4>1. /\ pc'[t] = "idle" /\ \A v \in Threads \ {t} : pc'[v] = pc[v]
            /\ \A v \in Threads : pc[v] # "waiting"
          BY <1>1, <3>2 DEF Goto, Successors, Waiting, Threads
      <4>2. CpuInv'
          BY <1>1, <3>1, <4>1, CpuKept DEF ReadyInv
      <4>3. MutexInv'
          BY <1>1, <3>1, <3>2, <4>1 DEF ReadyInv, MutexInv
      <4> QED
          BY <1>1, <4>2, <4>3 DEF ReadyInv
    <3>3. ASSUME NEW u \in Successors, lvgl_mutex' = u,
                 pc' = [pc EXCEPT ![t] = "idle", ![u] = "set"]
          PROVE  ReadyInv'
      <4>1. /\ u \in Threads /\ u # t /\ pc[u] = "waiting"
            /\ pc'[t] = "idle" /\ pc'[u] = "set"
            /\ \A v \in Threads \ {t, u} : pc'[v] = pc[v]
          BY <1>1, <3>1, <3>3 DEF Successors, Waiting, Threads
      <4>2. CpuInv'
          BY <1>1, <3>1, <4>1, CpuKept DEF ReadyInv, Blocked
      <4>3. MutexInv'
          BY <1>1, <3>1, <3>3, <4>1 DEF ReadyInv, MutexInv, Inside
      <4> QED
          BY <1>1, <4>2, <4>3 DEF ReadyInv
    <3> QED
        BY <2>5, <3>2, <3>3 DEF Unlock
  <2> QED
      BY <1>5, <2>1, <2>2, <2>3, <2>4, <2>5 DEF Step
<1>6. CASE Wake \/ Draw \/ Timeout
  <2>1. /\ CanRun("anim") /\ UNCHANGED <<lvgl_mutex, ot_mutex>>
        /\ \A v \in Threads \ {"anim"} : pc'[v] = pc[v]
        /\ \/ pc["anim"] = "idle" /\ pc'["anim"] = "lock"
           \/ pc["anim"] = "set" /\ pc'["anim"] = "unlock"
           \/ pc["anim"] = "waiting" /\ pc'["anim"] = "idle"
      BY <1>1, <1>6 DEF Wake, Draw, Timeout, At, Goto, locks
  <2>2. CpuInv'
      BY <1>1, <2>1, CpuKept DEF ReadyInv
  <2>3. MutexInv'
      BY <1>1, <2>1 DEF ReadyInv, MutexInv, Inside
  <2> QED
      BY <1>1, <2>2, <2>3 DEF ReadyInv
<1>7. CASE UNCHANGED vars
    BY <1>1, <1>7 DEF ReadyInv, MutexInv, CpuInv, vars, locks
<1> QED
    BY <1>3, <1>5, <1>6, <1>7 DEF Next

\* No deadlock of the display's mutex, OpenThread's mutex and the CPU, for every
\* set of threads, priorities and updates (main.c:684-693, 1306_display.c:121-126).
THEOREM SomebodyIsReady == Spec => []SomebodyRuns
<1>1. ReadyInv => SomebodyRuns
  <2> SUFFICES ASSUME ReadyInv, NEW w \in Threads, pc[w] # "idle"
               PROVE  \E t \in Threads : /\ CanRun(t)
                                         /\ \/ pc[t] \notin Blocked
                                            \/ pc[t] = "otWait" /\ ot_mutex = "none"
      BY DEF SomebodyRuns
  <2>1. ASSUME NEW t \in Threads, pc[t] \notin Blocked
        PROVE  \E u \in Threads : CanRun(u) /\ pc[u] \notin Blocked
    <3>1. CASE \E u \in Threads \ Preemptive : pc[u] \notin Blocked
        BY <3>1 DEF ReadyInv, CpuInv, CanRun
    <3>2. CASE \A u \in Threads \ Preemptive : pc[u] \in Blocked
        BY <2>1, <3>2 DEF CanRun
    <3> QED
        BY <3>1, <3>2
  <2>2. CASE \E t \in Threads : pc[t] \notin Blocked
      BY <2>1, <2>2
  <2>3. CASE \A t \in Threads : pc[t] \in Blocked
    <3>1. \A t \in Threads : CanRun(t)
        BY <2>3 DEF CanRun
    <3>2. lvgl_mutex = "none" /\ pc[w] = "otWait"
        BY <2>3 DEF ReadyInv, MutexInv, Inside, Blocked
    <3>3. ot_mutex = "none"
        BY <2>3, <3>2, NoneIsNoThread DEF ReadyInv, MutexInv, Blocked
    <3> QED
        BY <3>1, <3>2, <3>3
  <2> QED
      BY <2>2, <2>3
<1> QED
    BY <1>1, ReadyInit, ReadyNext, PTL DEF Spec

-----------------------------------------------------------------------------
(* The status line, when nobody else is at it.                             *)

\* What the callers of src/ pass on a boot whose settings load: the whole line is set
\* once (main.c:626).
Updates == StatusUpdates \cup {"motion", "name", "address"}
Made == {BootCalls[i] : i \in 1 .. 7} \cup UNION {Calls[t] : t \in Callers \ {"main"}}
KnownCalls ==
    {c \in Made : c.update \in Updates /\ (c.update = "connection" => c.arg = "Initializing...")}
KnownCallers == \A t \in Callers \ {"main"} : Calls[t] \subseteq KnownCalls

\* The text on the line, or on its way there, is that of the two states of now.
Fresh(text) ==
    text.bt # "Initializing..." => text = Text(bt_conn_status, ot_conn_status)
Prepared(t) ==
    /\ pc[t] = "printRest" => buffer[call[t].update].bt = bt_conn_status
    /\ pc[t] \in {"lock", "waiting", "set"} => Fresh(buffer[call[t].update])
    /\ pc[t] = "unlock" => Fresh(shown["status"])

CallsInv ==
    /\ DOMAIN call = Threads /\ script \in Seq(KnownCalls)
    /\ pc["anim"] \in {"idle", "lock", "waiting", "set", "unlock"}
    /\ \A t \in Callers : pc[t] # "idle" => call[t] \in KnownCalls
    /\ \A t \in Callers : pc[t] \in {"store", "printRest"} => call[t].update \in {"bt", "ot"}

LineInv ==
    ~overlapped =>
        /\ \A t, u \in Callers : AtStatus(t) /\ AtStatus(u) => t = u
        /\ \A t \in Callers : AtStatus(t) => Prepared(t)
        /\ (\A t \in Callers : ~AtStatus(t)) => Fresh(shown["status"])

StatusInv == OwnerInv /\ CallsInv /\ LineInv

\* main's boot sequence is made of known updates.
LEMMA BootIsKnown == BootCalls \in Seq(KnownCalls)
<1>1. ASSUME NEW i \in 1 .. 7
      PROVE  BootCalls[i] \in KnownCalls
  <2>1. BootCalls[i] \in Made
      BY DEF Made
  <2>2. /\ BootCalls[i].update \in Updates
        /\ BootCalls[i].update = "connection" => BootCalls[i].arg = "Initializing..."
      BY DEF BootCalls, Updates, StatusUpdates
  <2> QED
      BY <2>1, <2>2 DEF KnownCalls
<1>2. BootCalls = <<BootCalls[1], BootCalls[2], BootCalls[3], BootCalls[4], BootCalls[5],
                    BootCalls[6], BootCalls[7]>>
    BY DEF BootCalls
<1> HIDE DEF BootCalls
<1>3. <<BootCalls[1], BootCalls[2], BootCalls[3], BootCalls[4], BootCalls[5],
        BootCalls[6], BootCalls[7]>> \in Seq(KnownCalls)
    BY <1>1
<1> QED
    BY <1>2, <1>3, Zenon

\* The two parts of a line.
LEMMA TextParts == \A one, two : Text(one, two).bt = one /\ Text(one, two).ot = two
    BY DEF Text

\* Nothing is shown at the start, and nothing is stored.
LEMMA StatusInit == Init => StatusInv
<1> SUFFICES ASSUME Init PROVE StatusInv
    OBVIOUS
<1>1. CallsInv
    BY BootIsKnown, DisplayAssumption DEF Init, CallsInv, Threads
<1>2. LineInv
  <2>1. \A t \in Callers : ~AtStatus(t)
      BY DEF Init, AtStatus, Threads
  <2>2. Fresh(shown["status"])
      BY DEF Init, Fresh, Lines
  <2> QED
      BY <2>1, <2>2 DEF LineInv
<1> QED
    BY <1>1, <1>2, OwnerInit DEF StatusInv

\* A new update: of a known kind, and either alone at the line or noted.
LEMMA CallKeepsLine ==
    ASSUME StatusInv, NEW t \in Callers, NEW c \in KnownCalls, Call(t, c),
           script' \in Seq(KnownCalls)
    PROVE  CallsInv' /\ LineInv'
<1>1. CASE ~display_initialized
    BY <1>1 DEF StatusInv, Call, CallsInv, LineInv, AtStatus, Prepared, Fresh, locks, status
<1>2. CASE display_initialized
  <2>1. /\ pc[t] = "idle" /\ call' = [call EXCEPT ![t] = c]
        /\ pc' = [pc EXCEPT ![t] = IF c.ot THEN "otWait" ELSE FirstLabel(c.update)]
        /\ overlapped' = IF Line(c.update) = "status" THEN \E u \in Callers : AtStatus(u)
                         ELSE overlapped
        /\ UNCHANGED <<bt_conn_status, ot_conn_status, buffer, shown>>
      BY <1>2 DEF Call, At, Goto, status
  <2>2. /\ t \in Threads /\ t # "anim" /\ "anim" \in Threads
        /\ DOMAIN pc = Threads /\ DOMAIN call = Threads
      BY DisplayAssumption DEF Threads, StatusInv, OwnerInv, CallsInv
  <2>3. /\ call'[t] = c /\ ~AtStatus(t)
        /\ pc'[t] \in {"otWait", "store", "print", "lock"}
        /\ pc'[t] = "store" => c.update \in {"bt", "ot"}
        /\ pc'[t] = "lock" => c.update = "address"
      BY <2>1, <2>2 DEF FirstLabel, AtStatus
  <2>4. \A u \in Threads \ {t} : pc'[u] = pc[u] /\ call'[u] = call[u]
      BY <2>1, <2>2
  <2>5. CallsInv'
      BY <2>1, <2>2, <2>3, <2>4 DEF StatusInv, CallsInv, Threads
  <2>6. \A u \in Callers \ {t} : /\ AtStatus(u)' <=> AtStatus(u)
                                 /\ Prepared(u)' <=> Prepared(u)
      BY <2>1, <2>4 DEF AtStatus, Prepared, Fresh, Threads
  <2>7. AtStatus(t)' => Line(c.update) = "status" /\ Prepared(t)'
      BY <2>3 DEF AtStatus, Prepared, Line, StatusUpdates
  <2>8. Fresh(shown["status"])' <=> Fresh(shown["status"])
      BY <2>1 DEF Fresh
  <2>9. CASE Line(c.update) = "status"
    <3>1. ~overlapped' => \A u \in Callers : ~AtStatus(u)
        BY <2>1, <2>9
    <3>2. AtStatus(t)'
        BY <2>3, <2>9 DEF AtStatus
    <3> QED
        BY <2>5, <2>6, <2>7, <3>1, <3>2 DEF LineInv
  <2>10. CASE Line(c.update) # "status"
    <3>1. ~AtStatus(t)' /\ overlapped' = overlapped
        BY <2>1, <2>7, <2>10
    <3> QED
        BY <2>3, <2>5, <2>6, <2>8, <3>1 DEF StatusInv, LineInv
  <2> QED
      BY <2>5, <2>9, <2>10
<1> QED
    BY <1>1, <1>2

\* A step of a thread that stays in its update moves nobody else and, when it is
\* not at the status line, changes nothing of that line.
Moves(t) ==
    /\ pc[t] # "idle" /\ pc'[t] # "idle"
    /\ \A u \in Threads \ {t} : pc'[u] = pc[u]
    /\ UNCHANGED <<call, script, overlapped>>
Aside(t) ==
    /\ UNCHANGED <<bt_conn_status, ot_conn_status>>
    /\ shown'["status"] = shown["status"]
    /\ \A update \in StatusUpdates : buffer'[update] = buffer[update]

LEMMA MovesKeepLine ==
    ASSUME StatusInv, NEW t \in Callers, Moves(t), ~AtStatus(t) => Aside(t),
           AtStatus(t) /\ Prepared(t) => Prepared(t)'
    PROVE  LineInv'
<1>1. \A u \in Callers : AtStatus(u)' <=> AtStatus(u)
    BY DEF Moves, AtStatus, Threads
<1>2. CASE AtStatus(t)
    BY <1>1, <1>2 DEF StatusInv, LineInv, Moves
<1>3. CASE ~AtStatus(t)
  <2>1. ASSUME NEW u \in Callers, AtStatus(u), Prepared(u)
        PROVE  Prepared(u)'
    <3>1. u # t /\ u \in Threads
        BY <1>3, <2>1 DEF Threads
    <3>2. pc'[u] = pc[u] /\ call'[u] = call[u] /\ call[u].update \in StatusUpdates
      <4>1. call[u] \in KnownCalls
          BY <2>1 DEF StatusInv, CallsInv, AtStatus
      <4> QED
          BY <2>1, <3>1, <4>1 DEF Moves, AtStatus, Line, KnownCalls, Updates
    <3>3. Aside(t)
        BY <1>3
    <3> QED
        BY <2>1, <3>2, <3>3 DEF Aside, Prepared, Fresh
  <2>2. Fresh(shown["status"]) => Fresh(shown["status"])'
      BY <1>3 DEF Aside, Fresh
  <2> QED
      BY <1>1, <2>1, <2>2 DEF StatusInv, LineInv, Moves
<1> QED
    BY <1>2, <1>3

\* The steps up to the lock, and the one under it.
LEMMA UpdateKeepsLine ==
    ASSUME StatusInv, NEW t \in Callers,
           TakeOpenThread(t) \/ Store(t) \/ PrintLine(t) \/ PrintRest(t) \/ Lock(t) \/ SetText(t)
    PROVE  CallsInv' /\ LineInv'
<1>1. /\ t \in Threads /\ t # "anim" /\ DOMAIN pc = Threads /\ DOMAIN shown = Lines
      /\ {"connection", "bt", "ot", "name", "address"} \subseteq DOMAIN buffer
    BY DisplayAssumption DEF Threads, StatusInv, OwnerInv
<1>2. pc[t] # "idle" /\ call[t] \in KnownCalls
  <2>1. pc[t] # "idle"
      BY DEF TakeOpenThread, Store, PrintLine, PrintRest, Lock, SetText, At
  <2> QED
      BY <2>1 DEF StatusInv, CallsInv
<1>3. /\ Moves(t)
      /\ pc'[t] \in {"store", "print", "printRest", "lock", "waiting", "set", "unlock"}
      /\ pc'[t] \in {"store", "printRest"} => call[t].update \in {"bt", "ot"}
    BY <1>1, <1>2 DEF Moves, TakeOpenThread, Store, PrintLine, PrintRest, Lock, SetText, At, Goto,
                      FirstLabel, Blocked
<1>4. CallsInv'
    BY <1>1, <1>2, <1>3, DisplayAssumption DEF StatusInv, CallsInv, Moves, Threads
<1>5. ~AtStatus(t) => Aside(t)
  <2> SUFFICES ASSUME ~AtStatus(t) PROVE Aside(t)
      OBVIOUS
  <2>1. call[t].update \in {"motion", "name", "address"}
      BY <1>2 DEF AtStatus, Line, KnownCalls, Updates
  <2>2. CASE TakeOpenThread(t) \/ Lock(t)
      BY <2>2 DEF TakeOpenThread, Lock, Aside, status
  <2>3. CASE Store(t) \/ PrintRest(t)
      BY <2>1, <2>3 DEF Store, PrintRest, At, StatusInv, CallsInv
  <2>4. CASE PrintLine(t)
      BY <1>1, <2>1, <2>4 DEF PrintLine, Aside, status, StatusUpdates
  <2>5. CASE SetText(t)
    <3>1. Line(call[t].update) # "status"
        BY <2>1 DEF Line, StatusUpdates
    <3> QED
        BY <1>1, <2>1, <2>5, <3>1 DEF SetText, Aside, status, StatusUpdates
  <2> QED
      BY <2>2, <2>3, <2>4, <2>5
<1>6. AtStatus(t) /\ Prepared(t) => Prepared(t)'
  <2> SUFFICES ASSUME AtStatus(t), Prepared(t) PROVE Prepared(t)'
      OBVIOUS
  <2>1. /\ call[t].update \in StatusUpdates
        /\ call[t].update = "connection" => call[t].arg = "Initializing..."
      BY <1>2 DEF AtStatus, Line, KnownCalls, Updates
  <2>2. call'[t] = call[t]
      BY <1>3 DEF Moves
  <2>3. CASE TakeOpenThread(t)
    <3>1. pc'[t] \in {"store", "print"}
        BY <1>1, <2>1, <2>3 DEF TakeOpenThread, Goto, FirstLabel, StatusUpdates
    <3> QED
        BY <3>1 DEF Prepared
  <2>4. CASE Store(t)
    <3>1. pc'[t] = "print"
        BY <1>1, <2>4 DEF Store, Goto
    <3> QED
        BY <3>1 DEF Prepared
  <2>5. CASE PrintLine(t)
    <3>1. CASE call[t].update = "connection"
      <4>1. pc'[t] = "lock" /\ buffer'["connection"] = Text("Initializing...", "")
          BY <1>1, <2>1, <2>5, <3>1 DEF PrintLine, Goto
      <4>2. buffer'["connection"].bt = "Initializing..."
          BY <4>1, TextParts
      <4> QED
          BY <2>2, <3>1, <4>1, <4>2 DEF Prepared, Fresh
    <3>2. CASE call[t].update # "connection"
      <4>1. /\ pc'[t] = "printRest" /\ bt_conn_status' = bt_conn_status
            /\ buffer'[call[t].update] = Text(bt_conn_status, buffer[call[t].update].ot)
          BY <1>1, <2>1, <2>5, <3>2 DEF PrintLine, Goto, StatusUpdates, status
      <4> QED
          BY <2>2, <4>1 DEF Prepared, Text
    <3> QED
        BY <3>1, <3>2
  <2>6. CASE PrintRest(t)
    <3>1. /\ pc'[t] = "lock" /\ UNCHANGED <<bt_conn_status, ot_conn_status>>
          /\ buffer'[call[t].update] = Text(bt_conn_status, ot_conn_status)
        BY <1>1, <2>1, <2>6 DEF PrintRest, At, Goto, StatusUpdates, status, Prepared
    <3> QED
        BY <2>2, <3>1 DEF Prepared, Fresh
  <2>7. CASE Lock(t)
    <3>1. pc[t] = "lock" /\ pc'[t] \in {"set", "waiting"}
        BY <1>1, <2>7 DEF Lock, At, Goto
    <3> QED
        BY <2>2, <2>7, <3>1 DEF Lock, Prepared, Fresh, status
  <2>8. CASE SetText(t)
    <3>1. /\ pc[t] = "set" /\ pc'[t] = "unlock" /\ UNCHANGED <<bt_conn_status, ot_conn_status>>
          /\ buffer' = buffer /\ Line(call[t].update) = "status"
        BY <1>1, <2>1, <2>8 DEF SetText, At, Goto, Line, StatusUpdates, status
    <3>2. shown'["status"] = buffer[call[t].update]
        BY <1>1, <2>1, <2>8, <3>1 DEF SetText, StatusUpdates, Lines
    <3> QED
        BY <3>1, <3>2 DEF Prepared, Fresh
  <2> QED
      BY <2>3, <2>4, <2>5, <2>6, <2>7, <2>8
<1> QED
    BY <1>3, <1>4, <1>5, <1>6, MovesKeepLine

\* A thread that is done leaves the line as it set it; who gets the mutex has its
\* text printed as before.
LEMMA UnlockKeepsLine ==
    ASSUME StatusInv, NEW t \in Threads, Unlock(t)
    PROVE  CallsInv' /\ LineInv'
<1>1. /\ DOMAIN pc = Threads /\ DOMAIN call = Threads /\ pc[t] = "unlock"
      /\ "anim" \in Threads /\ "anim" \notin Callers
    BY DisplayAssumption DEF StatusInv, OwnerInv, CallsInv, Unlock, At, Threads
<1>2. /\ pc'[t] = "idle" /\ call' = [call EXCEPT ![t] = NoCall]
      /\ \A u \in Threads \ {t} : /\ call'[u] = call[u]
                                  /\ pc'[u] # pc[u] => pc[u] = "waiting" /\ pc'[u] = "set"
      /\ UNCHANGED <<script, bt_conn_status, ot_conn_status, buffer, shown, overlapped>>
    BY <1>1 DEF Unlock, Goto, Successors, Waiting, Threads, status
<1>3. CallsInv'
    BY <1>1, <1>2 DEF StatusInv, CallsInv, Threads
<1>4. ~AtStatus(t)'
    BY <1>2 DEF AtStatus
<1>5. \A u \in Callers \ {t} : /\ AtStatus(u)' <=> AtStatus(u)
                               /\ Prepared(u) => Prepared(u)'
    BY <1>2 DEF AtStatus, Prepared, Fresh, Threads
<1>6. Fresh(shown["status"])' <=> Fresh(shown["status"])
    BY <1>2 DEF Fresh
<1>7. t \in Callers /\ AtStatus(t) /\ Prepared(t) => Fresh(shown["status"])
    BY <1>1 DEF Prepared
<1> QED
    BY <1>2, <1>3, <1>4, <1>5, <1>6, <1>7 DEF StatusInv, LineInv

\* The thread that draws is at no line.
LEMMA AnimKeepsLine ==
    ASSUME StatusInv, Wake \/ Draw \/ Timeout \/ Lock("anim") \/ UNCHANGED vars
    PROVE  CallsInv' /\ LineInv'
<1>1. "anim" \in Threads /\ "anim" \notin Callers /\ DOMAIN pc = Threads
    BY DisplayAssumption DEF StatusInv, OwnerInv, Threads
<1>2. /\ pc'["anim"] \in {"idle", "lock", "waiting", "set", "unlock"}
      /\ \A u \in Callers : pc'[u] = pc[u]
      /\ UNCHANGED <<call, script, bt_conn_status, ot_conn_status, buffer, shown, overlapped>>
    BY <1>1 DEF StatusInv, CallsInv, Wake, Draw, Timeout, Lock, Goto, vars, status, Threads
<1> QED
    BY <1>2 DEF StatusInv, CallsInv, LineInv, AtStatus, Prepared, Fresh

\* Every step keeps the line.
LEMMA StatusNext == KnownCallers /\ StatusInv /\ [Next]_vars => StatusInv'
<1> SUFFICES ASSUME KnownCallers, StatusInv, [Next]_vars PROVE StatusInv'
    OBVIOUS
<1>1. OwnerInv'
    BY OwnerNext DEF StatusInv
<1>2. CASE BootCall
  <2>1. Head(script) \in KnownCalls /\ script' \in Seq(KnownCalls)
      BY <1>2 DEF BootCall, StatusInv, CallsInv
  <2> QED
      BY <1>1, <1>2, <2>1, CallKeepsLine, DisplayAssumption DEF BootCall, StatusInv
<1>3. ASSUME NEW t \in Callers \ {"main"}, ThreadCall(t)
      PROVE  StatusInv'
  <2>1. PICK c \in KnownCalls : Call(t, c)
      BY <1>3 DEF ThreadCall, KnownCallers
  <2> QED
      BY <1>1, <1>3, <2>1, CallKeepsLine DEF ThreadCall, StatusInv, CallsInv
<1>4. ASSUME NEW t \in Threads, Step(t)
      PROVE  StatusInv'
  <2>1. CASE Unlock(t)
      BY <1>1, <2>1, UnlockKeepsLine DEF StatusInv
  <2>2. CASE t \in Callers /\ ~Unlock(t)
      BY <1>1, <1>4, <2>2, UpdateKeepsLine DEF Step, StatusInv
  <2>3. CASE t = "anim" /\ ~Unlock(t)
    <3>1. Lock("anim")
        BY <1>4, <2>3 DEF Step, TakeOpenThread, Store, PrintLine, PrintRest, SetText, At,
                          StatusInv, CallsInv
    <3> QED
        BY <1>1, <3>1, AnimKeepsLine DEF StatusInv
  <2> QED
      BY <2>1, <2>2, <2>3 DEF Threads
<1>5. CASE Wake \/ Draw \/ Timeout \/ UNCHANGED vars
    BY <1>1, <1>5, AnimKeepsLine DEF StatusInv
<1> QED
    BY <1>2, <1>3, <1>4, <1>5 DEF Next

\* For callers that set the whole line only at boot: whatever threads, priorities
\* and updates of other lines, the status line shows both current states unless
\* two updates of it overlapped (1306_display.c:148-187).
THEOREM StatusIsCurrent == KnownCallers /\ Spec => []StatusCurrent
<1>1. StatusInv => StatusCurrent
    BY DEF StatusInv, LineInv, StatusCurrent, Fresh
<1>2. KnownCallers /\ Spec => []KnownCallers
    BY DEF KnownCallers
<1> QED
    BY <1>1, <1>2, StatusInit, StatusNext, PTL DEF Spec
=============================================================================
