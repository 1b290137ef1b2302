------------------------------ MODULE Display ------------------------------
(***************************************************************************)
(* The four lines of the SSD1306 (src/displays/1306_display.c): threads    *)
(* that update them, and the thread that draws, on one LVGL, which is not  *)
(* thread safe and has a mutex around it.                                  *)
(*                                                                         *)
(* "main" runs its boot sequence, "ot" the callbacks and CoAP handlers of  *)
(* OpenThread, "bt" the Bluetooth callbacks and GATT handlers, "wq" the    *)
(* work items; "anim" is animate_ip_scroll().  A cooperative thread gives  *)
(* up the CPU only where it blocks; main and anim are preemptible.         *)
(*                                                                         *)
(* External, as src/ uses it: the kernel's mutex, handed by its owner to a *)
(* waiting thread, to anim (of lowest priority) last; OpenThread's mutex,  *)
(* which "ot" holds while it runs, and main in one place; LVGL's labels,   *)
(* which copy the text they are given.                                     *)
(***************************************************************************)
EXTENDS Sequences

CONSTANTS
    Callers,    \* of main, ot, bt and wq, those that update the display
    Preemptive, \* threads of preemptible priority
    Calls       \* Calls[t]: the updates thread t makes, but for main's own

ASSUME DisplayAssumption ==
    /\ Callers \subseteq {"main", "ot", "bt", "wq"} /\ "main" \in Callers
    /\ Preemptive \subseteq Callers \cup {"anim"}
    /\ DOMAIN Calls = Callers \ {"main"}

VARIABLES
    display_initialized,
    pc,             \* where each thread is
    call,           \* the update each thread is in, with its argument
    lvgl_mutex,     \* its owner, or "none"
    ot_mutex,       \* its owner, or "none"
    script,         \* what is left of main's boot sequence
    bt_conn_status,
    ot_conn_status,
    buffer,         \* the static buffer of each update
    shown,          \* the texts LVGL's labels hold
    overlapped      \* history: two threads were at the status line at once

locks == <<lvgl_mutex, ot_mutex>>
status == <<bt_conn_status, ot_conn_status>>
vars == <<display_initialized, pc, call, locks, script, status, buffer, shown, overlapped>>

-----------------------------------------------------------------------------
Threads == Callers \cup {"anim"}
StatusUpdates == {"connection", "bt", "ot"}
Lines == {"status", "motion", "name", "address"}
Line(update) == IF update \in StatusUpdates THEN "status" ELSE update

Blocked == {"idle", "otWait", "waiting"}
CanRun(t) == \A u \in Threads \ {t} : u \in Preemptive \/ pc[u] \in Blocked
At(t, label) == pc[t] = label /\ CanRun(t)
Goto(t, label) == pc' = [pc EXCEPT ![t] = label]
NoCall == [update |-> "none", arg |-> "", ot |-> FALSE]
Text(bt, ot) == [bt |-> bt, ot |-> ot]
AtStatus(t) == pc[t] # "idle" /\ Line(call[t].update) = "status"

\* display_initDisplay(), which finds a display or not, and what main() does with
\* it: from display_start() to the end of the boot of a commissioned locomotive.
BootCalls == <<
    [update |-> "motion", arg |-> "stands", ot |-> FALSE],
    [update |-> "address", arg |-> "N/A", ot |-> FALSE],
    [update |-> "connection", arg |-> "Initializing...", ot |-> FALSE],
    [update |-> "ot", arg |-> "+SRP", ot |-> FALSE],
    [update |-> "ot", arg |-> "+S+CoAP", ot |-> TRUE],
    [update |-> "name", arg |-> "TREN", ot |-> FALSE],
    [update |-> "bt", arg |-> "up", ot |-> FALSE] >>

Init ==
    /\ display_initialized \in BOOLEAN
    /\ pc = [t \in Threads |-> "idle"] /\ call = [t \in Threads |-> NoCall]
    /\ lvgl_mutex = "none" /\ ot_mutex = "none"
    /\ script = BootCalls
    /\ bt_conn_status = "" /\ ot_conn_status = ""
    /\ buffer = [connection |-> Text("", ""), bt |-> Text("", ""), ot |-> Text("", ""),
                  name |-> "", address |-> ""]
    /\ shown = [status |-> Text("", ""), motion |-> "", name |-> "", address |-> ""]
    /\ overlapped = FALSE

-----------------------------------------------------------------------------
(* An update is called.                                                     *)

FirstLabel(update) ==
    IF update \in {"bt", "ot"} THEN "store" ELSE IF update = "address" THEN "lock" ELSE "print"

\* Without a display the update returns at once.
Call(t, new) ==
    /\ At(t, "idle")
    /\ IF display_initialized
       THEN /\ Goto(t, IF new.ot THEN "otWait" ELSE FirstLabel(new.update))
            /\ call' = [call EXCEPT ![t] = new]
            /\ overlapped' = IF Line(new.update) = "status" THEN \E u \in Callers : AtStatus(u)
                             ELSE overlapped
       ELSE UNCHANGED <<pc, call, overlapped>>
    /\ UNCHANGED <<display_initialized, locks, status, buffer, shown>>

BootCall ==
    /\ script # <<>>
    /\ Call("main", Head(script))
    /\ script' = Tail(script)

ThreadCall(t) ==
    /\ \E new \in Calls[t] : Call(t, new)
    /\ UNCHANGED script

-----------------------------------------------------------------------------
(* The text is printed before the lock is taken, that of the address after. *)

\* openthread_mutex_lock() of main, and of the thread that runs OpenThread.
TakeOpenThread(t) ==
    /\ At(t, "otWait") /\ ot_mutex = "none"
    /\ ot_mutex' = t
    /\ Goto(t, FirstLabel(call[t].update))
    /\ UNCHANGED <<display_initialized, call, lvgl_mutex, script, status, buffer, shown, overlapped>>

\* bt_conn_status, ot_conn_status.
Store(t) ==
    /\ At(t, "store")
    /\ LET update == call[t].update IN
       /\ bt_conn_status' = IF update = "bt" THEN call[t].arg ELSE bt_conn_status
       /\ ot_conn_status' = IF update = "ot" THEN call[t].arg ELSE ot_conn_status
    /\ Goto(t, "print")
    /\ UNCHANGED <<display_initialized, call, locks, script, buffer, shown, overlapped>>

\* "BT %s OT %s", in two steps: main may be preempted in between.
PrintLine(t) ==
    /\ At(t, "print")
    /\ LET update == call[t].update IN
       \/ /\ update \in {"bt", "ot"}
          /\ buffer' = [buffer EXCEPT ![update] = Text(bt_conn_status, buffer[update].ot)]
          /\ Goto(t, "printRest")
       \/ /\ update = "connection"
          /\ buffer' = [buffer EXCEPT !["connection"] = Text(call[t].arg, "")]
          /\ Goto(t, "lock")
       \/ /\ update = "name"
          /\ buffer' = [buffer EXCEPT !["name"] = call[t].arg]
          /\ Goto(t, "lock")
       \/ /\ update = "motion"  \* in a buffer on the stack
          /\ UNCHANGED buffer
          /\ Goto(t, "lock")
    /\ UNCHANGED <<display_initialized, call, locks, script, status, shown, overlapped>>

\* Mutant: only the part that changes is printed.
PrintOwnPart(t) ==
    /\ At(t, "printRest")
    /\ buffer' = IF call[t].update = "ot"
                 THEN [buffer EXCEPT !["ot"] = Text(buffer["ot"].bt, ot_conn_status)]
                 ELSE buffer
    /\ Goto(t, "lock")
    /\ UNCHANGED <<display_initialized, call, locks, script, status, shown, overlapped>>

PrintRest(t) ==
    /\ At(t, "printRest")
    /\ LET update == call[t].update IN
       buffer' = [buffer EXCEPT ![update] = Text(buffer[update].bt, ot_conn_status)]
    /\ Goto(t, "lock")
    /\ UNCHANGED <<display_initialized, call, locks, script, status, shown, overlapped>>

-----------------------------------------------------------------------------
(* The lock: k_mutex_lock(), for ever or, in anim, for 100 ms.             *)

Lock(t) ==
    /\ At(t, "lock")
    /\ IF lvgl_mutex = "none"
       THEN lvgl_mutex' = t /\ Goto(t, "set")
       ELSE Goto(t, "waiting") /\ UNCHANGED lvgl_mutex
    /\ UNCHANGED <<display_initialized, call, ot_mutex, script, status, buffer, shown, overlapped>>

\* Those who are served next.
Waiting == {t \in Callers : pc[t] = "waiting"}
Successors == IF Waiting # {} THEN Waiting
         ELSE {t \in {"anim"} : pc[t] = "waiting"}

\* k_mutex_unlock(), and the update returns; "ot" is done with OpenThread, and so
\* is main.
Unlock(t) ==
    /\ At(t, "unlock")
    /\ \/ /\ Successors = {} /\ lvgl_mutex' = "none"
          /\ Goto(t, "idle")
       \/ \E u \in Successors :
             /\ lvgl_mutex' = u
             /\ pc' = [pc EXCEPT ![t] = "idle", ![u] = "set"]
    /\ ot_mutex' = IF ot_mutex = t THEN "none" ELSE ot_mutex
    /\ call' = [call EXCEPT ![t] = NoCall]
    /\ UNCHANGED <<display_initialized, script, status, buffer, shown, overlapped>>

\* Mutant: the early return for no address keeps the lock.
ReturnLocked(t) ==
    /\ At(t, "set") /\ t # "anim"
    /\ shown' = [shown EXCEPT ![Line(call[t].update)] =
                    IF call[t].update = "motion" THEN call[t].arg ELSE buffer[call[t].update]]
    /\ Goto(t, IF call[t].arg = "N/A" THEN "idle" ELSE "unlock")
    /\ UNCHANGED <<display_initialized, call, locks, script, status, buffer, overlapped>>

\* Mutant: the label is set before the address is printed.
SetThenPrint(t) ==
    /\ At(t, "set") /\ t # "anim"
    /\ buffer' = IF call[t].update = "address" THEN [buffer EXCEPT !["address"] = call[t].arg]
                 ELSE buffer
    /\ shown' = [shown EXCEPT ![Line(call[t].update)] =
                    IF call[t].update = "motion" THEN call[t].arg ELSE buffer[call[t].update]]
    /\ Goto(t, "unlock")
    /\ UNCHANGED <<display_initialized, call, locks, script, status, overlapped>>

\* lv_label_set_text(), for the address after the text is printed.
SetText(t) ==
    /\ At(t, "set") /\ t # "anim"
    /\ buffer' = IF call[t].update = "address" THEN [buffer EXCEPT !["address"] = call[t].arg]
                 ELSE buffer
    /\ shown' = [shown EXCEPT ![Line(call[t].update)] =
                    IF call[t].update = "motion" THEN call[t].arg ELSE buffer'[call[t].update]]
    /\ Goto(t, "unlock")
    /\ UNCHANGED <<display_initialized, call, locks, script, status, overlapped>>

-----------------------------------------------------------------------------
(* animate_ip_scroll(): lock, lv_task_handler(), unlock, sleep.            *)

Wake ==
    /\ display_initialized /\ At("anim", "idle")
    /\ Goto("anim", "lock")
    /\ UNCHANGED <<display_initialized, call, locks, script, status, buffer, shown, overlapped>>

Draw ==
    /\ At("anim", "set")
    /\ Goto("anim", "unlock")
    /\ UNCHANGED <<display_initialized, call, locks, script, status, buffer, shown, overlapped>>

\* Mutants: the result of the lock is not looked at; the thread ends.
TimeoutDraws ==
    /\ At("anim", "waiting")
    /\ Goto("anim", "set")
    /\ UNCHANGED <<display_initialized, call, locks, script, status, buffer, shown, overlapped>>
TimeoutEnds ==
    /\ At("anim", "waiting")
    /\ Goto("anim", "ended")
    /\ UNCHANGED <<display_initialized, call, locks, script, status, buffer, shown, overlapped>>

\* 100 ms have passed: this frame is skipped.
Timeout ==
    /\ At("anim", "waiting")
    /\ Goto("anim", "idle")
    /\ UNCHANGED <<display_initialized, call, locks, script, status, buffer, shown, overlapped>>

-----------------------------------------------------------------------------
Step(t) ==
    \/ TakeOpenThread(t) \/ Store(t) \/ PrintLine(t) \/ PrintRest(t)
    \/ Lock(t) \/ SetText(t) \/ Unlock(t)

Next ==
    \/ BootCall \/ \E t \in Callers \ {"main"} : ThreadCall(t)
    \/ \E t \in Threads : Step(t)
    \/ Wake \/ Draw \/ Timeout

Spec == Init /\ [][Next]_vars

\* Threads go on and anim wakes up; callers owe no updates.
FairSpec ==
    /\ Spec
    /\ \A t \in Threads : WF_vars(Step(t))
    /\ WF_vars(Wake) /\ WF_vars(Draw)

-----------------------------------------------------------------------------
(* Properties                                                               *)

\* Every variable stays in its type.
TypeOK ==
    /\ display_initialized \in BOOLEAN /\ overlapped \in BOOLEAN
    /\ \A t \in Threads :
          pc[t] \in Blocked \cup {"store", "print", "printRest", "lock", "set", "unlock"}
    /\ lvgl_mutex \in Threads \cup {"none"} /\ ot_mutex \in Callers \cup {"none"}
    /\ DOMAIN shown = Lines

\* LVGL is never entered by two threads: not by a thread that waited too long, nor
\* by one that was just handed the mutex (1306_display.c:94-130).
LvglExclusive ==
    \A t, u \in Threads :
        pc[t] \in {"set", "unlock"} /\ pc[u] \in {"set", "unlock"} => t = u

\* The address that is shown is the one its update was called with, though the
\* buffer is shared by all of them (1306_display.c:230-247).
OwnAddressShown ==
    [][shown'["address"] # shown["address"] =>
          shown'["address"] = call[lvgl_mutex].arg]_vars

\* The status line shows both current states, unless two updates of it overlapped:
\* each prints its line before it waits for the lock, and a line that waited
\* longer may replace a newer one until the next update (1306_display.c:148-187).
StatusCurrent ==
    ~overlapped /\ (\A t \in Callers : ~AtStatus(t))
    /\ shown["status"].bt # "Initializing..." =>
        shown["status"] = Text(bt_conn_status, ot_conn_status)

\* No deadlock: while any thread is at the display, one of them is ready to go on,
\* or takes OpenThread's mutex, and does not just time out: of the threads that
\* wait for LVGL with OpenThread's mutex in hand, for OpenThread's, or for a
\* cooperative thread to give up the CPU, none closes a circle (main.c:684-693).
SomebodyRuns ==
    (\E t \in Threads : pc[t] # "idle") =>
        \E t \in Threads :
            /\ CanRun(t)
            /\ \/ pc[t] \notin Blocked
               \/ pc[t] = "otWait" /\ ot_mutex = "none"

\* An update that is left alone returns: the lock is not kept, and a thread that
\* holds OpenThread's mutex while it waits for LVGL waits for nobody who wants
\* OpenThread's (main.c:684-693, 1306_display.c:121-126).
UpdatesReturn ==
    (<>[](\A t \in Callers : pc[t] # "idle" => pc[t] \in {"waiting", "otWait"})) =>
    <>[](\A t \in Callers : pc[t] = "idle")

\* Whatever timed out before, anim draws again and again once no caller is at the
\* display any more (1306_display.c:94-106).
FramesComeBack ==
    display_initialized /\ <>[](\A t \in Callers : pc[t] = "idle") =>
        []<>(pc["anim"] = "set")
=============================================================================
