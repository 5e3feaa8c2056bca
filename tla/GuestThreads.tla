---------------------------- MODULE GuestThreads ----------------------------
(***************************************************************************)
(* The threads of a guest: Unikraft's cooperative scheduler (ukschedcoop,  *)
(* uksched), its wait queues, semaphores and mutexes (uklock) and its      *)
(* mailbox (ukmpi), on the guest's one CPU.                                *)
(*                                                                         *)
(* Code between ukplat_lcpu_save_irqf and ukplat_lcpu_restore_irqf is one  *)
(* step; an interrupt, whose handler posts to the mailbox or receives from *)
(* it, comes between any two steps.  Threads do what they like with the    *)
(* calls of these libraries: post and receive, with and without a timeout, *)
(* lock, sleep, yield, exit, start and terminate threads.                  *)
(*                                                                         *)
(* Times are kept as the time that is left: a deadline of 0 has passed.    *)
(***************************************************************************)
EXTENDS Integers, Sequences, FiniteSets, FiniteSetsExt, Functions

CONSTANTS Threads,   \* thread structures, numbered from 1; 1 is the main thread
          Size,      \* messages that fit in the mailbox
          Timeout,   \* length of a sleep and of a timed wait, in ticks of the clock
          Msgs,      \* messages
          MaxDepth   \* bound on how often a thread locks the mutex again

VARIABLES sched,     \* the scheduler: queues and flags of the threads
          th,        \* each thread: where it is, what it waits for, its deadline
          idle_return_time,
          count,     \* counts of the two semaphores, lock_count of the mutex
          wait,      \* their wait queues
          owner,     \* owner of the mutex
          box        \* ring of the mailbox

vars == <<sched, th, idle_return_time, count, wait, owner, box>>

idle == 0
NoThread == -1
NoMsg == -1
All == Threads \cup {idle}
Never == -1          \* no deadline
Sems == {"readsem", "writesem"}
Objs == Sems \cup {"mutex"}
len == Size + 1
\* A queue without its entry for t; a thread has one at most.
Place(q, t) == CHOOSE i \in DOMAIN q : q[i] = t
Without(q, t) == IF t \notin Range(q) THEN q
                 ELSE [i \in 1..(Len(q) - 1) |-> IF i < Place(q, t) THEN q[i] ELSE q[i + 1]]
\* The entries of a queue that are in S, in their order.
Only(q, S) == LET at == {i \in DOMAIN q : q[i] \in S}
              IN  [k \in 1..Cardinality(at) |-> q[CHOOSE i \in at : Cardinality({j \in at : j <= i}) = k]]

ASSUME GuestThreadsConstants == /\ Threads \subseteq Nat \ {0} /\ 1 \in Threads /\ IsFiniteSet(Threads)
                                /\ Size \in Nat \ {0} /\ Timeout \in Nat \ {0} /\ Msgs # {} /\ NoMsg \notin Msgs
                                /\ MaxDepth \in Nat \ {0}

-----------------------------------------------------------------------------
\* uk_thread_wake and schedcoop_thread_woken, for the threads of q in that order.
\* Mutant: whoever was blocked goes to the run queue.
uk_thread_wake_queued(s, q) ==
    LET blocked == Range(q) \ s.runnable
    IN  [s EXCEPT !.runnable = @ \cup Range(q), !.armed = @ \ Range(q),
                  !.sleep_queue = Only(@, Range(@) \ (blocked \cap s.armed)),
                  !.run_queue = @ \o Only(q, blocked),
                  !.queueable = @ \ blocked]

\* Mutant: the sleep queue is left alone.
uk_thread_wake_asleep(s, q) ==
    LET blocked == Range(q) \ s.runnable
    IN  [s EXCEPT !.runnable = @ \cup Range(q), !.armed = @ \ Range(q),
                  !.run_queue = @ \o Only(q, blocked \cap s.queueable),
                  !.queueable = @ \ blocked]

uk_thread_wake(s, q) ==
    LET blocked == Range(q) \ s.runnable
    IN  [s EXCEPT !.runnable = @ \cup Range(q), !.armed = @ \ Range(q),
                  !.sleep_queue = Only(@, Range(@) \ (blocked \cap s.armed)),
                  !.run_queue = @ \o Only(q, blocked \cap s.queueable),
                  !.queueable = @ \ blocked]

\* uk_waitq_wake_up: everybody who waits for o is woken, and stays on its queue.
uk_waitq_wake_up(o) == uk_thread_wake(sched, wait[o])

\* A thread blocks itself; uk_thread_block_until and schedcoop_thread_blocked.
uk_thread_block_until(s, t, timed) ==
    [s EXCEPT !.runnable = @ \ {t},
              !.armed = IF timed THEN @ \cup {t} ELSE @ \ {t},
              !.sleep_queue = IF timed THEN Append(@, t) ELSE @]

-----------------------------------------------------------------------------
\* Thread t executes at place pc: it is the current one, and no switch is on.
On(t, pc) == sched.current = t /\ sched.next = NoThread /\ th[t].pc = pc
Goto(t, pc) == th' = [th EXCEPT ![t].pc = pc]
Running == [pc |-> "run", obj |-> "none", deadline |-> Never]
Gone == [pc |-> "gone", obj |-> "none", deadline |-> Never]

\* What uk_semaphore_down and uk_mutex_lock wait for.
Condition(o, t) == IF o = "mutex" THEN count[o] = 0 \/ owner = t ELSE count[o] > 0

\* __wq_wait_event_deadline: the condition is tested with interrupts enabled ...
Test(t) ==
    /\ On(t, "test")
    /\ Goto(t, IF Condition(th[t].obj, t) THEN "take" ELSE "block")
    /\ UNCHANGED <<sched, idle_return_time, count, wait, owner, box>>

\* ... and again with interrupts disabled, before the thread blocks.
\* Mutant: it is not tested again.
Block_untested(t) ==
    LET o == th[t].obj
    IN  /\ On(t, "block")
        /\ Goto(t, "yield")
        /\ wait' = [wait EXCEPT ![o] = IF t \in Range(@) THEN @ ELSE Append(@, t)]
        /\ sched' = uk_thread_block_until(sched, t, th[t].deadline # Never)
        /\ UNCHANGED <<idle_return_time, count, owner, box>>

Block(t) ==
    LET o == th[t].obj
    IN  /\ On(t, "block")
        /\ IF Condition(o, t) THEN Goto(t, "leave") /\ UNCHANGED <<sched, wait>>
           ELSE /\ Goto(t, "yield")
                /\ wait' = [wait EXCEPT ![o] = IF t \in Range(@) THEN @ ELSE Append(@, t)]
                /\ sched' = uk_thread_block_until(sched, t, th[t].deadline # Never)
        /\ UNCHANGED <<idle_return_time, count, owner, box>>

\* The thread runs again.  It slept, or it looks at its condition once more.
Woken(t) ==
    /\ On(t, "woken")
    /\ IF th[t].obj = "none" THEN th' = [th EXCEPT ![t] = Running]
       ELSE Goto(t, IF Condition(th[t].obj, t) \/ th[t].deadline = 0 THEN "leave" ELSE "block")
    /\ UNCHANGED <<sched, idle_return_time, count, wait, owner, box>>

\* The end of __wq_wait_event_deadline.
\* Mutant: after a timeout the thread is left on the wait queue.
Leave_timedout(t) ==
    /\ On(t, "leave")
    /\ Goto(t, "take")
    /\ sched' = uk_thread_wake(sched, <<t>>)
    /\ wait' = [wait EXCEPT ![th[t].obj] = IF th[t].deadline = 0 THEN @ ELSE Without(@, t)]
    /\ UNCHANGED <<idle_return_time, count, owner, box>>

Leave(t) ==
    /\ On(t, "leave")
    /\ Goto(t, "take")
    /\ sched' = uk_thread_wake(sched, <<t>>)
    /\ wait' = [wait EXCEPT ![th[t].obj] = Without(@, t)]
    /\ UNCHANGED <<idle_return_time, count, owner, box>>

\* The end of uk_semaphore_down, uk_semaphore_down_to and uk_mutex_lock, with
\* interrupts disabled.
Take(t) ==
    LET o == th[t].obj
    IN  /\ On(t, "take")
        /\ IF Condition(o, t)
           THEN /\ count' = [count EXCEPT ![o] = IF o = "mutex" THEN @ + 1 ELSE @ - 1]
                /\ owner' = IF o = "mutex" THEN t ELSE owner
                /\ th' = [th EXCEPT ![t] = [Running EXCEPT
                             !.pc = CASE o = "mutex" -> "run" [] o = "readsem" -> "get" [] OTHER -> "put"]]
           ELSE /\ th' = [th EXCEPT ![t] = IF @.deadline = 0 THEN Running ELSE [@ EXCEPT !.pc = "test"]]
                /\ UNCHANGED <<count, owner>>
        /\ UNCHANGED <<sched, idle_return_time, wait, box>>

-----------------------------------------------------------------------------
\* _do_mbox_post and _do_mbox_recv, up to uk_semaphore_up.  What a slot holds
\* before it is written, and after it is read, does not matter.
Posted(b, m) == [b EXCEPT !.msgs[b.writepos] = m, !.writepos = (@ + 1) % len]
Received(b) == [b EXCEPT !.msgs[b.readpos] = NoMsg, !.readpos = (@ + 1) % len]

Put(t, m) ==
    /\ On(t, "put")
    /\ box' = Posted(box, m)
    /\ th' = [th EXCEPT ![t].pc = "up", ![t].obj = "readsem"]
    /\ UNCHANGED <<sched, idle_return_time, count, wait, owner>>

Get(t) ==
    /\ On(t, "get")
    /\ box' = Received(box)
    /\ th' = [th EXCEPT ![t].pc = "up", ![t].obj = "writesem"]
    /\ UNCHANGED <<sched, idle_return_time, count, wait, owner>>

uk_semaphore_up(t) ==
    /\ On(t, "up")
    /\ count' = [count EXCEPT ![th[t].obj] = @ + 1]
    /\ sched' = uk_waitq_wake_up(th[t].obj)
    /\ th' = [th EXCEPT ![t] = Running]
    /\ UNCHANGED <<idle_return_time, wait, owner, box>>

\* An interrupt; its handler calls uk_mbox_post_try_isr or uk_mbox_recv_try_isr,
\* and the idle thread leaves the halting loop.
Kicked == [th EXCEPT ![idle].pc = IF @ = "halted" THEN "yield" ELSE @]

\* Mutant: it does not ask whether there is room.
Interrupt_unasked(m) ==
    /\ count' = [count EXCEPT !["readsem"] = @ + 1]
    /\ box' = Posted(box, m)
    /\ sched' = uk_waitq_wake_up("readsem")
    /\ th' = Kicked
    /\ UNCHANGED <<idle_return_time, wait, owner>>

Interrupt(m) ==
    /\ IF count["writesem"] > 0
       THEN /\ count' = [count EXCEPT !["writesem"] = @ - 1, !["readsem"] = @ + 1]
            /\ box' = Posted(box, m)
            /\ sched' = uk_waitq_wake_up("readsem")
       ELSE UNCHANGED <<count, box, sched>>
    /\ th' = Kicked
    /\ UNCHANGED <<idle_return_time, wait, owner>>

InterruptRecv ==
    /\ count["readsem"] > 0
    /\ count' = [count EXCEPT !["readsem"] = @ - 1, !["writesem"] = @ + 1]
    /\ box' = Received(box)
    /\ sched' = uk_waitq_wake_up("writesem")
    /\ th' = Kicked
    /\ UNCHANGED <<idle_return_time, wait, owner>>

-----------------------------------------------------------------------------
\* schedcoop_schedule, up to where interrupts are enabled again: the sleepers
\* whose time has come are woken, and the next thread is chosen.
\* Mutant: only those that wait for nothing else are woken.
Expired_sleepers == Only(sched.sleep_queue, {u \in Threads : th[u].deadline = 0 /\ th[u].obj = "none"})

Expired == Only(sched.sleep_queue, {u \in Threads : th[u].deadline = 0})

\* Mutant: a thread that can go on goes on.
Chosen_stay(s, t) == IF t \in s.runnable \ {idle} THEN t
                     ELSE IF s.run_queue # <<>> THEN Head(s.run_queue) ELSE idle

Chosen(s, t) == IF s.run_queue # <<>> THEN Head(s.run_queue)
                ELSE IF t \in s.runnable THEN t ELSE idle

schedcoop_schedule(t) ==
    LET s == uk_thread_wake(sched, Expired)
        next == Chosen(s, t)
        rest == Without(s.run_queue, next)
        left == {th[u].deadline : u \in Range(s.sleep_queue)}
    IN  /\ On(t, "yield") \/ On(t, "exit")
        /\ sched' = [s EXCEPT !.run_queue = IF t \in s.runnable \ {idle, next} THEN Append(rest, t) ELSE rest,
                              !.queueable = IF next = t THEN @ ELSE (@ \cup {t}) \ {next},
                              !.next = IF next = t THEN NoThread ELSE next]
        /\ idle_return_time' = IF next = idle /\ t # idle THEN IF left = {} THEN 0 ELSE Min(left)
                               ELSE idle_return_time
        /\ Goto(t, IF t = idle THEN "gc" ELSE IF th[t].pc = "exit" THEN "gone" ELSE "woken")
        /\ UNCHANGED <<count, wait, owner, box>>

\* uk_sched_thread_switch
Switch ==
    /\ sched.next # NoThread
    /\ sched' = [sched EXCEPT !.current = sched.next, !.next = NoThread]
    /\ UNCHANGED <<th, idle_return_time, count, wait, owner, box>>

\* idle_thread_fn: it releases what has exited, or halts until the next deadline,
\* if there is one.  The wait in time_block_until ends with an interrupt.
uk_sched_thread_gc ==
    /\ On(idle, "gc")
    /\ Goto(idle, IF sched.exited_threads = <<>> /\ idle_return_time > 0 THEN "halt" ELSE "yield")
    /\ sched' = [sched EXCEPT !.free = @ \cup Range(sched.exited_threads), !.exited_threads = <<>>]
    /\ UNCHANGED <<idle_return_time, count, wait, owner, box>>

ukplat_lcpu_halt_to ==
    /\ On(idle, "halt")
    /\ Goto(idle, IF idle_return_time > 0 THEN "halted" ELSE "yield")
    /\ UNCHANGED <<sched, idle_return_time, count, wait, owner, box>>

TimerInterrupt ==
    /\ On(idle, "halted") /\ idle_return_time = 0
    /\ Goto(idle, "yield")
    /\ UNCHANGED <<sched, idle_return_time, count, wait, owner, box>>

\* Time passes.
Less(d) == IF d > 0 THEN d - 1 ELSE d
Tick ==
    /\ idle_return_time > 0 \/ \E t \in Threads : th[t].deadline > 0
    /\ th' = [t \in All |-> [th[t] EXCEPT !.deadline = Less(@)]]
    /\ idle_return_time' = Less(idle_return_time)
    /\ UNCHANGED <<sched, count, wait, owner, box>>

-----------------------------------------------------------------------------
\* The calls of a thread.  uk_mbox_recv, uk_mbox_recv_to, uk_mbox_post,
\* uk_mbox_post_to and uk_mutex_lock wait for an object:
WaitFor(t, o, d) ==
    /\ On(t, "run")
    /\ o = "mutex" => d = Never /\ (owner = t => count[o] < MaxDepth)
    /\ th' = [th EXCEPT ![t] = [pc |-> "test", obj |-> o, deadline |-> d]]
    /\ UNCHANGED <<sched, idle_return_time, count, wait, owner, box>>

\* uk_mbox_recv_try, uk_mbox_post_try and uk_mutex_trylock; a call that fails
\* changes nothing.
uk_semaphore_down_try(t, o) ==
    /\ On(t, "run") /\ count[o] > 0
    /\ count' = [count EXCEPT ![o] = @ - 1]
    /\ Goto(t, IF o = "readsem" THEN "get" ELSE "put")
    /\ UNCHANGED <<sched, idle_return_time, wait, owner, box>>

uk_mutex_trylock(t) ==
    /\ On(t, "run") /\ Condition("mutex", t) /\ count["mutex"] < MaxDepth
    /\ count' = [count EXCEPT !["mutex"] = @ + 1]
    /\ owner' = t
    /\ UNCHANGED <<sched, th, idle_return_time, wait, box>>

uk_mutex_unlock(t) ==
    /\ On(t, "run") /\ owner = t
    /\ count' = [count EXCEPT !["mutex"] = @ - 1]
    /\ IF count["mutex"] = 1
       THEN owner' = NoThread /\ sched' = uk_waitq_wake_up("mutex")
       ELSE UNCHANGED <<owner, sched>>
    /\ UNCHANGED <<th, idle_return_time, wait, box>>

uk_sched_yield(t) ==
    /\ On(t, "run") /\ Goto(t, "yield")
    /\ UNCHANGED <<sched, idle_return_time, count, wait, owner, box>>

uk_sched_thread_sleep(t) ==
    /\ On(t, "run")
    /\ th' = [th EXCEPT ![t].pc = "yield", ![t].deadline = Timeout]
    /\ sched' = uk_thread_block_until(sched, t, TRUE)
    /\ UNCHANGED <<idle_return_time, count, wait, owner, box>>

\* uk_sched_thread_exit.  A thread holds no mutex when it goes, and it is not meant
\* to return from the scheduler: where it is gone, there is only UK_CRASH.
uk_sched_thread_exit(t) ==
    /\ On(t, "run") /\ owner # t
    /\ Goto(t, "exit")
    /\ sched' = [sched EXCEPT !.runnable = @ \ {t}, !.exited_threads = Append(@, t)]
    /\ UNCHANGED <<idle_return_time, count, wait, owner, box>>

\* uk_sched_thread_terminate for another thread, which waits for nothing.
uk_sched_thread_terminate(t, u) ==
    /\ On(t, "run") /\ u \in sched.runnable \ {t, owner}
    /\ th[u].obj = "none" /\ th[u].pc \notin {"exit", "gone"}
    /\ sched' = [sched EXCEPT !.run_queue = Without(@, u), !.runnable = @ \ {u}, !.free = @ \cup {u}]
    /\ th' = [th EXCEPT ![u] = Gone]
    /\ UNCHANGED <<idle_return_time, count, wait, owner, box>>

\* uk_sched_thread_create
uk_sched_thread_add(t, u) ==
    /\ On(t, "run") /\ u \in sched.free
    /\ sched' = [sched EXCEPT !.run_queue = Append(@, u), !.runnable = @ \cup {u},
                              !.queueable = @ \ {u}, !.free = @ \ {u}]
    /\ th' = [th EXCEPT ![u] = Running]
    /\ UNCHANGED <<idle_return_time, count, wait, owner, box>>

-----------------------------------------------------------------------------
\* uk_schedcoop_create and uk_sched_start, uk_mbox_create, uk_mutex_init.
Init ==
    /\ sched = [current |-> 1, next |-> NoThread, run_queue |-> <<>>, sleep_queue |-> <<>>,
                runnable |-> {idle, 1}, queueable |-> {}, armed |-> {},
                exited_threads |-> <<>>, free |-> Threads \ {1}]
    /\ th = [t \in All |-> IF t = idle THEN [Running EXCEPT !.pc = "gc"] ELSE IF t = 1 THEN Running ELSE Gone]
    /\ idle_return_time = 0
    /\ count = [o \in Objs |-> IF o = "writesem" THEN Size ELSE 0]
    /\ wait = [o \in Objs |-> <<>>]
    /\ owner = NoThread
    /\ box = [msgs |-> [i \in 0..Size |-> NoMsg], readpos |-> 0, writepos |-> 0]

Call(t) ==
    \/ \E o \in Objs, d \in {Never, Timeout} : WaitFor(t, o, d)
    \/ \E o \in Sems : uk_semaphore_down_try(t, o)
    \/ uk_mutex_trylock(t) \/ uk_mutex_unlock(t)
    \/ uk_sched_yield(t)
    \/ uk_sched_thread_sleep(t)
    \/ uk_sched_thread_exit(t)
    \/ \E u \in Threads : uk_sched_thread_terminate(t, u)
    \/ \E u \in Threads : uk_sched_thread_add(t, u)

Step(t) ==
    \/ Test(t) \/ Block(t) \/ Woken(t) \/ Leave(t) \/ Take(t)
    \/ \E m \in Msgs : Put(t, m)
    \/ Get(t) \/ uk_semaphore_up(t)

Next ==
    \/ \E t \in Threads : Call(t) \/ Step(t)
    \/ \E t \in All : schedcoop_schedule(t)
    \/ Switch
    \/ uk_sched_thread_gc \/ ukplat_lcpu_halt_to \/ TimerInterrupt
    \/ \E m \in Msgs : Interrupt(m)
    \/ InterruptRecv
    \/ Tick

\* Time passes, and the CPU comes to the scheduler again and again: the idle
\* thread does, and the threads of a cooperative scheduler give way.
Fairness == WF_vars(Tick) /\ []<><<\E t \in All : schedcoop_schedule(t)>>_vars

Spec == Init /\ [][Next]_vars /\ Fairness
-----------------------------------------------------------------------------
\* Thread t has the CPU, or is about to get it.
Executes(t) == IF sched.next = NoThread THEN sched.current = t ELSE sched.next = t
Positions(t) == {i \in DOMAIN sched.run_queue : sched.run_queue[i] = t}

\* A runnable thread has the CPU or is on the run queue, once, and nothing else is
\* on it: the flag UK_THREADF_QUEUEABLE keeps a thread that is woken while it
\* blocks, or while the CPU leaves it, from being queued twice or not at all.
RunnableOnce ==
    \A t \in Threads :
        Cardinality(Positions(t)) = IF t \in sched.runnable /\ ~Executes(t) THEN 1 ELSE 0

\* The sleep queue holds just the threads that are blocked with a deadline, each
\* once, whether the clock or somebody else wakes them (schedcoop_thread_blocked,
\* schedcoop_thread_woken).
SleepersTimed ==
    /\ IsInjective(sched.sleep_queue)
    /\ Range(sched.sleep_queue) = sched.armed
    /\ sched.armed \cap sched.runnable = {}

\* No thread is blocked on a semaphore or a mutex that it could take: whoever
\* raises a count or releases a mutex, an interrupt handler included, wakes the
\* threads that wait for it (uk_waitq_wait_event, uk_waitq_wake_up).
NoLostWakeup ==
    \A o \in Objs : \A t \in Range(wait[o]) : t \notin sched.runnable => ~Condition(o, t)

\* What is left of a thread that is gone is in no queue, and the CPU never comes
\* back to it, as uk_sched_thread_terminate asserts ("Unexpectedly returned to
\* exited thread"; uk_sched_thread_exit, __wq_wait_event_deadline).
GoneUnlinked ==
    \A t \in sched.free \cup Range(sched.exited_threads) :
        /\ t \notin Range(sched.run_queue) /\ t \notin Range(sched.sleep_queue)
        /\ \A o \in Objs : t \notin Range(wait[o])
        /\ Executes(t) => th[t].pc = "exit"

Filled == (box.writepos + len - box.readpos) % len
Contents == [i \in 1..Filled |-> box.msgs[(box.readpos + i - 1) % len]]

\* A thread is between taking from semaphore o and the access to the ring that it
\* took it for, or between an access and raising o.
InAccess == {"get", "put", "up"}
Has(x, o) == (x.pc = "up" /\ x.obj = o) \/ x.pc = (IF o = "readsem" THEN "get" ELSE "put")
Holds(o) == \E t \in All : Has(th[t], o)

\* The semaphores count what is in the ring and what is free, less what a thread
\* has taken and not used yet.  So readpos # writepos wherever _do_mbox_recv and
\* _do_mbox_post assert it.
RingCounted ==
    /\ Filled = count["readsem"] + (IF Holds("readsem") THEN 1 ELSE 0)
    /\ Size - Filled = count["writesem"] + (IF Holds("writesem") THEN 1 ELSE 0)

Places == {"run", "test", "block", "yield", "woken", "leave", "take", "put", "get", "up",
           "gc", "halt", "halted", "exit", "gone"}
Thread == [pc : Places, obj : Objs \cup {"none"}, deadline : Int]
Waiting == {"test", "block", "leave", "take"}

\* RingCounted with what makes it inductive: only the thread that has the CPU is
\* inside of a call on the mailbox (_do_mbox_post and _do_mbox_recv do not block),
\* a thread that waits knows what for, and a mutex with an owner is locked, as
\* uk_mutex_unlock asserts.
IInv ==
    /\ {"current", "next"} \subseteq DOMAIN sched
    /\ th \in [All -> Thread]
    /\ count \in [Objs -> Nat] /\ (owner # NoThread => count["mutex"] > 0)
    /\ box \in [msgs : [0..Size -> Msgs \cup {NoMsg}], readpos : 0..Size, writepos : 0..Size]
    /\ \A t \in All : /\ th[t].pc \in InAccess => sched.current = t /\ sched.next = NoThread
                      /\ th[t].pc \in Waiting => th[t].obj \in Objs
                      /\ th[t].pc = "up" => th[t].obj \in Sems
    /\ RingCounted

\* NoLostWakeup with what makes it inductive: who is on a wait queue is there once
\* and inside of __wq_wait_event_deadline for that object, and who is gone is not.
Linked == {"block", "yield", "woken", "leave"}
WaitInv ==
    /\ {"runnable", "exited_threads", "free"} \subseteq DOMAIN sched
    /\ sched.exited_threads \in Seq(Threads) /\ sched.free \subseteq Threads
    /\ \A t \in sched.free \cup Range(sched.exited_threads) : th[t].pc \in {"exit", "gone"}
    /\ sched.free \cap Range(sched.exited_threads) = {}
    /\ wait \in [Objs -> Seq(Threads)]
    /\ \A o \in Objs : /\ IsInjective(wait[o])
                        /\ \A t \in Range(wait[o]) : th[t].obj = o /\ th[t].pc \in Linked
    /\ NoLostWakeup

\* The ring is a queue of at most Size messages: nothing that was posted, by
\* threads or by the interrupt handler, is overwritten, skipped or read twice.
Queue == INSTANCE BoundedQueue WITH q <- Contents
RefinesQueue == Queue!Spec

\* Every runnable thread gets the CPU in its turn (schedcoop_schedule).
RoundRobin == \A t \in Threads : []<>(t \notin sched.runnable \/ sched.current = t)

\* A sleep, and a wait with a timeout, ends (schedcoop_schedule,
\* uk_semaphore_down_to, idle_thread_fn).
TimedReturn == \A t \in Threads : []<>(th[t].deadline = Never)
=============================================================================
