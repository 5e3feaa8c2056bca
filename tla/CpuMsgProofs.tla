----------------------------- MODULE CpuMsgProofs -----------------------------
(***************************************************************************)
(* Proofs about CpuMsg, for any number of CPUs, of nodes and of messages:  *)
(* as long as no two CPUs work on one list at a time, every list is the    *)
(* circle it should be, each message is handled once and by the CPU it was *)
(* sent to, and no pointer that list_del has poisoned is met.              *)
(***************************************************************************)
EXTENDS CpuMsg, FiniteSetTheorems, WellFoundedInduction, TLAPS

\* Places of a CPU: inside list_add_tail; with a node that the list does not hold;
\* inside list_del before and after the node has left the list; in the handler.
Adds == {"add1", "add2", "add3", "add4"}
Brings == {"load_tail"} \cup Adds
Dels == {"load_prev", "load_next", "del1", "del2"}
Keeps == {"poison", "free"}
Handles == {"empty?", "last"} \cup Dels \cup Keeps
Busy == Adds \cup Dels \cup {"poison"}

Heads == {event_list(d) : d \in CPUs}
Addrs == Nodes \cup Heads
Messages == CPUs \X Nat

MsgType ==
    /\ nxt \in [Addrs -> Addrs \cup {Bad}]
    /\ prv \in [Addrs -> Addrs \cup {Bad}]
    /\ msg \in [Nodes -> Messages \cup {<<>>}]
    /\ inuse \in SUBSET Nodes
    /\ pc \in [CPUs -> {"idle", "error", "sendipi"} \cup Brings \cup Handles]
    /\ r \in [CPUs -> [node : Nodes \cup {Bad}, list : Heads \cup {Bad},
                       p : Addrs \cup {Bad}, n : Addrs \cup {Bad}]]
    /\ sent \in Nat
    /\ handled \in [CPUs -> Seq(Messages)]

\* The k-th stop on the way round the list of d, which holds the nodes of s.
Stop(s, d, k) == IF k \in 1..Len(s) THEN s[k] ELSE event_list(d)
End(s, d) == Stop(s, d, Len(s))

\* Both links of every node, and next of the head.
Chained(q) ==
    \A d \in CPUs :
        /\ \A k \in 0..Len(q[d]) : nxt[Stop(q[d], d, k)] = Stop(q[d], d, k + 1)
        /\ \A k \in 1..Len(q[d]) : prv[q[d][k]] = Stop(q[d], d, k - 1)

\* prev of the head, which list_add_tail and list_del change first.
Tailed(q) ==
    /\ \A c \in CPUs : pc[c] \in {"add2", "add3", "add4"} => prv[r[c].list] = r[c].node
    /\ \A d \in CPUs : pc[d] = "del2" => prv[event_list(d)] = r[d].p
    /\ \A d \in CPUs :
          (/\ pc[d] # "del2"
           /\ \A c \in CPUs : pc[c] \in {"add2", "add3", "add4"} => r[c].list # event_list(d))
          => prv[event_list(d)] = End(q[d], d)

\* What a CPU holds in its registers, at each of its places.
Target(c) == msg[r[c].node][1]
Placed(q, c) ==
    /\ pc[c] \in Brings =>
          /\ r[c].node \in inuse
          /\ r[c].list = event_list(Target(c))
    /\ pc[c] \in Adds => r[c].p = End(q[Target(c)], Target(c))
    /\ pc[c] \in {"add3", "add4"} => nxt[r[c].node] = r[c].list
    /\ pc[c] = "add4" => prv[r[c].node] = r[c].p
    /\ pc[c] = "sendipi" => r[c].list \in Heads
    /\ pc[c] \in Handles => r[c].list = event_list(c)
    /\ pc[c] \in {"last"} \cup Dels => Len(q[c]) # 0
    /\ pc[c] \in Dels => r[c].node = q[c][Len(q[c])]
    /\ pc[c] \in Dels \ {"load_prev"} => r[c].p = Stop(q[c], c, Len(q[c]) - 1)
    /\ pc[c] \in {"del1", "del2"} => r[c].n = event_list(c)
    /\ pc[c] \in Keeps => r[c].node \in inuse /\ Target(c) = c

\* One CPU at a time inside a list.
Alone ==
    \A c, d \in CPUs :
        pc[c] \in Busy /\ pc[d] \in Busy /\ r[c].list = r[d].list => c = d

\* A node in use is on the list of the CPU that its message is for, once, or
\* one CPU has it.
Has(c) == pc[c] \in Brings \cup Keeps
Kept(q) ==
    /\ \A d \in CPUs : \A k \in 1..Len(q[d]) :
          /\ q[d][k] \in inuse /\ msg[q[d][k]][1] = d
          /\ \A j \in 1..Len(q[d]) : q[d][j] = q[d][k] => j = k
    /\ \A c \in CPUs : Has(c) =>
          \A d \in CPUs : \A k \in 1..Len(q[d]) : q[d][k] # r[c].node
    /\ \A c, d \in CPUs : Has(c) /\ Has(d) /\ r[c].node = r[d].node => c = d
    /\ \A n \in inuse :
          \/ \E k \in 1..Len(q[msg[n][1]]) : q[msg[n][1]][k] = n
          \/ \E c \in CPUs : Has(c) /\ r[c].node = n

\* Messages in use are numbered apart; a message was handled only if it is no
\* longer in use or the handler is about to delete it.
Apart ==
    /\ \A n \in inuse : msg[n] \in Messages /\ msg[n][2] < sent
    /\ \A m, n \in inuse : msg[m][2] = msg[n][2] => m = n
Told(c) ==
    \A k \in 1..Len(handled[c]) :
        /\ handled[c][k][1] = c /\ handled[c][k][2] < sent
        /\ \A j \in 1..Len(handled[c]) : handled[c][j] = handled[c][k] => j = k
        /\ \A n \in inuse : msg[n] = handled[c][k] =>
              pc[c] \in Dels \cup Keeps /\ r[c].node = n
Numbered == Apart /\ \A c \in CPUs : Told(c)

Lists(q) ==
    /\ q \in [CPUs -> Seq(Nodes)]
    /\ MsgType
    /\ Chained(q) /\ Tailed(q)
    /\ \A c \in CPUs : Placed(q, c)
    /\ Alone /\ Kept(q) /\ Numbered

MsgInv == raced \/ \E q \in [CPUs -> Seq(Nodes)] : Lists(q)
-----------------------------------------------------------------------------

\* A message in a list is in use, addressed to the list's CPU and linked once, and no CPU
\* still has it in hand.
LEMMA KeptOnce ==
    ASSUME NEW q, Kept(q)
    PROVE  /\ \A d \in CPUs : \A k \in 1..Len(q[d]) : q[d][k] \in inuse /\ msg[q[d][k]][1] = d
           /\ \A d \in CPUs : \A i, m \in 1..Len(q[d]) : q[d][i] = q[d][m] => i = m
           /\ \A c \in CPUs : Has(c) =>
                 \A d \in CPUs : \A k \in 1..Len(q[d]) : q[d][k] # r[c].node
    BY Zenon DEF Kept

\* A step that moves no node between the lists and the CPUs.
LEMMA KeptStays ==
    ASSUME NEW q, Kept(q), UNCHANGED <<msg, inuse>>,
           \A d \in CPUs : (Has(d)' <=> Has(d)) /\ r'[d].node = r[d].node
    PROVE  Kept(q)'
<1>1. \A d \in CPUs : \A k \in 1..Len(q[d]) :
          /\ q[d][k] \in inuse' /\ msg'[q[d][k]][1] = d
          /\ \A j \in 1..Len(q[d]) : q[d][j] = q[d][k] => j = k
    BY Zenon DEF Kept
<1>2. \A c \in CPUs : Has(c)' =>
          \A d \in CPUs : \A k \in 1..Len(q[d]) : q[d][k] # r'[c].node
    BY KeptOnce, SMTT(30)
<1>3. \A c, d \in CPUs : Has(c)' /\ Has(d)' /\ r'[c].node = r'[d].node => c = d
    BY SMTT(30) DEF Kept
<1>4. \A n \in inuse' :
          \/ \E k \in 1..Len(q[msg'[n][1]]) : q[msg'[n][1]][k] = n
          \/ \E c \in CPUs : Has(c)' /\ r'[c].node = n
    BY DEF Kept
<1> QED
    BY <1>1, <1>2, <1>3, <1>4, SMTT(30) DEF Kept

\* Heads, nodes and Bad are told apart, and so are the heads of two CPUs.
LEMMA HeadFacts ==
    /\ \A d \in CPUs : event_list(d) \in Heads /\ event_list(d) \in Addrs
    /\ \A d \in CPUs : event_list(d) \notin Nodes /\ event_list(d) # Bad
    /\ \A c, d \in CPUs : event_list(c) = event_list(d) => c = d
    /\ \A n \in Nodes : n # Bad /\ n \in Addrs /\ n \notin Heads
    /\ Bad \notin Heads /\ Bad \notin Addrs /\ Bad \notin Nodes
<1>1. NrCPUs \in Nat \ {0} /\ NrNodes \in Nat \ {0}
    BY MsgAssumption, Zenon
<1>2. \A d \in CPUs : d \in Int /\ d >= 0
    BY <1>1 DEF CPUs
<1>3. \A n \in Nodes : n \in Int /\ n >= 1
    BY <1>1 DEF Nodes
<1>4. \A d \in CPUs : event_list(d) \in Int /\ event_list(d) < 0
    BY <1>2 DEF event_list
<1>5. \A h \in Heads : h \in Int /\ h < 0
    BY <1>4, Zenon DEF Heads
<1> QED
    BY <1>2, <1>3, <1>4, <1>5, SMTT(30) DEF event_list, Heads, Addrs, Bad

\* The stops of a list: its head at both ends, its nodes between.
LEMMA StopFacts ==
    ASSUME NEW s \in Seq(Nodes), NEW d \in CPUs
    PROVE  /\ Len(s) \in Nat
           /\ \A k \in Int : Stop(s, d, k) \in Addrs
           /\ \A k \in 1..Len(s) : Stop(s, d, k) = s[k] /\ s[k] \in Nodes
           /\ Stop(s, d, 0) = event_list(d)
           /\ Stop(s, d, Len(s) + 1) = event_list(d)
           /\ Len(s) # 0 => End(s, d) = s[Len(s)] /\ End(s, d) \in Nodes
           /\ Len(s) = 0 => End(s, d) = event_list(d)
    BY HeadFacts, SMTT(30) DEF Stop, End

\* Nothing changes for a CPU that does not move, unless its node does.
LEMMA OthersPlaced ==
    ASSUME NEW q, NEW d \in CPUs, Placed(q, d),
           pc'[d] = pc[d], r'[d] = r[d],
           r[d].node \in inuse => r[d].node \in inuse' /\ msg'[r[d].node] = msg[r[d].node],
           pc[d] \in {"add3", "add4"} => nxt'[r[d].node] = nxt[r[d].node],
           pc[d] = "add4" => prv'[r[d].node] = prv[r[d].node]
    PROVE  Placed(q, d)'
    BY DEF Placed, Target, Brings, Adds, Keeps

\* One CPU at a time stays inside a list when another only leaves it.
LEMMA AloneKept ==
    ASSUME NEW c \in CPUs, Alone,
           \A d \in CPUs \ {c} : pc'[d] = pc[d] /\ r'[d] = r[d],
           pc'[c] \in Busy => pc[c] \in Busy /\ r'[c].list = r[c].list
    PROVE  Alone'
    BY ZenonT(30) DEF Alone

\* Lists whose links are not touched stay chained.
LEMMA ChainKept ==
    ASSUME NEW q, Chained(q), UNCHANGED <<nxt, prv>>
    PROVE  Chained(q)'
    BY Zenon DEF Chained

\* prev of every head stays what it should be when a CPU moves elsewhere.
LEMMA TailKept ==
    ASSUME NEW q, Tailed(q), NEW c \in CPUs, prv' = prv,
           \A d \in CPUs \ {c} : pc'[d] = pc[d] /\ r'[d] = r[d],
           pc[c] \notin {"add2", "add3", "add4", "del2"},
           pc'[c] \notin {"add2", "add3", "add4", "del2"}
    PROVE  Tailed(q)'
    BY DEF Tailed

\* A CPU enters a list in which there is no other.
LEMMA AloneEntered ==
    ASSUME NEW c \in CPUs, Alone, NEW h,
           \A d \in CPUs \ {c} : pc'[d] = pc[d] /\ r'[d] = r[d],
           \A d \in CPUs \ {c} : pc[d] \in Busy => r[d].list # h,
           r'[c].list = h
    PROVE  Alone'
<1> SUFFICES ASSUME NEW a \in CPUs, NEW b \in CPUs,
                    pc'[a] \in Busy, pc'[b] \in Busy, r'[a].list = r'[b].list
             PROVE  a = b
    BY Zenon DEF Alone
<1>1. CASE a # c /\ b # c
    BY <1>1, Zenon DEF Alone
<1>2. CASE a = c \/ b = c
    BY <1>2, Zenon
<1> QED
    BY <1>1, <1>2, Zenon

\* What a CPU has handled stays apart from what is in use.
LEMMA ToldKept ==
    ASSUME NEW d \in CPUs, Told(d), handled'[d] = handled[d], sent' = sent, msg' = msg,
           inuse' \subseteq inuse,
           pc[d] \in Dels \cup Keeps =>
              \/ pc'[d] \in Dels \cup Keeps /\ r'[d].node = r[d].node
              \/ r[d].node \notin inuse'
    PROVE  Told(d)'
<1> DEFINE h == handled[d]
<1>0. handled'[d] = h
    OBVIOUS
<1> SUFFICES ASSUME NEW k \in 1..Len(h)
             PROVE  /\ h[k][1] = d /\ h[k][2] < sent
                    /\ \A j \in 1..Len(h) : h[j] = h[k] => j = k
                    /\ \A n \in inuse' : msg[n] = h[k] =>
                          pc'[d] \in Dels \cup Keeps /\ r'[d].node = n
  <2> HIDE DEF h
  <2> QED
    BY <1>0, ZenonT(30) DEF Told
<1>1. /\ handled[d][k][1] = d /\ handled[d][k][2] < sent
      /\ \A j \in 1..Len(handled[d]) : handled[d][j] = handled[d][k] => j = k
      /\ \A n \in inuse : msg[n] = handled[d][k] =>
            pc[d] \in Dels \cup Keeps /\ r[d].node = n
    BY Zenon DEF Told
<1> QED
    BY <1>1, Zenon

\* A CPU goes on without touching lists and nodes, and neither gets nor gives up
\* a node.
LEMMA MoveStep ==
    ASSUME NEW q, Lists(q), NEW c \in CPUs, MsgType',
           UNCHANGED <<nxt, prv, msg, inuse>>,
           \A d \in CPUs \ {c} : pc'[d] = pc[d] /\ r'[d] = r[d],
           pc[c] \notin {"add2", "add3", "add4", "del2"},
           pc'[c] \notin {"add2", "add3", "add4", "del2"},
           Has(c)' <=> Has(c), Has(c) => r'[c].node = r[c].node,
           Placed(q, c)', Alone', Numbered'
    PROVE  Lists(q)'
<1>1. Chained(q)'
    BY ChainKept, Zenon DEF Lists
<1>2. Tailed(q)'
    BY TailKept, Zenon DEF Lists
<1>3. ASSUME NEW d \in CPUs PROVE Placed(q, d)'
  <2>1. CASE d = c
    BY <2>1, Zenon
  <2>2. CASE d # c
    BY <2>2, OthersPlaced, Zenon DEF Lists
  <2> QED
    BY <2>1, <2>2, Zenon
<1>4. \A d \in CPUs : Has(d)' <=> Has(d)
    BY Zenon DEF Has
<1>5. \A d \in CPUs : Has(d) => r'[d].node = r[d].node
    BY Zenon DEF Has
<1>6. Kept(q)'
  <2>1. Kept(q)
    BY Zenon DEF Lists
  <2>2. \A n \in inuse : (\E d \in CPUs : Has(d) /\ r[d].node = n)
                         => \E d \in CPUs : Has(d)' /\ r'[d].node = n
    BY <1>4, <1>5, Zenon
  <2>3. /\ \A d \in CPUs : Has(d)' =>
             \A e \in CPUs : \A k \in 1..Len(q[e]) : q[e][k] # r'[d].node
        /\ \A d, e \in CPUs : Has(d)' /\ Has(e)' /\ r'[d].node = r'[e].node => d = e
    BY <1>4, <1>5, <2>1, SMTT(30) DEF Kept
  <2> QED
    BY <2>1, <2>2, <2>3, Zenon DEF Kept
<1> QED
    BY <1>1, <1>2, <1>3, <1>6, Zenon DEF Lists

\* The same when it handles no message.
LEMMA QuietStep ==
    ASSUME NEW q, Lists(q), NEW c \in CPUs, MsgType',
           UNCHANGED <<nxt, prv, msg, inuse, sent, handled>>,
           \A d \in CPUs \ {c} : pc'[d] = pc[d] /\ r'[d] = r[d],
           pc[c] \notin {"add2", "add3", "add4", "del2"},
           pc'[c] \notin {"add2", "add3", "add4", "del2"},
           Has(c)' <=> Has(c), Has(c) => r'[c].node = r[c].node,
           pc[c] \in Dels \cup Keeps => pc'[c] \in Dels \cup Keeps /\ r'[c].node = r[c].node,
           Placed(q, c)', Alone'
    PROVE  Lists(q)'
<1>1. Apart'
    BY Zenon DEF Lists, Numbered, Apart
<1>2. ASSUME NEW d \in CPUs PROVE Told(d)'
    BY ToldKept, Zenon DEF Lists, Numbered
<1>3. Numbered'
    BY <1>1, <1>2, Zenon DEF Numbered
<1> QED
    BY <1>3, MoveStep, Zenon

\* interrupts_cpu_sendipi
LEMMA SendStep ==
    ASSUME NEW q, Lists(q), NEW c \in CPUs, sendipi(c)
    PROVE  Lists(q)'
<1>1. /\ pc[c] = "sendipi" /\ pc' = [pc EXCEPT ![c] = "idle"]
      /\ r' = [r EXCEPT ![c] = NoRegs]
      /\ UNCHANGED <<nxt, prv, msg, inuse, sent, handled>>
    BY Zenon DEF sendipi, Goto, list
<1>2. MsgType
    BY Zenon DEF Lists
<1>3. NoRegs \in [node : Nodes \cup {Bad}, list : Heads \cup {Bad},
                  p : Addrs \cup {Bad}, n : Addrs \cup {Bad}]
    BY Zenon DEF NoRegs, Regs
<1>4. MsgType'
    BY <1>1, <1>2, <1>3, Zenon DEF MsgType
<1>5. pc'[c] = "idle" /\ \A d \in CPUs \ {c} : pc'[d] = pc[d] /\ r'[d] = r[d]
    BY <1>1, <1>2, Zenon DEF MsgType
<1>6. Alone'
    BY <1>5, AloneKept, Zenon DEF Lists, Busy, Adds, Dels
<1>7. Placed(q, c)'
    BY <1>5, Zenon DEF Placed, Brings, Adds, Handles, Dels, Keeps
<1>8. ~Has(c)' /\ ~Has(c) /\ pc[c] \notin Dels \cup Keeps
    BY <1>1, <1>5, Zenon DEF Has, Brings, Adds, Keeps, Dels
<1> QED
    BY <1>1, <1>4, <1>5, <1>6, <1>7, <1>8, QuietStep, Zenon

\* The registers of a CPU that begins.
LEMMA RegsType ==
    ASSUME NEW n \in Nodes \cup {Bad}, NEW h \in Heads \cup {Bad}
    PROVE  /\ Regs(n, h) \in [node : Nodes \cup {Bad}, list : Heads \cup {Bad},
                              p : Addrs \cup {Bad}, n : Addrs \cup {Bad}]
           /\ Regs(n, h).node = n /\ Regs(n, h).list = h
    BY Zenon DEF Regs

\* gic_handle
LEMMA InterruptStep ==
    ASSUME NEW q, Lists(q), NEW c \in CPUs, gic_handle(c)
    PROVE  Lists(q)'
<1>1. /\ pc[c] = "idle" /\ pc' = [pc EXCEPT ![c] = "empty?"]
      /\ r' = [r EXCEPT ![c] = Regs(Bad, event_list(c))]
      /\ UNCHANGED <<nxt, prv, msg, inuse, sent, handled>>
    BY Zenon DEF gic_handle, Goto, list
<1>2. MsgType
    BY Zenon DEF Lists
<1>3. /\ Regs(Bad, event_list(c)) \in [node : Nodes \cup {Bad}, list : Heads \cup {Bad},
                                       p : Addrs \cup {Bad}, n : Addrs \cup {Bad}]
      /\ Regs(Bad, event_list(c)).list = event_list(c)
    BY RegsType, HeadFacts, SMTT(30)
<1>4. MsgType'
    BY <1>1, <1>2, <1>3, Zenon DEF MsgType, Handles
<1>5. /\ pc'[c] = "empty?" /\ r'[c].list = event_list(c)
      /\ \A d \in CPUs \ {c} : pc'[d] = pc[d] /\ r'[d] = r[d]
    BY <1>1, <1>2, <1>3, Zenon DEF MsgType
<1>6. Alone'
    BY <1>5, AloneKept, Zenon DEF Lists, Busy, Adds, Dels
<1>7. Placed(q, c)'
    BY <1>5, Zenon DEF Placed, Brings, Adds, Handles, Dels, Keeps
<1>8. ~Has(c)' /\ ~Has(c) /\ pc[c] \notin Dels \cup Keeps
    BY <1>1, <1>5, Zenon DEF Has, Brings, Adds, Keeps, Dels
<1> QED
    BY <1>1, <1>4, <1>5, <1>6, <1>7, <1>8, QuietStep, Zenon

\* list_empty: next of the head is the head only if the list holds no node.
LEMMA EmptyStep ==
    ASSUME NEW q, Lists(q), NEW c \in CPUs, list_empty(c)
    PROVE  Lists(q)'
<1>1. /\ pc[c] = "empty?"
      /\ UNCHANGED <<nxt, prv, msg, inuse, sent, handled>>
    BY Zenon DEF list_empty, list
<1>2. MsgType /\ Placed(q, c) /\ q[c] \in Seq(Nodes)
    BY Zenon DEF Lists
<1>3. r[c].list = event_list(c)
    BY <1>1, <1>2, Zenon DEF Placed, Handles
<1>4. CASE nxt[r[c].list] = r[c].list
  <2>1. pc' = [pc EXCEPT ![c] = "idle"] /\ r' = [r EXCEPT ![c] = Regs(Bad, Bad)]
    BY <1>4, Zenon DEF list_empty, Goto, NoRegs
  <2>2. MsgType'
    BY <1>1, <1>2, <2>1, RegsType, Zenon DEF MsgType
  <2>3. pc'[c] = "idle" /\ \A d \in CPUs \ {c} : pc'[d] = pc[d] /\ r'[d] = r[d]
    BY <1>2, <2>1, Zenon DEF MsgType
  <2>4. Alone'
    BY <2>3, AloneKept, Zenon DEF Lists, Busy, Adds, Dels
  <2>5. Placed(q, c)'
    BY <2>3, Zenon DEF Placed, Brings, Adds, Handles, Dels, Keeps
  <2>6. ~Has(c)' /\ ~Has(c) /\ pc[c] \notin Dels \cup Keeps
    BY <1>1, <2>3, Zenon DEF Has, Brings, Adds, Keeps, Dels
  <2> QED
    BY <1>1, <2>2, <2>3, <2>4, <2>5, <2>6, QuietStep, Zenon
<1>5. CASE nxt[r[c].list] # r[c].list
  <2>1. pc' = [pc EXCEPT ![c] = "last"] /\ r' = r
    BY <1>5, Zenon DEF list_empty, Goto
  <2>2. MsgType'
    BY <1>1, <1>2, <2>1, Zenon DEF MsgType, Handles
  <2>3. pc'[c] = "last" /\ \A d \in CPUs \ {c} : pc'[d] = pc[d] /\ r'[d] = r[d]
    BY <1>2, <2>1, Zenon DEF MsgType
  <2>4. Alone'
    BY <2>3, AloneKept, Zenon DEF Lists, Busy, Adds, Dels
  <2>5. Len(q[c]) # 0
    <3>1. SUFFICES ASSUME Len(q[c]) = 0 PROVE FALSE
      BY SMTT(30)
    <3>2. nxt[Stop(q[c], c, 0)] = Stop(q[c], c, 0 + 1)
      BY <1>2, <3>1, SMTT(30) DEF Lists, Chained
    <3>3. Stop(q[c], c, 0) = event_list(c) /\ Stop(q[c], c, 0 + 1) = event_list(c)
      BY <1>2, <3>1, SMTT(30) DEF Stop
    <3> QED
      BY <1>3, <1>5, <3>2, <3>3, Zenon
  <2>6. Placed(q, c)'
    BY <1>3, <2>1, <2>3, <2>5, Zenon DEF Placed, Brings, Adds, Handles, Dels, Keeps
  <2>7. ~Has(c)' /\ ~Has(c) /\ pc[c] \notin Dels \cup Keeps
    BY <1>1, <2>3, Zenon DEF Has, Brings, Adds, Keeps, Dels
  <2> QED
    BY <1>1, <2>2, <2>3, <2>4, <2>6, <2>7, QuietStep, Zenon
<1> QED
    BY <1>4, <1>5, Zenon

\* list_del: the loads of entry->prev and entry->next.
LEMMA LoadPrevStep ==
    ASSUME NEW q, Lists(q), NEW c \in CPUs, list_del_load_prev(c)
    PROVE  Lists(q)'
<1>1. /\ pc[c] = "load_prev" /\ pc' = [pc EXCEPT ![c] = "load_next"]
      /\ r' = [r EXCEPT ![c].p = prv[r[c].node]]
      /\ UNCHANGED <<nxt, prv, msg, inuse, sent, handled>>
    BY Zenon DEF list_del_load_prev, Goto, list
<1>2. MsgType /\ Placed(q, c) /\ q[c] \in Seq(Nodes)
    BY Zenon DEF Lists
<1>3. Len(q[c]) # 0 /\ r[c].node = q[c][Len(q[c])] /\ r[c].list = event_list(c)
    BY <1>1, <1>2, Zenon DEF Placed, Dels, Handles
<1>4. Len(q[c]) \in 1..Len(q[c])
    BY <1>2, <1>3, SMTT(30)
<1>5. prv[r[c].node] = Stop(q[c], c, Len(q[c]) - 1) /\ r[c].node \in Nodes
    BY <1>2, <1>3, <1>4, SMTT(30) DEF Lists, Chained
<1>6. prv[r[c].node] \in Addrs
    BY <1>2, <1>5, StopFacts, SMTT(30)
<1>7. MsgType'
    BY <1>1, <1>2, <1>6, ZenonT(30) DEF MsgType, Handles, Dels
<1>8. /\ pc'[c] = "load_next" /\ r'[c].p = prv[r[c].node]
      /\ r'[c].node = r[c].node /\ r'[c].list = r[c].list
      /\ \A d \in CPUs \ {c} : pc'[d] = pc[d] /\ r'[d] = r[d]
    BY <1>1, <1>2, Zenon DEF MsgType
<1>9. Alone'
    BY <1>1, <1>8, AloneKept, Zenon DEF Lists, Busy, Adds, Dels
<1>10. Placed(q, c)'
    BY <1>3, <1>5, <1>8, Zenon DEF Placed, Brings, Adds, Handles, Dels, Keeps
<1>11. ~Has(c)' /\ ~Has(c) /\ pc'[c] \in Dels
    BY <1>1, <1>8, Zenon DEF Has, Brings, Adds, Keeps, Dels
<1> QED
    BY <1>1, <1>7, <1>8, <1>9, <1>10, <1>11, QuietStep, Zenon

\* list_del reads next of the node: it is the head, for the node is the last.
LEMMA LoadNextStep ==
    ASSUME NEW q, Lists(q), NEW c \in CPUs, list_del_load_next(c)
    PROVE  Lists(q)'
<1>1. /\ pc[c] = "load_next" /\ pc' = [pc EXCEPT ![c] = "del1"]
      /\ r' = [r EXCEPT ![c].n = nxt[r[c].node]]
      /\ UNCHANGED <<nxt, prv, msg, inuse, sent, handled>>
    BY Zenon DEF list_del_load_next, Goto, list
<1>2. MsgType /\ Placed(q, c) /\ q[c] \in Seq(Nodes)
    BY Zenon DEF Lists
<1>3. /\ Len(q[c]) # 0 /\ r[c].node = q[c][Len(q[c])] /\ r[c].list = event_list(c)
      /\ r[c].p = Stop(q[c], c, Len(q[c]) - 1)
    BY <1>1, <1>2, Zenon DEF Placed, Dels, Handles
<1>4. Len(q[c]) \in 0..Len(q[c]) /\ End(q[c], c) = r[c].node
    BY <1>2, <1>3, StopFacts, SMTT(30)
<1>5. nxt[r[c].node] = Stop(q[c], c, Len(q[c]) + 1)
    BY <1>2, <1>3, <1>4, Zenon DEF Lists, Chained, End
<1>6. nxt[r[c].node] = event_list(c) /\ event_list(c) \in Addrs
    BY <1>2, <1>5, StopFacts, HeadFacts, Zenon
<1>7. MsgType'
    BY <1>1, <1>2, <1>6, ZenonT(30) DEF MsgType, Handles, Dels
<1>8. /\ pc'[c] = "del1" /\ r'[c].n = nxt[r[c].node] /\ r'[c].p = r[c].p
      /\ r'[c].node = r[c].node /\ r'[c].list = r[c].list
      /\ \A d \in CPUs \ {c} : pc'[d] = pc[d] /\ r'[d] = r[d]
    BY <1>1, <1>2, Zenon DEF MsgType
<1>9. Alone'
    BY <1>1, <1>8, AloneKept, Zenon DEF Lists, Busy, Adds, Dels
<1>10. Placed(q, c)'
    BY <1>3, <1>6, <1>8, Zenon DEF Placed, Brings, Adds, Handles, Dels, Keeps
<1>11. ~Has(c)' /\ ~Has(c) /\ pc'[c] \in Dels
    BY <1>1, <1>8, Zenon DEF Has, Brings, Adds, Keeps, Dels
<1> QED
    BY <1>1, <1>7, <1>8, <1>9, <1>10, <1>11, QuietStep, Zenon

\* No other CPU is inside the list that c enters, so that prev of its head is its
\* last node.
LEMMA EntersAlone ==
    ASSUME NEW q, Lists(q), NEW c \in CPUs, NEW t \in CPUs,
           ~Occupied(c), r[c].list = event_list(t),
           pc[c] \notin {"add2", "add3", "add4", "del2"}
    PROVE  /\ prv[event_list(t)] = End(q[t], t)
           /\ \A d \in CPUs \ {c} : pc[d] \in Busy => r[d].list # event_list(t)
<1>1. \A d \in CPUs \ {c} : pc[d] \in Busy => r[d].list # event_list(t)
    BY Zenon DEF Occupied, Busy, Adds, Dels
<1>2. pc[t] = "del2" => t # c /\ r[t].list = event_list(t)
    BY Zenon DEF Lists, Placed, Handles, Dels
<1>3. pc[t] # "del2"
    BY <1>1, <1>2, Zenon DEF Busy, Dels
<1>4. \A d \in CPUs : pc[d] \in {"add2", "add3", "add4"} => r[d].list # event_list(t)
    BY <1>1, Zenon DEF Busy, Adds
<1> QED
    BY <1>1, <1>3, <1>4, Zenon DEF Lists, Tailed

\* list_add_tail: the load of head->prev.
LEMMA AddTailStep ==
    ASSUME NEW q, Lists(q), NEW c \in CPUs, list_add_tail(c), ~raced'
    PROVE  Lists(q)'
<1>1. /\ pc[c] = "load_tail" /\ pc' = [pc EXCEPT ![c] = "add1"]
      /\ r' = [r EXCEPT ![c].p = prv[r[c].list]]
      /\ UNCHANGED <<nxt, prv, msg, inuse, sent, handled>>
      /\ ~Occupied(c)
    BY Zenon DEF list_add_tail, Goto, list
<1>2. MsgType /\ Placed(q, c) /\ q \in [CPUs -> Seq(Nodes)] /\ Numbered
    BY Zenon DEF Lists
<1>3. r[c].node \in inuse /\ r[c].list = event_list(Target(c)) /\ Target(c) \in CPUs
    BY <1>1, <1>2, Zenon DEF Placed, Brings, Numbered, Apart, Messages, Target
<1>4. /\ prv[event_list(Target(c))] = End(q[Target(c)], Target(c))
      /\ \A d \in CPUs \ {c} : pc[d] \in Busy => r[d].list # event_list(Target(c))
    BY <1>1, <1>3, EntersAlone, Zenon
<1>5. q[Target(c)] \in Seq(Nodes)
    BY <1>2, <1>3, Zenon
<1>6. prv[r[c].list] = End(q[Target(c)], Target(c)) /\ prv[r[c].list] \in Addrs
    BY <1>3, <1>4, <1>5, StopFacts, SMTT(30) DEF End
<1>7. MsgType'
    BY <1>1, <1>2, <1>6, ZenonT(30) DEF MsgType, Brings, Adds
<1>8. /\ pc'[c] = "add1" /\ r'[c].p = prv[r[c].list]
      /\ r'[c].node = r[c].node /\ r'[c].list = r[c].list
      /\ \A d \in CPUs \ {c} : pc'[d] = pc[d] /\ r'[d] = r[d]
    BY <1>1, <1>2, Zenon DEF MsgType
<1>9. Alone'
  <2>1. Alone /\ r'[c].list = event_list(Target(c))
    BY <1>3, <1>8, Zenon DEF Lists
  <2> QED
    BY <1>4, <1>8, <2>1, AloneEntered, ZenonT(30)
<1>10. Target(c)' = Target(c)
    BY <1>1, <1>8, Zenon DEF Target
<1>11. Placed(q, c)'
    BY <1>1, <1>3, <1>6, <1>8, <1>10, SMTT(30) DEF Placed, Brings, Adds, Handles, Dels, Keeps
<1>12. Has(c)' /\ Has(c) /\ pc[c] \notin Dels \cup Keeps
    BY <1>1, <1>8, Zenon DEF Has, Brings, Adds, Keeps, Dels
<1> QED
    BY <1>1, <1>7, <1>8, <1>9, <1>11, <1>12, QuietStep, Zenon

\* list_last_entry: the message is handled, and was not before.
LEMMA LastStep ==
    ASSUME NEW q, Lists(q), NEW c \in CPUs, list_last_entry(c), ~raced'
    PROVE  Lists(q)'
<1>1. /\ pc[c] = "last" /\ ~Occupied(c)
      /\ UNCHANGED <<nxt, prv, msg, inuse, sent>>
    BY Zenon DEF list_last_entry, list
<1>2. MsgType /\ Placed(q, c) /\ q \in [CPUs -> Seq(Nodes)] /\ Numbered /\ Kept(q)
    BY Zenon DEF Lists
<1>3. r[c].list = event_list(c) /\ Len(q[c]) # 0
    BY <1>1, <1>2, Zenon DEF Placed, Handles
<1>4. /\ prv[event_list(c)] = End(q[c], c)
      /\ \A d \in CPUs \ {c} : pc[d] \in Busy => r[d].list # event_list(c)
    BY <1>1, <1>3, EntersAlone, Zenon
<1> DEFINE n == q[c][Len(q[c])]
<1>5. prv[event_list(c)] = n /\ n \in Nodes /\ Len(q[c]) \in 1..Len(q[c])
    BY <1>2, <1>3, <1>4, StopFacts, SMTT(30)
<1>6. n \in inuse /\ msg[n] \in Messages /\ msg[n][1] = c /\ msg[n][2] < sent
    BY <1>2, <1>5, Zenon DEF Kept, Numbered, Apart
<1> HIDE DEF n
<1>7. /\ pc' = [pc EXCEPT ![c] = "load_prev"] /\ r' = [r EXCEPT ![c].node = n]
      /\ handled' = [handled EXCEPT ![c] = Append(handled[c], msg[n])]
    BY <1>3, <1>5, Zenon DEF list_last_entry, Goto
<1>8. MsgType'
  <2>1. [r[c] EXCEPT !.node = n] \in [node : Nodes \cup {Bad}, list : Heads \cup {Bad},
                                      p : Addrs \cup {Bad}, n : Addrs \cup {Bad}]
    BY <1>2, <1>5, ZenonT(30) DEF MsgType
  <2>2. r' \in [CPUs -> [node : Nodes \cup {Bad}, list : Heads \cup {Bad},
                         p : Addrs \cup {Bad}, n : Addrs \cup {Bad}]]
    BY <1>2, <1>7, <2>1, Zenon DEF MsgType
  <2>3. Append(handled[c], msg[n]) \in Seq(Messages)
    BY <1>2, <1>6 DEF MsgType
  <2>4. handled' \in [CPUs -> Seq(Messages)]
    BY <1>2, <1>7, <2>3, Zenon DEF MsgType
  <2>5. pc' \in [CPUs -> {"idle", "error", "sendipi"} \cup Brings \cup Handles]
    BY <1>2, <1>7, Zenon DEF MsgType, Handles, Dels
  <2> QED
    BY <1>1, <1>2, <2>2, <2>4, <2>5, Zenon DEF MsgType
<1>9. /\ pc'[c] = "load_prev" /\ r'[c].node = n /\ r'[c].list = r[c].list
      /\ \A d \in CPUs \ {c} : pc'[d] = pc[d] /\ r'[d] = r[d]
    BY <1>2, <1>7, Zenon DEF MsgType
<1>10. Placed(q, c)'
    BY <1>3, <1>9, Zenon DEF Placed, Brings, Adds, Handles, Dels, Keeps, n
<1>11. Alone'
  <2>1. Alone /\ r'[c].list = event_list(c)
    BY <1>3, <1>9, Zenon DEF Lists
  <2> QED
    BY <1>4, <1>9, <2>1, AloneEntered, ZenonT(30)
<1>12. ~Has(c)' /\ ~Has(c) /\ pc[c] \notin Dels \cup Keeps /\ pc'[c] \in Dels
    BY <1>1, <1>9, Zenon DEF Has, Brings, Adds, Keeps, Dels
<1>13. /\ Len(handled'[c]) = Len(handled[c]) + 1 /\ Len(handled[c]) \in Nat
       /\ handled'[c][Len(handled[c]) + 1] = msg[n]
       /\ \A k \in 1..Len(handled[c]) : handled'[c][k] = handled[c][k]
       /\ \A d \in CPUs \ {c} : handled'[d] = handled[d]
    BY <1>2, <1>6, <1>7, SMTT(30) DEF MsgType
<1>14. \A k \in 1..Len(handled[c]) :
          /\ handled[c][k][1] = c /\ handled[c][k][2] < sent
          /\ \A j \in 1..Len(handled[c]) : handled[c][j] = handled[c][k] => j = k
          /\ \A m \in inuse : msg[m] # handled[c][k]
    BY <1>2, <1>12, ZenonT(30) DEF Numbered, Told
<1>15. \A m \in inuse : msg[m] = msg[n] => m = n
    BY <1>2, <1>6, Zenon DEF Numbered, Apart
<1>16. Told(c)'
  <2> SUFFICES ASSUME NEW k \in 1..(Len(handled[c]) + 1)
               PROVE  /\ handled'[c][k][1] = c /\ handled'[c][k][2] < sent
                      /\ \A j \in 1..(Len(handled[c]) + 1) : handled'[c][j] = handled'[c][k] => j = k
                      /\ \A m \in inuse : msg[m] = handled'[c][k] => n = m
    BY <1>1, <1>9, <1>12, <1>13, ZenonT(30) DEF Told
  <2>1. k \in 1..Len(handled[c]) \/ k = Len(handled[c]) + 1
    BY <1>13, SMTT(30)
  <2>2. ASSUME NEW j \in 1..(Len(handled[c]) + 1)
        PROVE  j \in 1..Len(handled[c]) \/ j = Len(handled[c]) + 1
    BY <1>13, SMTT(30)
  <2>3. CASE k \in 1..Len(handled[c])
    <3>1. handled'[c][k] = handled[c][k]
      BY <1>13, <2>3, Zenon
    <3>2. handled[c][k] # msg[n]
      BY <1>6, <1>14, <2>3, Zenon
    <3>3. \A j \in 1..(Len(handled[c]) + 1) : handled'[c][j] = handled[c][k] => j = k
      BY <1>13, <1>14, <2>2, <2>3, <3>2, Zenon
    <3> QED
      BY <1>14, <2>3, <3>1, <3>3, Zenon
  <2>4. CASE k = Len(handled[c]) + 1
    <3>1. handled'[c][k] = msg[n]
      BY <1>13, <2>4, Zenon
    <3>2. \A j \in 1..(Len(handled[c]) + 1) : handled'[c][j] = msg[n] => j = k
      <4>1. ASSUME NEW j \in 1..Len(handled[c]) PROVE handled'[c][j] # msg[n]
        <5>1. handled'[c][j] = handled[c][j] /\ handled[c][j] # msg[n]
          BY <1>6, <1>13, <1>14, ZenonT(30)
        <5> QED
          BY <5>1, Zenon
      <4> QED
        BY <2>2, <2>4, <4>1, Zenon
    <3> QED
      BY <1>6, <1>15, <3>1, <3>2, Zenon
  <2> QED
    BY <2>1, <2>3, <2>4, Zenon
<1>17. ASSUME NEW d \in CPUs PROVE Told(d)'
  <2>1. CASE d = c
    BY <1>16, <2>1, Zenon
  <2>2. CASE d # c
    BY <1>1, <1>2, <1>9, <1>13, <2>2, ToldKept, Zenon DEF Numbered
  <2> QED
    BY <2>1, <2>2, Zenon
<1>18. Apart'
    BY <1>1, <1>2, Zenon DEF Numbered, Apart
<1>19. Numbered'
    BY <1>17, <1>18, Zenon DEF Numbered
<1> QED
    BY <1>1, <1>8, <1>9, <1>10, <1>11, <1>12, <1>19, MoveStep, Zenon

\* Only the places of CPU c change in a step of c.
LEMMA OnlyHere ==
    ASSUME NEW c \in CPUs, NEW p, MsgType, pc' = [pc EXCEPT ![c] = p], r' = r
    PROVE  /\ pc'[c] = p /\ r'[c] = r[c]
           /\ \A d \in CPUs \ {c} : pc'[d] = pc[d] /\ r'[d] = r[d]
    BY Zenon DEF MsgType

\* A node in nobody's list that a CPU brings or has taken out.
LEMMA Apartness ==
    ASSUME NEW q, Lists(q), NEW c \in CPUs, Has(c)
    PROVE  /\ r[c].node \in Nodes /\ r[c].node \in inuse
           /\ \A d \in CPUs : \A k \in Int : Stop(q[d], d, k) # r[c].node
           /\ \A d \in CPUs \ {c} : Has(d) => r[d].node # r[c].node
<1>1. r[c].node \in inuse /\ r[c].node \in Nodes
    BY Zenon DEF Lists, Placed, Has, MsgType
<1>2. ASSUME NEW d \in CPUs, NEW k \in Int PROVE Stop(q[d], d, k) # r[c].node
    BY <1>1, HeadFacts, SMTT(30) DEF Stop, Lists, Kept
<1>3. \A d \in CPUs \ {c} : Has(d) => r[d].node # r[c].node
    BY Zenon DEF Lists, Kept
<1> QED
    BY <1>1, <1>2, <1>3, ZenonT(30)

\* A CPU that brings a node works on the list of the CPU that the message is for.
LEMMA BringsTo ==
    ASSUME NEW q, Lists(q), NEW c \in CPUs, pc[c] \in Brings
    PROVE  /\ Target(c) \in CPUs /\ r[c].list = event_list(Target(c))
           /\ r[c].list \in Addrs /\ r[c].list # Bad
           /\ q[Target(c)] \in Seq(Nodes)
           /\ pc[c] \in Adds => r[c].p = End(q[Target(c)], Target(c)) /\ r[c].p \in Addrs /\ r[c].p # Bad
<1>1. r[c].node \in inuse /\ r[c].list = event_list(Target(c)) /\ Target(c) \in CPUs
    BY Zenon DEF Lists, Placed, Numbered, Apart, Messages, Target
<1>2. q[Target(c)] \in Seq(Nodes)
    BY <1>1, Zenon DEF Lists
<1>3. r[c].list \in Addrs /\ r[c].list # Bad
    BY <1>1, HeadFacts, Zenon
<1>4. ASSUME pc[c] \in Adds PROVE r[c].p = End(q[Target(c)], Target(c))
    BY <1>4, Zenon DEF Lists, Placed
<1>5. End(q[Target(c)], Target(c)) \in Addrs
    BY <1>1, <1>2, StopFacts, SMTT(30) DEF End
<1>6. End(q[Target(c)], Target(c)) # Bad
    BY <1>5, HeadFacts, Zenon
<1> QED
    BY <1>1, <1>2, <1>3, <1>4, <1>5, <1>6, Zenon

\* A CPU stores to a list without getting or giving up a node.
LEMMA StoreStep ==
    ASSUME NEW q, Lists(q), NEW c \in CPUs, NEW p, pc' = [pc EXCEPT ![c] = p],
           UNCHANGED <<msg, inuse, r, sent, handled>>, MsgType',
           p \in Brings \cup Keeps <=> Has(c),
           pc[c] \in Dels \cup Keeps => p \in Dels \cup Keeps,
           p \in Busy => pc[c] \in Busy,
           Chained(q)', Tailed(q)', Placed(q, c)',
           \A d \in CPUs \ {c} : pc[d] \in {"add3", "add4"} =>
               nxt'[r[d].node] = nxt[r[d].node] /\ prv'[r[d].node] = prv[r[d].node]
    PROVE  Lists(q)'
<1>1. /\ pc'[c] = p /\ r'[c] = r[c]
      /\ \A d \in CPUs \ {c} : pc'[d] = pc[d] /\ r'[d] = r[d]
    BY OnlyHere, Zenon DEF Lists
<1>2. Alone'
    BY <1>1, AloneKept, Zenon DEF Lists
<1>3. ASSUME NEW d \in CPUs PROVE Placed(q, d)'
  <2>1. CASE d = c
    BY <2>1, Zenon
  <2>2. CASE d # c
    BY <1>1, <2>2, OthersPlaced, Zenon DEF Lists
  <2> QED
    BY <2>1, <2>2, Zenon
<1>4. Kept(q)'
  <2>1. \A d \in CPUs : (Has(d)' <=> Has(d)) /\ r'[d].node = r[d].node
    BY <1>1, Zenon DEF Has
  <2>2. Kept(q)
    BY Zenon DEF Lists
  <2> QED
    BY <2>1, <2>2, KeptStays, SMTT(30)
<1>5. Apart'
    BY Zenon DEF Lists, Numbered, Apart
<1>6. ASSUME NEW d \in CPUs PROVE Told(d)'
    BY <1>1, ToldKept, Zenon DEF Lists, Numbered
<1>7. Numbered'
    BY <1>5, <1>6, Zenon DEF Numbered
<1> QED
    BY <1>2, <1>3, <1>4, <1>7, Zenon DEF Lists

\* __list_add: head->prev = new.
LEMMA Add1Step ==
    ASSUME NEW q, Lists(q), NEW c \in CPUs, list_add1(c)
    PROVE  Lists(q)'
<1>1. MsgType /\ pc[c] = "add1" /\ Has(c) /\ pc[c] \in Brings /\ pc[c] \in Adds /\ Placed(q, c)
    BY Zenon DEF Lists, list_add1, Has, Brings, Adds
<1> DEFINE t == Target(c)
           h == r[c].list
           x == r[c].node
<1>2. /\ t \in CPUs /\ h = event_list(t) /\ h \in Addrs /\ h # Bad
      /\ x \in Nodes /\ x \in inuse
      /\ \A d \in CPUs : \A k \in Int : Stop(q[d], d, k) # x
    BY <1>1, BringsTo, Apartness, Zenon
<1>3. /\ pc' = [pc EXCEPT ![c] = "add2"] /\ prv' = [prv EXCEPT ![h] = x]
      /\ UNCHANGED <<nxt, msg, inuse, r, sent, handled>>
    BY <1>2, Zenon DEF list_add1, Store, Goto
<1>4. /\ pc'[c] = "add2" /\ r'[c] = r[c]
      /\ \A d \in CPUs \ {c} : pc'[d] = pc[d] /\ r'[d] = r[d]
    BY <1>1, <1>3, OnlyHere, Zenon
<1>5. MsgType'
    BY <1>1, <1>2, <1>3, HeadFacts, Zenon DEF MsgType, Brings, Adds
<1>6. /\ prv'[h] = x /\ \A a \in Addrs : a # h => prv'[a] = prv[a]
    BY <1>1, <1>2, <1>3, Zenon DEF MsgType
<1>8. Chained(q)'
  <2>1. \A d \in CPUs : \A k \in 1..Len(q[d]) : q[d][k] \in Nodes /\ q[d][k] # h
    BY <1>2, HeadFacts DEF Lists
  <2> QED
    BY <1>3, <1>6, <2>1, HeadFacts, ZenonT(30) DEF Lists, Chained
<1>9. Tailed(q)'
  <2>1. ASSUME NEW d \in CPUs, pc'[d] \in {"add2", "add3", "add4"} PROVE prv'[r'[d].list] = r'[d].node
    <3>1. CASE d = c
      BY <1>4, <1>6, <3>1, Zenon
    <3>2. CASE d # c
      <4>1. pc[d] \in {"add2", "add3", "add4"} /\ pc[d] \in Busy /\ pc[c] \in Busy
        BY <1>1, <1>4, <2>1, <3>2, Zenon DEF Busy, Adds
      <4>2. r[d].list # h /\ prv[r[d].list] = r[d].node
        BY <3>2, <4>1, Zenon DEF Lists, Alone, Tailed
      <4>3. r[d].list \in Addrs
        BY <4>1, BringsTo, Zenon DEF Brings, Adds
      <4> QED
        BY <1>4, <1>6, <3>2, <4>2, <4>3, Zenon
    <3> QED
      BY <3>1, <3>2, Zenon
  <2>2. ASSUME NEW d \in CPUs, pc'[d] = "del2" PROVE prv'[event_list(d)] = r'[d].p
    <3>1. d # c /\ pc[d] = "del2" /\ pc[d] \in Busy /\ pc[c] \in Busy
      BY <1>1, <1>4, <2>2, Zenon DEF Busy, Dels, Adds
    <3>2. r[d].list = event_list(d) /\ prv[event_list(d)] = r[d].p
      BY <3>1, Zenon DEF Lists, Placed, Handles, Dels, Tailed
    <3>3. event_list(d) # h
      BY <3>1, <3>2, Zenon DEF Lists, Alone
    <3> QED
      BY <1>4, <1>6, <3>1, <3>2, <3>3, HeadFacts, Zenon
  <2>3. ASSUME NEW d \in CPUs, pc'[d] # "del2",
               \A e \in CPUs : pc'[e] \in {"add2", "add3", "add4"} => r'[e].list # event_list(d)
        PROVE  prv'[event_list(d)] = End(q[d], d)
    <3>1. event_list(d) # h
      BY <1>4, <2>3, Zenon
    <3>2. pc[d] # "del2"
      BY <1>1, <1>4, <2>3, Zenon
    <3>3. \A e \in CPUs : pc[e] \in {"add2", "add3", "add4"} => r[e].list # event_list(d)
      BY <1>1, <1>4, <2>3, Zenon
    <3>4. prv[event_list(d)] = End(q[d], d)
      BY <3>2, <3>3, Zenon DEF Lists, Tailed
    <3> QED
      BY <1>6, <3>1, <3>4, HeadFacts, Zenon
  <2> QED
    BY <2>1, <2>2, <2>3, Zenon DEF Tailed
<1>10. Placed(q, c)'
    BY <1>1, <1>3, <1>4, Zenon DEF Placed, Target, Brings, Adds, Handles, Dels, Keeps
<1>11. \A d \in CPUs \ {c} : pc[d] \in {"add3", "add4"} =>
           nxt'[r[d].node] = nxt[r[d].node] /\ prv'[r[d].node] = prv[r[d].node]
  <2>1. ASSUME NEW d \in CPUs, pc[d] \in {"add3", "add4"}
        PROVE  r[d].node \in Addrs /\ r[d].node # h
    BY <1>2, <2>1, HeadFacts, Apartness, SMTT(30) DEF Has, Brings, Adds
  <2> QED
    BY <1>3, <1>6, <2>1, Zenon
<1>12. "add2" \in Brings \cup Keeps /\ pc[c] \notin Dels \cup Keeps /\ pc[c] \in Busy
    BY <1>1, Zenon DEF Brings, Adds, Dels, Keeps, Busy
<1> QED
    BY <1>1, <1>3, <1>5, <1>8, <1>9, <1>10, <1>11, <1>12, StoreStep, ZenonT(30)

\* new->next = head
LEMMA Add2Step ==
    ASSUME NEW q, Lists(q), NEW c \in CPUs, list_add2(c)
    PROVE  Lists(q)'
<1>1. MsgType /\ pc[c] = "add2" /\ Has(c) /\ pc[c] \in Brings /\ pc[c] \in Adds /\ Placed(q, c)
    BY Zenon DEF Lists, list_add2, Has, Brings, Adds
<1> DEFINE h == r[c].list
           x == r[c].node
<1>2. /\ h \in Addrs /\ x \in Nodes /\ x \in Addrs /\ x # Bad
      /\ \A d \in CPUs : \A k \in Int : Stop(q[d], d, k) # x
      /\ \A d \in CPUs \ {c} : Has(d) => r[d].node # x
  <2>1. h \in Addrs
    BY <1>1, BringsTo, Zenon
  <2>2. /\ x \in Nodes
        /\ \A d \in CPUs : \A k \in Int : Stop(q[d], d, k) # x
        /\ \A d \in CPUs \ {c} : Has(d) => r[d].node # x
    BY <1>1, Apartness, Zenon
  <2> QED
    BY <2>1, <2>2, HeadFacts, Zenon
<1>3. /\ pc' = [pc EXCEPT ![c] = "add3"] /\ nxt' = [nxt EXCEPT ![x] = h]
      /\ UNCHANGED <<prv, msg, inuse, r, sent, handled>>
    BY <1>2, Zenon DEF list_add2, Store, Goto
<1>4. /\ pc'[c] = "add3" /\ r'[c] = r[c]
      /\ \A d \in CPUs \ {c} : pc'[d] = pc[d] /\ r'[d] = r[d]
    BY <1>1, <1>3, OnlyHere, Zenon
<1>5. MsgType'
    BY <1>1, <1>2, <1>3, Zenon DEF MsgType, Brings, Adds
<1>6. nxt'[x] = h /\ \A a \in Addrs : a # x => nxt'[a] = nxt[a]
    BY <1>1, <1>2, <1>3, Zenon DEF MsgType
<1>7. Chained(q)'
  <2>1. \A d \in CPUs : \A k \in Int : nxt'[Stop(q[d], d, k)] = nxt[Stop(q[d], d, k)]
    BY <1>2, <1>6, StopFacts, Zenon DEF Lists
  <2>2. \A d \in CPUs : Len(q[d]) \in Nat
    BY SMTT(30) DEF Lists
  <2> QED
    BY <1>3, <2>1, <2>2, SMTT(30) DEF Lists, Chained
<1>8. Tailed(q)'
    BY <1>1, <1>3, <1>4, SMTT(30) DEF Lists, Tailed
<1>9. Placed(q, c)'
    BY <1>1, <1>3, <1>4, <1>6, Zenon DEF Placed, Target, Brings, Adds, Handles, Dels, Keeps
<1>10. \A d \in CPUs \ {c} : pc[d] \in {"add3", "add4"} =>
           nxt'[r[d].node] = nxt[r[d].node] /\ prv'[r[d].node] = prv[r[d].node]
  <2>1. ASSUME NEW d \in CPUs \ {c}, pc[d] \in {"add3", "add4"}
        PROVE  r[d].node \in Addrs /\ r[d].node # x
    BY <1>2, <2>1, HeadFacts, Apartness, Zenon DEF Has, Brings, Adds
  <2> QED
    BY <1>3, <1>6, <2>1, Zenon
<1>11. "add3" \in Brings \cup Keeps /\ pc[c] \notin Dels \cup Keeps /\ pc[c] \in Busy
    BY <1>1, Zenon DEF Brings, Adds, Dels, Keeps, Busy
<1> QED
    BY <1>1, <1>3, <1>5, <1>7, <1>8, <1>9, <1>10, <1>11, StoreStep, Zenon

\* new->prev = prev
LEMMA Add3Step ==
    ASSUME NEW q, Lists(q), NEW c \in CPUs, list_add3(c)
    PROVE  Lists(q)'
<1>1. MsgType /\ pc[c] = "add3" /\ Has(c) /\ pc[c] \in Brings /\ pc[c] \in Adds /\ Placed(q, c)
    BY Zenon DEF Lists, list_add3, Has, Brings, Adds
<1> DEFINE p == r[c].p
           x == r[c].node
<1>2. /\ p \in Addrs /\ x \in Nodes /\ x \in Addrs /\ x # Bad
      /\ \A d \in CPUs : \A k \in Int : Stop(q[d], d, k) # x
      /\ \A d \in CPUs \ {c} : Has(d) => r[d].node # x
  <2>1. p \in Addrs
    BY <1>1, BringsTo, Zenon
  <2>2. /\ x \in Nodes
        /\ \A d \in CPUs : \A k \in Int : Stop(q[d], d, k) # x
        /\ \A d \in CPUs \ {c} : Has(d) => r[d].node # x
    BY <1>1, Apartness, Zenon
  <2> QED
    BY <2>1, <2>2, HeadFacts, Zenon
<1>3. /\ pc' = [pc EXCEPT ![c] = "add4"] /\ prv' = [prv EXCEPT ![x] = p]
      /\ UNCHANGED <<nxt, msg, inuse, r, sent, handled>>
    BY <1>2, Zenon DEF list_add3, Store, Goto
<1>4. /\ pc'[c] = "add4" /\ r'[c] = r[c]
      /\ \A d \in CPUs \ {c} : pc'[d] = pc[d] /\ r'[d] = r[d]
    BY <1>1, <1>3, OnlyHere, Zenon
<1>5. MsgType'
    BY <1>1, <1>2, <1>3, Zenon DEF MsgType, Brings, Adds
<1>6. prv'[x] = p /\ \A a \in Addrs : a # x => prv'[a] = prv[a]
    BY <1>1, <1>2, <1>3, Zenon DEF MsgType
<1>7. Chained(q)'
  <2>1. \A d \in CPUs : \A k \in 1..Len(q[d]) : q[d][k] \in Addrs /\ q[d][k] # x
    BY <1>1, HeadFacts, SMTT(30) DEF Lists, Kept
  <2>2. \A d \in CPUs : \A k \in 1..Len(q[d]) : prv'[q[d][k]] = prv[q[d][k]]
    BY <1>6, <2>1, ZenonT(30)
  <2> QED
    BY <1>3, <2>2, SMTT(30) DEF Lists, Chained
<1>8. Tailed(q)'
  <2>1. \A d \in CPUs : prv'[event_list(d)] = prv[event_list(d)]
    BY <1>2, <1>6, HeadFacts, Zenon
  <2>2. \A d \in CPUs : pc[d] \in {"add2", "add3", "add4"} => prv'[r[d].list] = prv[r[d].list]
    BY <2>1, BringsTo, Zenon DEF Brings, Adds
  <2>3. \A d \in CPUs : /\ pc'[d] \in {"add2", "add3", "add4"} <=> pc[d] \in {"add2", "add3", "add4"}
                        /\ pc'[d] = "del2" <=> pc[d] = "del2"
    BY <1>1, <1>4, Zenon
  <2> QED
    BY <1>3, <2>1, <2>2, <2>3, SMTT(30) DEF Lists, Tailed
<1>9. Placed(q, c)'
    BY <1>1, <1>3, <1>4, <1>6, Zenon DEF Placed, Target, Brings, Adds, Handles, Dels, Keeps
<1>10. \A d \in CPUs \ {c} : pc[d] \in {"add3", "add4"} =>
           nxt'[r[d].node] = nxt[r[d].node] /\ prv'[r[d].node] = prv[r[d].node]
  <2>1. ASSUME NEW d \in CPUs \ {c}, pc[d] \in {"add3", "add4"}
        PROVE  r[d].node \in Addrs /\ r[d].node # x
    BY <1>2, <2>1, HeadFacts, Apartness, Zenon DEF Has, Brings, Adds
  <2> QED
    BY <1>3, <1>6, <2>1, Zenon
<1>11. "add4" \in Brings \cup Keeps /\ pc[c] \notin Dels \cup Keeps /\ pc[c] \in Busy
    BY <1>1, Zenon DEF Brings, Adds, Dels, Keeps, Busy
<1> QED
    BY <1>1, <1>3, <1>5, <1>7, <1>8, <1>9, <1>10, <1>11, StoreStep, Zenon

\* A CPU inside list_del: its own list, its last node and the two links loaded.
LEMMA DeletesFrom ==
    ASSUME NEW q, Lists(q), NEW c \in CPUs, pc[c] \in {"del1", "del2"}
    PROVE  /\ r[c].list = event_list(c) /\ r[c].n = event_list(c)
           /\ q[c] \in Seq(Nodes) /\ Len(q[c]) \in 1..Len(q[c])
           /\ r[c].node = q[c][Len(q[c])] /\ r[c].node \in Nodes
           /\ r[c].p = Stop(q[c], c, Len(q[c]) - 1)
           /\ r[c].p \in Addrs /\ r[c].p # Bad
           /\ \A d \in CPUs \ {c} : pc[d] \in Busy => r[d].list # event_list(c)
<1>1. q[c] \in Seq(Nodes) /\ Placed(q, c)
    BY Zenon DEF Lists
<1>2. /\ r[c].list = event_list(c) /\ r[c].n = event_list(c) /\ Len(q[c]) # 0
      /\ r[c].node = q[c][Len(q[c])] /\ r[c].p = Stop(q[c], c, Len(q[c]) - 1)
    BY <1>1, Zenon DEF Placed, Handles, Dels
<1>3. Len(q[c]) \in 1..Len(q[c])
    BY <1>1, <1>2, SMTT(30)
<1>4. r[c].p \in Addrs /\ r[c].p # Bad
    BY <1>1, <1>2, StopFacts, HeadFacts, SMTT(30)
<1>5. \A d \in CPUs \ {c} : pc[d] \in Busy => r[d].list # event_list(c)
    BY <1>2, Zenon DEF Lists, Alone, Busy, Dels
<1> QED
    BY <1>1, <1>2, <1>3, <1>4, <1>5, SMTT(30)

\* next->prev = prev
LEMMA Del1Step ==
    ASSUME NEW q, Lists(q), NEW c \in CPUs, list_del1(c)
    PROVE  Lists(q)'
<1>1. MsgType /\ pc[c] = "del1" /\ ~Has(c) /\ Placed(q, c)
    BY Zenon DEF Lists, list_del1, Has, Brings, Adds, Keeps
<1> DEFINE h == event_list(c)
           p == r[c].p
<1>2. /\ r[c].n = h /\ h \in Addrs /\ h # Bad /\ p \in Addrs
      /\ \A d \in CPUs \ {c} : pc[d] \in Busy => r[d].list # h
    BY <1>1, DeletesFrom, HeadFacts, Zenon
<1>3. /\ pc' = [pc EXCEPT ![c] = "del2"] /\ prv' = [prv EXCEPT ![h] = p]
      /\ UNCHANGED <<nxt, msg, inuse, r, sent, handled>>
    BY <1>2, Zenon DEF list_del1, Store, Goto
<1>4. /\ pc'[c] = "del2" /\ r'[c] = r[c]
      /\ \A d \in CPUs \ {c} : pc'[d] = pc[d] /\ r'[d] = r[d]
    BY <1>1, <1>3, OnlyHere, Zenon
<1>5. MsgType'
    BY <1>1, <1>2, <1>3, Zenon DEF MsgType, Handles, Dels
<1>6. prv'[h] = p /\ \A a \in Addrs : a # h => prv'[a] = prv[a]
    BY <1>1, <1>2, <1>3, Zenon DEF MsgType
<1>7. Chained(q)'
  <2>1. \A d \in CPUs : \A k \in 1..Len(q[d]) : q[d][k] \in Addrs /\ q[d][k] # h
    BY HeadFacts, SMTT(30) DEF Lists
  <2>2. \A d \in CPUs : \A k \in 1..Len(q[d]) : prv'[q[d][k]] = prv[q[d][k]]
    BY <1>6, <2>1, Zenon
  <2> QED
    BY <1>3, <2>2, SMTT(30) DEF Lists, Chained
<1>8. Tailed(q)'
  <2>1. ASSUME NEW d \in CPUs, pc'[d] \in {"add2", "add3", "add4"} PROVE prv'[r'[d].list] = r'[d].node
    <3>1. d # c /\ pc[d] \in {"add2", "add3", "add4"} /\ pc[d] \in Busy /\ pc[d] \in Brings
      BY <1>4, <2>1, Zenon DEF Busy, Adds, Brings
    <3>2. r[d].list # h /\ r[d].list \in Addrs /\ prv[r[d].list] = r[d].node
      BY <1>2, <3>1, BringsTo, Zenon DEF Lists, Tailed
    <3> QED
      BY <1>4, <1>6, <3>1, <3>2, Zenon
  <2>2. ASSUME NEW d \in CPUs, pc'[d] = "del2" PROVE prv'[event_list(d)] = r'[d].p
    <3>1. CASE d = c
      BY <1>4, <1>6, <3>1, Zenon
    <3>2. CASE d # c
      <4>1. prv[event_list(d)] = r[d].p /\ event_list(d) # h
        BY <1>4, <2>2, <3>2, HeadFacts, Zenon DEF Lists, Tailed
      <4> QED
        BY <1>4, <1>6, <3>2, <4>1, HeadFacts, Zenon
    <3> QED
      BY <3>1, <3>2, Zenon
  <2>3. ASSUME NEW d \in CPUs, pc'[d] # "del2",
               \A e \in CPUs : pc'[e] \in {"add2", "add3", "add4"} => r'[e].list # event_list(d)
        PROVE  prv'[event_list(d)] = End(q[d], d)
    <3>1. d # c /\ event_list(d) # h
      BY <1>4, <2>3, HeadFacts, Zenon
    <3>2. pc[d] # "del2" /\ \A e \in CPUs : pc[e] \in {"add2", "add3", "add4"} => r[e].list # event_list(d)
      BY <1>1, <1>4, <2>3, <3>1, Zenon
    <3>3. prv[event_list(d)] = End(q[d], d)
      BY <3>2, Zenon DEF Lists, Tailed
    <3> QED
      BY <1>6, <3>1, <3>3, HeadFacts, Zenon
  <2> QED
    BY <2>1, <2>2, <2>3, Zenon DEF Tailed
<1>9. Placed(q, c)'
    BY <1>1, <1>3, <1>4, Zenon DEF Placed, Target, Brings, Adds, Handles, Dels, Keeps
<1>10. \A d \in CPUs \ {c} : pc[d] \in {"add3", "add4"} =>
           nxt'[r[d].node] = nxt[r[d].node] /\ prv'[r[d].node] = prv[r[d].node]
  <2>1. ASSUME NEW d \in CPUs, pc[d] \in {"add3", "add4"}
        PROVE  r[d].node \in Addrs /\ r[d].node # h
    BY <2>1, HeadFacts, Apartness, Zenon DEF Has, Brings, Adds
  <2> QED
    BY <1>3, <1>6, <2>1, Zenon
<1>11. "del2" \notin Brings \cup Keeps /\ "del2" \in Dels /\ pc[c] \in Busy
    BY <1>1, Zenon DEF Brings, Adds, Dels, Keeps, Busy
<1> QED
    BY <1>1, <1>3, <1>5, <1>7, <1>8, <1>9, <1>10, <1>11, StoreStep, ZenonT(30)

\* entry->next = LIST_POISON1, entry->prev = LIST_POISON2: the node is on no list.
LEMMA PoisonStep ==
    ASSUME NEW q, Lists(q), NEW c \in CPUs, list_poison(c)
    PROVE  Lists(q)'
<1>1. MsgType /\ pc[c] = "poison" /\ Has(c) /\ Placed(q, c)
    BY Zenon DEF Lists, list_poison, Has, Brings, Adds, Keeps
<1> DEFINE x == r[c].node
<1>2. /\ x \in Nodes /\ x \in Addrs
      /\ \A d \in CPUs : \A k \in Int : Stop(q[d], d, k) # x
      /\ \A d \in CPUs \ {c} : Has(d) => r[d].node # x
    BY <1>1, Apartness, HeadFacts, Zenon
<1>3. /\ pc' = [pc EXCEPT ![c] = "free"]
      /\ nxt' = [nxt EXCEPT ![x] = Bad] /\ prv' = [prv EXCEPT ![x] = Bad]
      /\ UNCHANGED <<msg, inuse, r, sent, handled>>
    BY <1>2, Zenon DEF list_poison, Goto
<1>4. /\ pc'[c] = "free" /\ r'[c] = r[c]
      /\ \A d \in CPUs \ {c} : pc'[d] = pc[d] /\ r'[d] = r[d]
    BY <1>1, <1>3, OnlyHere, Zenon
<1>5. MsgType'
    BY <1>1, <1>2, <1>3, Zenon DEF MsgType, Handles, Keeps
<1>6. \A a \in Addrs : a # x => nxt'[a] = nxt[a] /\ prv'[a] = prv[a]
    BY <1>1, <1>2, <1>3, Zenon DEF MsgType
<1>7. Chained(q)'
  <2>1. \A d \in CPUs : \A k \in Int : nxt'[Stop(q[d], d, k)] = nxt[Stop(q[d], d, k)]
    BY <1>2, <1>6, StopFacts, ZenonT(30) DEF Lists
  <2>2. \A d \in CPUs : Len(q[d]) \in Nat
    BY DEF Lists
  <2>3. \A d \in CPUs : \A k \in 1..Len(q[d]) : q[d][k] \in Addrs /\ q[d][k] # x
    BY <1>1, HeadFacts, SMTT(30) DEF Lists, Kept
  <2>4. \A d \in CPUs : \A k \in 1..Len(q[d]) : prv'[q[d][k]] = prv[q[d][k]]
    BY <1>6, <2>3, ZenonT(30)
  <2> QED
    BY <2>1, <2>2, <2>4, SMTT(30) DEF Lists, Chained
<1>8. Tailed(q)'
  <2>1. \A d \in CPUs : prv'[event_list(d)] = prv[event_list(d)]
    BY <1>2, <1>6, HeadFacts, Zenon
  <2>2. \A d \in CPUs : pc[d] \in {"add2", "add3", "add4"} => prv'[r[d].list] = prv[r[d].list]
    BY <2>1, BringsTo, Zenon DEF Brings, Adds
  <2>3. \A d \in CPUs : /\ pc'[d] \in {"add2", "add3", "add4"} <=> pc[d] \in {"add2", "add3", "add4"}
                        /\ pc'[d] = "del2" <=> pc[d] = "del2"
    BY <1>1, <1>4, Zenon
  <2> QED
    BY <1>3, <2>1, <2>2, <2>3, ZenonT(30) DEF Lists, Tailed
<1>9. Placed(q, c)'
    BY <1>1, <1>3, <1>4, Zenon DEF Placed, Target, Brings, Adds, Handles, Dels, Keeps
<1>10. \A d \in CPUs \ {c} : pc[d] \in {"add3", "add4"} =>
           nxt'[r[d].node] = nxt[r[d].node] /\ prv'[r[d].node] = prv[r[d].node]
  <2>1. ASSUME NEW d \in CPUs \ {c}, pc[d] \in {"add3", "add4"}
        PROVE  r[d].node \in Addrs /\ r[d].node # x
    BY <1>2, <2>1, HeadFacts, Apartness, Zenon DEF Has, Brings, Adds
  <2> QED
    BY <1>6, <2>1, Zenon
<1>11. "free" \in Keeps /\ "free" \notin Busy
    BY Zenon DEF Dels, Keeps, Busy, Adds
<1> QED
    BY <1>1, <1>3, <1>5, <1>7, <1>8, <1>9, <1>10, <1>11, StoreStep, ZenonT(30)

\* objpool_free: the node is on no list and in no other CPU's hands.
LEMMA FreeStep ==
    ASSUME NEW q, Lists(q), NEW c \in CPUs, objpool_free(c)
    PROVE  Lists(q)'
<1>1. MsgType /\ pc[c] = "free" /\ Has(c) /\ Placed(q, c) /\ Kept(q) /\ Numbered
    BY Zenon DEF Lists, objpool_free, Has, Brings, Adds, Keeps
<1> DEFINE x == r[c].node
<1>2. /\ x \in Nodes
      /\ \A d \in CPUs \ {c} : Has(d) => r[d].node # x
    BY <1>1, Apartness, Zenon
<1>3. /\ pc' = [pc EXCEPT ![c] = "empty?"] /\ inuse' = inuse \ {x}
      /\ r' = [r EXCEPT ![c] = Regs(Bad, event_list(c))]
      /\ UNCHANGED <<nxt, prv, msg, sent, handled>>
    BY Zenon DEF objpool_free, Goto, list
<1>4. /\ Regs(Bad, event_list(c)) \in [node : Nodes \cup {Bad}, list : Heads \cup {Bad},
                                       p : Addrs \cup {Bad}, n : Addrs \cup {Bad}]
      /\ Regs(Bad, event_list(c)).list = event_list(c)
    BY RegsType, HeadFacts
<1>5. MsgType'
    BY <1>1, <1>3, <1>4, Zenon DEF MsgType, Handles
<1>6. /\ pc'[c] = "empty?" /\ r'[c].list = event_list(c)
      /\ \A d \in CPUs \ {c} : pc'[d] = pc[d] /\ r'[d] = r[d]
    BY <1>1, <1>3, <1>4, Zenon DEF MsgType
<1>7. Chained(q)'
    BY <1>3, ChainKept, Zenon DEF Lists
<1>8. Tailed(q)'
  <2>1. pc[c] \notin {"add2", "add3", "add4", "del2"} /\ pc'[c] \notin {"add2", "add3", "add4", "del2"}
    BY <1>1, <1>6, Zenon
  <2> QED
    BY <1>3, <1>6, <2>1, TailKept, Zenon DEF Lists
<1>9. ASSUME NEW d \in CPUs PROVE Placed(q, d)'
  <2>1. CASE d = c
    BY <1>6, <2>1, ZenonT(30) DEF Placed, Brings, Adds, Handles, Dels, Keeps
  <2>2. CASE d # c
    <3>1. Placed(q, d) /\ (Has(d) => r[d].node # x)
      BY <1>2, <2>2, Zenon DEF Lists
    <3> QED
      BY <1>3, <1>6, <2>2, <3>1, SMTT(30) DEF Placed, Target, Has, Brings, Adds, Keeps
  <2> QED
    BY <2>1, <2>2, Zenon
<1>10. Alone'
    BY <1>6, AloneKept, Zenon DEF Lists, Busy, Adds, Dels
<1>11. Kept(q)'
  <2>1. ~Has(c)' /\ \A d \in CPUs \ {c} : (Has(d)' <=> Has(d)) /\ r'[d].node = r[d].node
    BY <1>6, Zenon DEF Has, Brings, Adds, Keeps
  <2>2. \A d \in CPUs : \A k \in 1..Len(q[d]) : q[d][k] # x
    BY <1>1, Zenon DEF Kept
  <2>3. /\ \A d \in CPUs : \A k \in 1..Len(q[d]) :
             /\ q[d][k] \in inuse' /\ msg'[q[d][k]][1] = d
             /\ \A j \in 1..Len(q[d]) : q[d][j] = q[d][k] => j = k
    BY <1>1, <1>3, <2>2, ZenonT(30) DEF Kept
  <2>4. /\ \A d \in CPUs : Has(d)' => \A e \in CPUs : \A k \in 1..Len(q[e]) : q[e][k] # r'[d].node
        /\ \A d, e \in CPUs : Has(d)' /\ Has(e)' /\ r'[d].node = r'[e].node => d = e
    BY <1>1, <2>1, SMTT(30) DEF Kept
  <2>5. ASSUME NEW n \in inuse'
        PROVE  \/ \E k \in 1..Len(q[msg[n][1]]) : q[msg[n][1]][k] = n
               \/ \E d \in CPUs : Has(d)' /\ r'[d].node = n
    <3>1. n \in inuse /\ n # x
      BY <1>3, Zenon
    <3>2. (\E k \in 1..Len(q[msg[n][1]]) : q[msg[n][1]][k] = n) \/ \E d \in CPUs : Has(d) /\ r[d].node = n
      BY <1>1, <3>1, Zenon DEF Kept
    <3> QED
      BY <2>1, <3>1, <3>2, Zenon
  <2> QED
    BY <1>3, <2>3, <2>4, <2>5, Zenon DEF Kept
<1>12. Numbered'
  <2>1. inuse' \subseteq inuse /\ x \notin inuse'
    BY <1>3, Zenon
  <2>2. Apart'
    BY <1>1, <1>3, <2>1, Zenon DEF Numbered, Apart
  <2>3. ASSUME NEW d \in CPUs PROVE Told(d)'
    BY <1>1, <1>3, <1>6, <2>1, ToldKept, Zenon DEF Numbered
  <2> QED
    BY <2>2, <2>3, Zenon DEF Numbered
<1> QED
    BY <1>5, <1>7, <1>8, <1>9, <1>10, <1>11, <1>12, ZenonT(30) DEF Lists

\* A set of naturals that is not empty has a least member.
LEMMA LeastOf ==
    ASSUME NEW S \in SUBSET Nat, S # {}
    PROVE  \E n \in S : \A m \in S : n <= m
<1>1. PICK x \in S : \A y \in S : ~(<<y, x>> \in OpToRel(<, Nat))
    BY WFMin, NatLessThanWellFounded, Zenon
<1>2. \A y \in S : <<y, x>> \in OpToRel(<, Nat) <=> y < x
    BY Zenon DEF OpToRel
<1>3. \A y \in S : ~(y < x)
    BY <1>1, <1>2, Zenon
<1> QED
    BY <1>3, SMTT(30)

\* objpool_alloc finds a node that is free.
LEMMA FreeNode ==
    ASSUME inuse \in SUBSET Nodes, inuse # Nodes
    PROVE  Min(Nodes \ inuse) \in Nodes \ inuse
<1> DEFINE S == Nodes \ inuse
<1>1. S \in SUBSET Nat /\ S # {}
  <2>1. Nodes \subseteq Nat
    BY MsgAssumption, SMTT(30) DEF Nodes
  <2> QED
    BY <2>1, Zenon
<1> HIDE DEF S
<1>2. \E n \in S : \A m \in S : n <= m
    BY <1>1, LeastOf, Zenon
<1>3. Min(S) \in S
    BY <1>2, Zenon DEF Min
<1> QED
    BY <1>3, Zenon DEF S

\* cpu_send_msg: objpool_alloc gives a node that is on no list, and the message
\* put in it has a number of its own; without a free node the CPU stops.
LEMMA AllocStep ==
    ASSUME NEW q, Lists(q), NEW c \in CPUs, NEW t \in CPUs, objpool_alloc(c, t)
    PROVE  Lists(q)'
<1>1. /\ MsgType /\ pc[c] = "idle" /\ ~Has(c) /\ pc[c] \notin Dels \cup Keeps /\ Kept(q) /\ Numbered
      /\ pc[c] \notin {"add2", "add3", "add4", "del2"}
    BY Zenon DEF Lists, objpool_alloc, Has, Brings, Adds, Keeps, Dels
<1>2. UNCHANGED <<nxt, prv, handled>>
    BY Zenon DEF objpool_alloc, list
<1>3. CASE inuse = Nodes
  <2>1. pc' = [pc EXCEPT ![c] = "error"] /\ UNCHANGED <<msg, inuse, r, sent>>
    BY <1>3, Zenon DEF objpool_alloc, Goto
  <2>2. /\ pc'[c] = "error"
        /\ \A d \in CPUs \ {c} : pc'[d] = pc[d] /\ r'[d] = r[d]
    BY <1>1, <2>1, Zenon DEF MsgType
  <2>3. MsgType'
    BY <1>1, <1>2, <2>1, Zenon DEF MsgType
  <2>4. Placed(q, c)'
    BY <2>2, Zenon DEF Placed, Brings, Adds, Handles, Dels, Keeps
  <2>5. Alone'
    BY <2>2, AloneKept, Zenon DEF Lists, Busy, Adds, Dels
  <2>6. ~Has(c)' /\ pc'[c] \notin {"add2", "add3", "add4", "del2"}
    BY <2>2, Zenon DEF Has, Brings, Adds, Keeps
  <2> QED
    BY <1>1, <1>2, <2>1, <2>2, <2>3, <2>4, <2>5, <2>6, QuietStep, Zenon
<1>4. CASE inuse # Nodes
  <2> DEFINE n == Min(Nodes \ inuse)
  <2>1. n \in Nodes \ inuse
    BY <1>1, <1>4, FreeNode, Zenon DEF MsgType
  <2>2. /\ inuse' = inuse \cup {n} /\ msg' = [msg EXCEPT ![n] = <<t, sent>>]
        /\ r' = [r EXCEPT ![c] = Regs(n, event_list(t))]
        /\ sent' = sent + 1 /\ pc' = [pc EXCEPT ![c] = "load_tail"]
    BY <1>4, Zenon DEF objpool_alloc, Goto
  <2> HIDE DEF n
  <2>3. /\ Regs(n, event_list(t)) \in [node : Nodes \cup {Bad}, list : Heads \cup {Bad},
                                       p : Addrs \cup {Bad}, n : Addrs \cup {Bad}]
        /\ Regs(n, event_list(t)).node = n /\ Regs(n, event_list(t)).list = event_list(t)
    BY <2>1, RegsType, HeadFacts, ZenonT(30)
  <2>4. /\ pc'[c] = "load_tail" /\ r'[c].node = n /\ r'[c].list = event_list(t)
        /\ \A d \in CPUs \ {c} : pc'[d] = pc[d] /\ r'[d] = r[d]
    BY <1>1, <2>2, <2>3, Zenon DEF MsgType
  <2>5. sent \in Nat /\ <<t, sent>> \in Messages
    BY <1>1, Zenon DEF MsgType, Messages
  <2>6. MsgType'
    BY <1>1, <1>2, <2>1, <2>2, <2>3, <2>5, SMTT(30) DEF MsgType, Brings
  <2>7. msg'[n] = <<t, sent>> /\ \A m \in Nodes \ {n} : msg'[m] = msg[m]
    BY <1>1, <2>1, <2>2, Zenon DEF MsgType
  <2>8. \A m \in inuse : m \in Nodes \ {n} /\ m \in inuse' /\ msg'[m] = msg[m]
    BY <1>1, <2>1, <2>2, <2>7, Zenon DEF MsgType
  <2>9. Chained(q)' /\ Tailed(q)'
    BY <1>1, <1>2, <2>4, ChainKept, TailKept, Zenon DEF Lists
  <2>10. ASSUME NEW d \in CPUs PROVE Placed(q, d)'
    <3>1. CASE d = c
      <4>1. Target(c)' = t
        BY <2>4, <2>7, SMTT(30) DEF Target
      <4> QED
        BY <2>2, <2>4, <3>1, <4>1, SMTT(30) DEF Placed, Brings, Adds, Handles, Dels, Keeps
    <3>2. CASE d # c
      BY <1>2, <2>4, <2>8, <3>2, OthersPlaced, ZenonT(30) DEF Lists
    <3> QED
      BY <3>1, <3>2, Zenon
  <2>11. Alone'
    BY <2>4, AloneKept, Zenon DEF Lists, Busy, Adds, Dels
  <2>12. Has(c)' /\ \A d \in CPUs \ {c} : (Has(d)' <=> Has(d)) /\ r'[d].node = r[d].node
    BY <2>4, Zenon DEF Has, Brings
  <2>13. \A d \in CPUs : Has(d) => r[d].node \in inuse
    BY Apartness, Zenon
  <2>14. Kept(q)'
    <3>1. \A d \in CPUs : \A k \in 1..Len(q[d]) :
              /\ q[d][k] \in inuse /\ msg[q[d][k]][1] = d /\ q[d][k] # n
              /\ \A j \in 1..Len(q[d]) : q[d][j] = q[d][k] => j = k
      BY <1>1, <2>8, ZenonT(30) DEF Kept
    <3>2. \A d \in CPUs : \A k \in 1..Len(q[d]) :
              /\ q[d][k] \in inuse' /\ msg'[q[d][k]][1] = d
              /\ \A j \in 1..Len(q[d]) : q[d][j] = q[d][k] => j = k
      BY <2>8, <3>1, SMTT(30)
    <3>3. ASSUME NEW d \in CPUs, Has(d)'
          PROVE  \A e \in CPUs : \A k \in 1..Len(q[e]) : q[e][k] # r'[d].node
      BY <1>1, <2>4, <2>12, <3>1, <3>3, SMTT(30) DEF Kept
    <3>4. ASSUME NEW d \in CPUs, NEW e \in CPUs, Has(d)', Has(e)', r'[d].node = r'[e].node
          PROVE  d = e
      BY <1>1, <2>1, <2>4, <2>12, <2>13, <3>4, SMTT(30) DEF Kept
    <3>5. ASSUME NEW m \in inuse'
          PROVE  \/ \E k \in 1..Len(q[msg'[m][1]]) : q[msg'[m][1]][k] = m
                 \/ \E d \in CPUs : Has(d)' /\ r'[d].node = m
      <4>1. CASE m = n
        BY <2>4, <2>12, <4>1, Zenon
      <4>2. CASE m # n
        <5>1. m \in inuse /\ msg'[m] = msg[m]
          BY <2>2, <2>8, <4>2, Zenon
        <5>2. \/ \E k \in 1..Len(q[msg[m][1]]) : q[msg[m][1]][k] = m
              \/ \E d \in CPUs : Has(d) /\ r[d].node = m
          BY <1>1, <5>1, Zenon DEF Kept
        <5> QED
          BY <1>1, <2>12, <5>1, <5>2, Zenon
      <4> QED
        BY <4>1, <4>2, Zenon
    <3> QED
      BY <3>2, <3>3, <3>4, <3>5, ZenonT(30) DEF Kept
  <2>15. Apart'
    <3>1. \A m \in inuse : msg[m] \in Messages /\ msg[m][2] < sent /\ msg[m][2] \in Nat
      BY <1>1, Zenon DEF Numbered, Apart, Messages
    <3>2. \A m \in inuse' : m = n \/ m \in inuse
      BY <2>2, Zenon
    <3>3. \A m \in inuse' : msg'[m] \in Messages /\ msg'[m][2] < sent'
      BY <2>2, <2>5, <2>7, <2>8, <3>1, <3>2, SMTT(30)
    <3>4. ASSUME NEW m \in inuse', NEW k \in inuse', msg'[m][2] = msg'[k][2] PROVE m = k
      <4>1. \A j \in inuse : msg'[j][2] = msg[j][2] /\ msg[j][2] # sent
        BY <2>5, <2>8, <3>1, SMTT(30)
      <4>2. msg'[n][2] = sent
        BY <2>7, SMTT(30)
      <4> QED
        BY <1>1, <3>2, <3>4, <4>1, <4>2, ZenonT(30) DEF Numbered, Apart
    <3> QED
      BY <3>3, <3>4, Zenon DEF Apart
  <2>16. ASSUME NEW d \in CPUs PROVE Told(d)'
    <3>1. Told(d) /\ handled'[d] = handled[d]
      BY <1>1, <1>2, Zenon DEF Numbered
    <3>2. \A k \in 1..Len(handled[d]) : handled[d][k] \in Messages
      BY <1>1, SMTT(30) DEF MsgType
    <3> SUFFICES ASSUME NEW k \in 1..Len(handled[d])
                 PROVE  /\ handled[d][k][1] = d /\ handled[d][k][2] < sent'
                        /\ \A j \in 1..Len(handled[d]) : handled[d][j] = handled[d][k] => j = k
                        /\ \A m \in inuse' : msg'[m] = handled[d][k] =>
                              pc'[d] \in Dels \cup Keeps /\ r'[d].node = m
      BY <1>2, Zenon DEF Told
    <3>3. /\ handled[d][k][1] = d /\ handled[d][k][2] < sent
          /\ \A j \in 1..Len(handled[d]) : handled[d][j] = handled[d][k] => j = k
          /\ \A m \in inuse : msg[m] = handled[d][k] => pc[d] \in Dels \cup Keeps /\ r[d].node = m
      BY <3>1, Zenon DEF Told
    <3>4. handled[d][k][2] \in Nat
      BY <3>2, Zenon DEF Messages
    <3>5. handled[d][k][2] < sent' /\ msg'[n] # handled[d][k]
      BY <2>2, <2>5, <2>7, <3>3, <3>4, SMTT(30)
    <3>6. ASSUME NEW m \in inuse', msg'[m] = handled[d][k]
          PROVE  pc'[d] \in Dels \cup Keeps /\ r'[d].node = m
      <4>1. m \in inuse /\ msg'[m] = msg[m]
        BY <2>2, <2>8, <3>5, <3>6, Zenon
      <4>2. pc[d] \in Dels \cup Keeps /\ r[d].node = m
        BY <3>3, <3>6, <4>1, Zenon
      <4> QED
        BY <1>1, <2>4, <4>2, Zenon
    <3> QED
      BY <3>3, <3>5, <3>6, Zenon
  <2>17. Numbered'
    BY <2>15, <2>16, Zenon DEF Numbered
  <2> QED
    BY <2>6, <2>9, <2>10, <2>11, <2>14, <2>17, Zenon DEF Lists
<1> QED
    BY <1>3, <1>4, Zenon

\* No two stops of the lists are the same.
LEMMA StopsApart ==
    ASSUME NEW q, Lists(q), NEW d \in CPUs, NEW e \in CPUs,
           NEW j \in 0..Len(q[d]), NEW k \in 0..Len(q[e]),
           Stop(q[d], d, j) = Stop(q[e], e, k)
    PROVE  d = e /\ j = k
<1>1. q[d] \in Seq(Nodes) /\ q[e] \in Seq(Nodes) /\ Kept(q)
    BY Zenon DEF Lists
<1>2. CASE j = 0 \/ k = 0
    BY <1>1, <1>2, HeadFacts, SMTT(30) DEF Stop
<1>3. CASE j # 0 /\ k # 0
  <2>1. j \in 1..Len(q[d]) /\ k \in 1..Len(q[e]) /\ q[d][j] = q[e][k]
    BY <1>1, <1>3, SMTT(30) DEF Stop
  <2>2. d = e
    BY <1>1, <2>1, SMTT(30) DEF Kept
  <2> QED
    BY <1>1, <2>1, <2>2, Zenon DEF Kept
<1> QED
    BY <1>2, <1>3, Zenon

\* prev->next = new: the node is now the last of the list.
LEMMA Add4Step ==
    ASSUME NEW q \in [CPUs -> Seq(Nodes)], Lists(q), NEW c \in CPUs, list_add4(c)
    PROVE  \E s \in [CPUs -> Seq(Nodes)] : Lists(s)'
<1>1. /\ MsgType /\ pc[c] = "add4" /\ Has(c) /\ pc[c] \in Brings /\ pc[c] \in Adds /\ pc[c] \in Busy
      /\ Placed(q, c) /\ Kept(q) /\ Alone /\ Chained(q) /\ Tailed(q)
    BY Zenon DEF Lists, list_add4, Has, Brings, Adds, Busy
<1>2. PICK t \in CPUs : t = Target(c)
    BY <1>1, BringsTo, Zenon
<1>3. PICK x \in Nodes : x = r[c].node
    BY <1>1, Apartness, Zenon
<1> DEFINE p == r[c].p
           l == Len(q[t]) + 1
           s == [q EXCEPT ![t] = Append(q[t], x)]
<1>4. /\ r[c].list = event_list(t) /\ p = Stop(q[t], t, Len(q[t])) /\ p \in Addrs /\ p # Bad
      /\ nxt[x] = event_list(t) /\ prv[x] = p
    BY <1>1, <1>2, <1>3, BringsTo, Zenon DEF End, Placed
<1>5. /\ x \in inuse /\ msg[x][1] = t
      /\ \A d \in CPUs : \A k \in Int : Stop(q[d], d, k) # x
      /\ \A d \in CPUs \ {c} : Has(d) => r[d].node # x
    BY <1>1, <1>2, <1>3, Apartness, Zenon DEF Target
<1>6. /\ pc' = [pc EXCEPT ![c] = "sendipi"] /\ nxt' = [nxt EXCEPT ![p] = x]
      /\ UNCHANGED <<prv, msg, inuse, r, sent, handled>>
    BY <1>3, <1>4, Zenon DEF list_add4, Store, Goto
<1>7. /\ pc'[c] = "sendipi" /\ r'[c] = r[c]
      /\ \A d \in CPUs \ {c} : pc'[d] = pc[d] /\ r'[d] = r[d]
    BY <1>1, <1>6, OnlyHere, Zenon
<1>8. MsgType'
    BY <1>1, <1>4, <1>6, HeadFacts, Zenon DEF MsgType
<1>9. nxt'[p] = x /\ \A a \in Addrs : a # p => nxt'[a] = nxt[a]
    BY <1>1, <1>4, <1>6, Zenon DEF MsgType
<1>10. /\ s \in [CPUs -> Seq(Nodes)] /\ q[t] \in Seq(Nodes) /\ Len(q[t]) \in Nat
       /\ Len(s[t]) = l /\ s[t][l] = x
       /\ \A k \in 1..Len(q[t]) : s[t][k] = q[t][k]
       /\ \A d \in CPUs \ {t} : s[d] = q[d]
    BY SMTT(30)
<1> HIDE DEF s
<1>11. /\ \A k \in 0..Len(q[t]) : Stop(s[t], t, k) = Stop(q[t], t, k)
       /\ Stop(s[t], t, l) = x /\ Stop(s[t], t, l + 1) = event_list(t)
    BY <1>10, SMTT(30) DEF Stop
<1>12. \A d \in CPUs : Len(q[d]) \in Nat /\ \A k \in 0..Len(q[d]) : Stop(q[d], d, k) \in Addrs
    BY StopFacts, SMTT(30)
<1>13. \A d \in CPUs : \A k \in 0..Len(q[d]) :
          d # t \/ k # Len(q[t]) => nxt'[Stop(q[d], d, k)] = nxt[Stop(q[d], d, k)]
  <2> SUFFICES ASSUME NEW d \in CPUs, NEW k \in 0..Len(q[d]), d # t \/ k # Len(q[t])
               PROVE  nxt'[Stop(q[d], d, k)] = nxt[Stop(q[d], d, k)]
    BY SMTT(30)
  <2>1. Stop(q[d], d, k) # p
    BY <1>4, <1>10, StopsApart, SMTT(30)
  <2> QED
    BY <1>9, <1>12, <2>1, Zenon
<1>14. Chained(s)'
  <2>1. ASSUME NEW d \in CPUs, d # t
        PROVE  /\ \A k \in 0..Len(s[d]) : nxt'[Stop(s[d], d, k)] = Stop(s[d], d, k + 1)
               /\ \A k \in 1..Len(s[d]) : prv'[s[d][k]] = Stop(s[d], d, k - 1)
    <3>1. s[d] = q[d]
      BY <1>10, <2>1, Zenon
    <3>2. \A k \in 0..Len(q[d]) : nxt[Stop(q[d], d, k)] = Stop(q[d], d, k + 1)
      BY <1>1, Zenon DEF Chained
    <3>3. \A k \in 1..Len(q[d]) : prv[q[d][k]] = Stop(q[d], d, k - 1)
      BY <1>1, Zenon DEF Chained
    <3>4. \A k \in 0..Len(q[d]) : nxt'[Stop(q[d], d, k)] = nxt[Stop(q[d], d, k)]
      BY <1>13, <2>1, Zenon
    <3> QED
      BY <1>6, <3>1, <3>2, <3>3, <3>4, Zenon
  <2>2. ASSUME NEW k \in 0..l PROVE nxt'[Stop(s[t], t, k)] = Stop(s[t], t, k + 1)
    <3>1. CASE k \in 0..(Len(q[t]) - 1)
      <4>1. k \in 0..Len(q[t]) /\ k + 1 \in 0..Len(q[t]) /\ k # Len(q[t])
        BY <1>10, <3>1, SMTT(30)
      <4>2. nxt'[Stop(q[t], t, k)] = Stop(q[t], t, k + 1)
        BY <1>1, <1>13, <4>1, Zenon DEF Chained
      <4> QED
        BY <1>11, <4>1, <4>2, Zenon
    <3>2. CASE k = Len(q[t])
      <4>1. k \in 0..Len(q[t])
        BY <1>10, <3>2, SMTT(30)
      <4> QED
        BY <1>4, <1>9, <1>11, <3>2, <4>1, Zenon
    <3>3. CASE k = l
      <4>1. x # p /\ x \in Addrs
        BY <1>4, <1>5, <1>10, HeadFacts, SMTT(30)
      <4> QED
        BY <1>4, <1>9, <1>11, <3>3, <4>1, ZenonT(30)
    <3> QED
      BY <1>10, <3>1, <3>2, <3>3, SMTT(30)
  <2>3. ASSUME NEW k \in 1..l PROVE prv'[s[t][k]] = Stop(s[t], t, k - 1)
    <3>1. CASE k \in 1..Len(q[t])
      <4>1. k - 1 \in 0..Len(q[t])
        BY <1>10, <3>1
      <4>2. prv[q[t][k]] = Stop(q[t], t, k - 1) /\ s[t][k] = q[t][k]
        BY <1>1, <1>10, <3>1, Zenon DEF Chained
      <4> QED
        BY <1>6, <1>11, <4>1, <4>2, Zenon
    <3>2. CASE k = l
      <4>1. k - 1 = Len(q[t]) /\ Len(q[t]) \in 0..Len(q[t])
        BY <1>10, <3>2
      <4> QED
        BY <1>4, <1>6, <1>10, <1>11, <3>2, <4>1, Zenon
    <3> QED
      BY <1>10, <3>1, <3>2, SMTT(30)
  <2> QED
    BY <1>10, <2>1, <2>2, <2>3, Zenon DEF Chained
<1>15. \A d \in CPUs \ {t} : End(s[d], d) = End(q[d], d)
    BY <1>10, Zenon
<1>16. End(s[t], t) = x
    BY <1>10, <1>11, Zenon DEF End
<1>17. Tailed(s)'
  <2>1. ASSUME NEW d \in CPUs, pc'[d] \in {"add2", "add3", "add4"} PROVE prv'[r'[d].list] = r'[d].node
    BY <1>1, <1>6, <1>7, <2>1, Zenon DEF Tailed
  <2>2. ASSUME NEW d \in CPUs, pc'[d] = "del2" PROVE prv'[event_list(d)] = r'[d].p
    BY <1>1, <1>6, <1>7, <2>2, Zenon DEF Tailed
  <2>3. ASSUME NEW d \in CPUs, pc'[d] # "del2",
               \A e \in CPUs : pc'[e] \in {"add2", "add3", "add4"} => r'[e].list # event_list(d)
        PROVE  prv'[event_list(d)] = End(s[d], d)
    <3>1. CASE d = t
      BY <1>1, <1>3, <1>4, <1>6, <1>16, <3>1, ZenonT(30) DEF Tailed
    <3>2. CASE d # t
      <4>1. event_list(d) # event_list(t)
        BY <3>2, HeadFacts, Zenon
      <4>2. pc[d] # "del2" /\ \A e \in CPUs : pc[e] \in {"add2", "add3", "add4"} => r[e].list # event_list(d)
        BY <1>1, <1>4, <1>7, <2>3, <4>1, ZenonT(30)
      <4> QED
        BY <1>1, <1>6, <1>15, <3>2, <4>2, Zenon DEF Tailed
    <3> QED
      BY <3>1, <3>2, Zenon
  <2> QED
    BY <2>1, <2>2, <2>3, Zenon DEF Tailed
<1>18. ASSUME NEW d \in CPUs PROVE Placed(s, d)'
  <2>1. CASE d = c
    BY <1>4, <1>7, <2>1, HeadFacts, ZenonT(30) DEF Placed, Brings, Adds, Handles, Dels, Keeps
  <2>2. CASE d # c
    <3>1. Placed(q, d)
      BY Zenon DEF Lists
    <3>2. pc[d] \in Busy => r[d].list # event_list(t)
      BY <1>1, <1>4, <2>2, Zenon DEF Alone
    <3>3. pc[d] \in Adds => Target(d) \in CPUs /\ Target(d) # t
      BY <3>2, BringsTo, Zenon DEF Brings, Busy
    <3>4. pc[d] \in Dels => d # t
      BY <3>1, <3>2, Zenon DEF Placed, Handles, Busy
    <3>5. pc[d] \in Adds => End(s[Target(d)], Target(d)) = End(q[Target(d)], Target(d))
      BY <1>15, <3>3, Zenon
    <3>6. pc[d] \in Dels => s[d] = q[d]
      BY <1>10, <3>4, Zenon
    <3>7. Len(q[d]) # 0 => Len(s[d]) # 0
      BY <1>10, SMTT(30)
    <3>8. pc[d] \in {"add3", "add4"} => nxt'[r[d].node] = nxt[r[d].node]
      <4> SUFFICES ASSUME pc[d] \in {"add3", "add4"} PROVE nxt'[r[d].node] = nxt[r[d].node]
        BY SMTT(30)
      <4>1. /\ r[d].node \in Nodes
            /\ \A e \in CPUs : \A k \in Int : Stop(q[e], e, k) # r[d].node
        BY Apartness, Zenon DEF Has, Brings, Adds
      <4> QED
        BY <1>4, <1>9, <1>10, <4>1, HeadFacts, SMTT(30)
    <3>9. pc'[d] = pc[d] /\ r'[d] = r[d] /\ Target(d)' = Target(d)
      BY <1>6, <1>7, <2>2, Zenon DEF Target
    <3> QED
      BY <1>6, <3>1, <3>5, <3>6, <3>7, <3>8, <3>9, SMTT(30) DEF Placed, Adds, Dels
  <2> QED
    BY <2>1, <2>2, Zenon
<1>19. Alone'
    BY <1>7, AloneKept, Zenon DEF Lists, Busy, Adds, Dels
<1>20. ~Has(c)' /\ \A d \in CPUs \ {c} : (Has(d)' <=> Has(d)) /\ r'[d].node = r[d].node
    BY <1>7, Zenon DEF Has, Brings, Adds, Keeps
<1>21. Kept(s)'
  <2>1. ASSUME NEW d \in CPUs, NEW k \in 1..Len(s[d])
        PROVE  \/ k \in 1..Len(q[d]) /\ s[d][k] = q[d][k]
               \/ d = t /\ k = l /\ s[d][k] = x
    <3>1. CASE d = t
      BY <1>10, <3>1, SMTT(30)
    <3>2. CASE d # t
      BY <1>10, <3>2, ZenonT(30)
    <3> QED
      BY <3>1, <3>2, Zenon
  <2>2. \A d \in CPUs : \A k \in 1..Len(q[d]) : q[d][k] # x
    BY <1>1, <1>3, SMTT(30) DEF Kept
  <2>3. ASSUME NEW d \in CPUs, NEW k \in 1..Len(s[d])
        PROVE  /\ s[d][k] \in inuse /\ msg[s[d][k]][1] = d
               /\ \A j \in 1..Len(s[d]) : s[d][j] = s[d][k] => j = k
    <3>1. s[d][k] \in inuse /\ msg[s[d][k]][1] = d
      <4>1. CASE k \in 1..Len(q[d]) /\ s[d][k] = q[d][k]
        BY <1>1, <4>1, SMTT(30) DEF Kept
      <4>2. CASE d = t /\ k = l /\ s[d][k] = x
        BY <1>5, <4>2, Zenon
      <4> QED
        BY <2>1, <4>1, <4>2, ZenonT(30)
    <3>2. \A i, m \in 1..Len(q[d]) : q[d][i] = q[d][m] => i = m
      BY <1>1, KeptOnce, Zenon
    <3>3. ASSUME NEW j \in 1..Len(s[d]), s[d][j] = s[d][k] PROVE j = k
      <4>1. /\ \/ k \in 1..Len(q[d]) /\ s[d][k] = q[d][k]
               \/ k = l /\ s[d][k] = x
            /\ \/ j \in 1..Len(q[d]) /\ s[d][j] = q[d][j]
               \/ j = l /\ s[d][j] = x
        BY <2>1, Zenon
      <4> QED
        BY <2>2, <3>2, <3>3, <4>1, Zenon
    <3> QED
      BY <3>1, <3>3, Zenon
  <2>4. ASSUME NEW d \in CPUs, Has(d)', NEW e \in CPUs, NEW k \in 1..Len(s[e])
        PROVE  s[e][k] # r'[d].node
    <3>1. Has(d) /\ d # c /\ r'[d].node = r[d].node /\ r[d].node # x
      BY <1>5, <1>20, <2>4, Zenon
    <3>2. \A j \in 1..Len(q[e]) : q[e][j] # r[d].node
      BY <1>1, <3>1, Zenon DEF Kept
    <3> QED
      BY <2>1, <3>1, <3>2, Zenon
  <2>5. \A d, e \in CPUs : Has(d)' /\ Has(e)' /\ r'[d].node = r'[e].node => d = e
    BY <1>1, <1>20, ZenonT(30) DEF Kept
  <2>6. ASSUME NEW n \in inuse
        PROVE  \/ \E k \in 1..Len(s[msg[n][1]]) : s[msg[n][1]][k] = n
               \/ \E d \in CPUs : Has(d)' /\ r'[d].node = n
    <3>1. CASE n = x
      <4>1. l \in 1..Len(s[t])
        BY <1>10, SMTT(30)
      <4> QED
        BY <1>5, <1>10, <3>1, <4>1, ZenonT(30)
    <3>2. CASE n # x
      <4>1. msg[n][1] \in CPUs
        BY Zenon DEF Lists, Numbered, Apart, Messages
      <4>2. \/ \E k \in 1..Len(q[msg[n][1]]) : q[msg[n][1]][k] = n
            \/ \E d \in CPUs : Has(d) /\ r[d].node = n
        BY <1>1, Zenon DEF Kept
      <4>3. \A d \in CPUs : \A k \in 1..Len(q[d]) : k \in 1..Len(s[d]) /\ s[d][k] = q[d][k]
        BY <1>10, SMTT(30)
      <4> QED
        BY <1>3, <1>20, <3>2, <4>1, <4>2, <4>3, Zenon
    <3> QED
      BY <3>1, <3>2, Zenon
  <2> QED
    BY <1>6, <2>3, <2>4, <2>5, <2>6, Zenon DEF Kept
<1>22. Numbered'
  <2>1. Apart'
    BY <1>6, Zenon DEF Lists, Numbered, Apart
  <2>2. pc[c] \notin Dels \cup Keeps
    BY <1>1, Zenon DEF Dels, Keeps
  <2>3. ASSUME NEW d \in CPUs PROVE Told(d)'
    BY <1>6, <1>7, <2>2, ToldKept, Zenon DEF Lists, Numbered
  <2> QED
    BY <2>1, <2>3, Zenon DEF Numbered
<1>23. Lists(s)'
    BY <1>8, <1>10, <1>14, <1>17, <1>18, <1>19, <1>21, <1>22, ZenonT(30) DEF Lists
<1> QED
    BY <1>10, <1>23, Zenon

\* prev->next = next: the last node has left the list.
LEMMA Del2Step ==
    ASSUME NEW q \in [CPUs -> Seq(Nodes)], Lists(q), NEW c \in CPUs, list_del2(c)
    PROVE  \E s \in [CPUs -> Seq(Nodes)] : Lists(s)'
<1>1. /\ MsgType /\ pc[c] = "del2" /\ ~Has(c) /\ pc[c] \in Busy /\ pc[c] \in Dels
      /\ Kept(q) /\ Chained(q) /\ Tailed(q)
    BY Zenon DEF Lists, list_del2, Has, Brings, Adds, Keeps, Dels, Busy
<1>2. PICK x \in Nodes : x = r[c].node
    BY <1>1, DeletesFrom, Zenon
<1> DEFINE p == r[c].p
           l == Len(q[c]) - 1
           h == event_list(c)
           s == [q EXCEPT ![c] = [k \in 1..l |-> q[c][k]]]
<1>3. /\ r[c].list = h /\ r[c].n = h /\ p = Stop(q[c], c, l) /\ p \in Addrs /\ p # Bad
      /\ q[c] \in Seq(Nodes) /\ Len(q[c]) \in 1..Len(q[c]) /\ x = q[c][Len(q[c])]
      /\ \A d \in CPUs \ {c} : pc[d] \in Busy => r[d].list # h
    BY <1>1, <1>2, DeletesFrom, Zenon
<1>4. x \in inuse /\ msg[x][1] = c
    BY <1>1, <1>3, Zenon DEF Kept
<1>5. l \in Nat /\ Len(q[c]) = l + 1 /\ l \in 0..Len(q[c])
    BY <1>3, SMTT(30)
<1>6. /\ pc' = [pc EXCEPT ![c] = "poison"] /\ nxt' = [nxt EXCEPT ![p] = h]
      /\ UNCHANGED <<prv, msg, inuse, r, sent, handled>>
    BY <1>3, Zenon DEF list_del2, Store, Goto
<1>7. /\ pc'[c] = "poison" /\ r'[c] = r[c]
      /\ \A d \in CPUs \ {c} : pc'[d] = pc[d] /\ r'[d] = r[d]
    BY <1>1, <1>6, OnlyHere, Zenon
<1>8. MsgType'
    BY <1>1, <1>3, <1>6, HeadFacts, Zenon DEF MsgType, Handles, Keeps
<1>9. nxt'[p] = h /\ \A a \in Addrs : a # p => nxt'[a] = nxt[a]
    BY <1>1, <1>3, <1>6, Zenon DEF MsgType
<1>10. /\ s \in [CPUs -> Seq(Nodes)] /\ Len(s[c]) = l
       /\ \A k \in 1..l : s[c][k] = q[c][k] /\ k \in 1..Len(q[c])
       /\ \A d \in CPUs \ {c} : s[d] = q[d]
  <2>1. [k \in 1..l |-> q[c][k]] \in Seq(Nodes) /\ Len([k \in 1..l |-> q[c][k]]) = l
    BY <1>3, <1>5, SMTT(30)
  <2> QED
    BY <1>3, <1>5, <2>1, SMTT(30)
<1> HIDE DEF s
<1>11. /\ \A k \in 0..l : Stop(s[c], c, k) = Stop(q[c], c, k)
       /\ Stop(s[c], c, l + 1) = h
    BY <1>5, <1>10, SMTT(30) DEF Stop
<1>12. \A d \in CPUs : Len(q[d]) \in Nat /\ \A k \in 0..Len(q[d]) : Stop(q[d], d, k) \in Addrs
    BY StopFacts, SMTT(30)
<1>13. \A d \in CPUs : \A k \in 0..Len(q[d]) :
          d # c \/ k # l => nxt'[Stop(q[d], d, k)] = nxt[Stop(q[d], d, k)]
  <2> SUFFICES ASSUME NEW d \in CPUs, NEW k \in 0..Len(q[d]), d # c \/ k # l
               PROVE  nxt'[Stop(q[d], d, k)] = nxt[Stop(q[d], d, k)]
    BY SMTT(30)
  <2>1. Stop(q[d], d, k) # p
    BY <1>3, <1>5, StopsApart, SMTT(30)
  <2> QED
    BY <1>9, <1>12, <2>1, Zenon
<1>14. Chained(s)'
  <2>1. ASSUME NEW d \in CPUs, d # c
        PROVE  /\ \A k \in 0..Len(s[d]) : nxt'[Stop(s[d], d, k)] = Stop(s[d], d, k + 1)
               /\ \A k \in 1..Len(s[d]) : prv'[s[d][k]] = Stop(s[d], d, k - 1)
    <3>1. s[d] = q[d]
      BY <1>10, <2>1, Zenon
    <3>2. \A k \in 0..Len(q[d]) : nxt[Stop(q[d], d, k)] = Stop(q[d], d, k + 1)
      BY <1>1, Zenon DEF Chained
    <3>3. \A k \in 1..Len(q[d]) : prv[q[d][k]] = Stop(q[d], d, k - 1)
      BY <1>1, Zenon DEF Chained
    <3>4. \A k \in 0..Len(q[d]) : nxt'[Stop(q[d], d, k)] = nxt[Stop(q[d], d, k)]
      BY <1>13, <2>1, Zenon
    <3> QED
      BY <1>6, <3>1, <3>2, <3>3, <3>4, Zenon
  <2>2. ASSUME NEW k \in 0..l PROVE nxt'[Stop(s[c], c, k)] = Stop(s[c], c, k + 1)
    <3>1. CASE k \in 0..(l - 1)
      <4>1. k \in 0..l /\ k + 1 \in 0..l /\ k # l /\ k \in 0..Len(q[c])
        BY <1>5, <3>1, SMTT(30)
      <4>2. nxt'[Stop(q[c], c, k)] = Stop(q[c], c, k + 1)
        BY <1>1, <1>13, <4>1, Zenon DEF Chained
      <4> QED
        BY <1>11, <4>1, <4>2, Zenon
    <3>2. CASE k = l
      <4>1. k \in 0..l
        BY <1>5, <3>2, ZenonT(30)
      <4> QED
        BY <1>3, <1>9, <1>11, <3>2, <4>1, Zenon
    <3> QED
      BY <1>5, <3>1, <3>2, SMTT(30)
  <2>3. ASSUME NEW k \in 1..l PROVE prv'[s[c][k]] = Stop(s[c], c, k - 1)
    <3>1. k - 1 \in 0..l /\ k \in 1..Len(q[c])
      BY <1>5
    <3> QED
      BY <1>1, <1>6, <1>10, <1>11, <3>1, ZenonT(30) DEF Chained
  <2> QED
    BY <1>10, <2>1, <2>2, <2>3, Zenon DEF Chained
<1>15. \A d \in CPUs \ {c} : End(s[d], d) = End(q[d], d)
    BY <1>10, Zenon
<1>16. End(s[c], c) = p
    BY <1>3, <1>5, <1>10, <1>11, SMTT(30) DEF End
<1>17. Tailed(s)'
  <2>1. ASSUME NEW d \in CPUs, pc'[d] \in {"add2", "add3", "add4"} PROVE prv'[r'[d].list] = r'[d].node
    BY <1>1, <1>6, <1>7, <2>1, Zenon DEF Tailed
  <2>2. ASSUME NEW d \in CPUs, pc'[d] = "del2" PROVE prv'[event_list(d)] = r'[d].p
    BY <1>1, <1>6, <1>7, <2>2, Zenon DEF Tailed
  <2>3. ASSUME NEW d \in CPUs, pc'[d] # "del2",
               \A e \in CPUs : pc'[e] \in {"add2", "add3", "add4"} => r'[e].list # event_list(d)
        PROVE  prv'[event_list(d)] = End(s[d], d)
    <3>1. CASE d = c
      BY <1>1, <1>6, <1>16, <3>1, Zenon DEF Tailed
    <3>2. CASE d # c
      <4>1. pc[d] # "del2" /\ \A e \in CPUs : pc[e] \in {"add2", "add3", "add4"} => r[e].list # event_list(d)
        BY <1>1, <1>7, <2>3, <3>2, Zenon
      <4> QED
        BY <1>1, <1>6, <1>15, <3>2, <4>1, Zenon DEF Tailed
    <3> QED
      BY <3>1, <3>2, Zenon
  <2> QED
    BY <2>1, <2>2, <2>3, Zenon DEF Tailed
<1>18. ASSUME NEW d \in CPUs PROVE Placed(s, d)'
  <2>1. CASE d = c
    <3>1. Target(c)' = c
      BY <1>2, <1>4, <1>6, <1>7, ZenonT(30) DEF Target
    <3> QED
      BY <1>2, <1>3, <1>4, <1>6, <1>7, <2>1, <3>1, ZenonT(30) DEF Placed, Brings, Adds, Handles, Dels, Keeps
  <2>2. CASE d # c
    <3>1. Placed(q, d) /\ s[d] = q[d]
      BY <1>10, <2>2, Zenon DEF Lists
    <3>2. pc[d] \in Busy => r[d].list # h
      BY <1>3, <2>2, Zenon
    <3>3. pc[d] \in Adds => Target(d) \in CPUs /\ Target(d) # c
      BY <3>2, BringsTo, Zenon DEF Brings, Busy
    <3>4. pc[d] \in Adds => End(s[Target(d)], Target(d)) = End(q[Target(d)], Target(d))
      BY <1>15, <3>3, Zenon
    <3>5. pc[d] \in {"add3", "add4"} => nxt'[r[d].node] = nxt[r[d].node]
      <4> SUFFICES ASSUME pc[d] \in {"add3", "add4"} PROVE nxt'[r[d].node] = nxt[r[d].node]
        OBVIOUS
      <4>1. /\ r[d].node \in Nodes
            /\ \A e \in CPUs : \A k \in Int : Stop(q[e], e, k) # r[d].node
        BY Apartness, Zenon DEF Has, Brings, Adds
      <4> QED
        BY <1>3, <1>5, <1>9, <4>1, HeadFacts, SMTT(30)
    <3>6. pc'[d] = pc[d] /\ r'[d] = r[d] /\ Target(d)' = Target(d)
      BY <1>6, <1>7, <2>2, Zenon DEF Target
    <3> QED
      BY <1>6, <3>1, <3>4, <3>5, <3>6, ZenonT(30) DEF Placed, Adds, Dels
  <2> QED
    BY <2>1, <2>2, Zenon
<1>19. Alone'
    BY <1>1, <1>7, AloneKept, Zenon DEF Lists
<1>20. Has(c)' /\ r'[c].node = x /\ \A d \in CPUs \ {c} : (Has(d)' <=> Has(d)) /\ r'[d].node = r[d].node
    BY <1>2, <1>7, Zenon DEF Has, Keeps
<1>21. Kept(s)'
  <2>1. ASSUME NEW d \in CPUs, NEW k \in 1..Len(s[d])
        PROVE  k \in 1..Len(q[d]) /\ s[d][k] = q[d][k] /\ s[d][k] # x
    <3>1. k \in 1..Len(q[d]) /\ s[d][k] = q[d][k]
      BY <1>10, Zenon
    <3>2. CASE d = c
      <4>1. k # Len(q[c]) /\ \A j \in 1..Len(q[c]) : q[c][j] = q[c][Len(q[c])] => j = Len(q[c])
        <5>1. \A j \in 1..Len(q[c]) : q[c][j] = q[c][Len(q[c])] => j = Len(q[c])
          BY <1>1, <1>3, <1>5, KeptOnce, ZenonT(30)
        <5>2. k # Len(q[c])
          BY <1>3, <1>5, <1>10, <3>2, SMTT(30)
        <5> QED
          BY <5>1, <5>2, ZenonT(30)
      <4> QED
        BY <1>3, <3>1, <3>2, <4>1, Zenon
    <3>3. CASE d # c
      BY <1>1, <1>4, <3>1, <3>3, KeptOnce, SMTT(30)
    <3> QED
      BY <3>1, <3>2, <3>3, Zenon
  <2>2. ASSUME NEW d \in CPUs, NEW k \in 1..Len(s[d])
        PROVE  /\ s[d][k] \in inuse /\ msg[s[d][k]][1] = d
               /\ \A j \in 1..Len(s[d]) : s[d][j] = s[d][k] => j = k
    <3>1. s[d][k] \in inuse /\ msg[s[d][k]][1] = d
      <4>1. k \in 1..Len(q[d]) /\ s[d][k] = q[d][k]
        BY <2>1, Zenon
      <4>2. q[d][k] \in inuse /\ msg[q[d][k]][1] = d
        BY <1>1, <4>1, KeptOnce, SMTT(30)
      <4> QED
        BY <4>1, <4>2, Zenon
    <3>2. \A i, m \in 1..Len(q[d]) : q[d][i] = q[d][m] => i = m
      BY <1>1, KeptOnce, Zenon
    <3>3. ASSUME NEW j \in 1..Len(s[d]), s[d][j] = s[d][k] PROVE j = k
      BY <2>1, <3>2, <3>3, Zenon
    <3> QED
      BY <3>1, <3>3, Zenon
  <2>3. ASSUME NEW d \in CPUs, Has(d)', NEW e \in CPUs, NEW k \in 1..Len(s[e])
        PROVE  s[e][k] # r'[d].node
    <3>1. CASE d = c
      BY <1>20, <2>1, <3>1, Zenon
    <3>2. CASE d # c
      <4>1. Has(d) /\ r'[d].node = r[d].node
        BY <1>20, <2>3, <3>2, Zenon
      <4>2. \A j \in 1..Len(q[e]) : q[e][j] # r[d].node
        BY <1>1, <4>1, ZenonT(30) DEF Kept
      <4> QED
        BY <2>1, <4>1, <4>2, Zenon
    <3> QED
      BY <3>1, <3>2, Zenon
  <2>4. ASSUME NEW d \in CPUs, NEW e \in CPUs, Has(d)', Has(e)', r'[d].node = r'[e].node
        PROVE  d = e
    <3>1. \A b \in CPUs \ {c} : Has(b) => r[b].node # x
      BY <1>1, <1>3, KeptOnce, SMTT(30)
    <3> QED
      BY <1>1, <1>20, <2>4, <3>1, SMTT(30) DEF Kept
  <2>5. ASSUME NEW n \in inuse
        PROVE  \/ \E k \in 1..Len(s[msg[n][1]]) : s[msg[n][1]][k] = n
               \/ \E d \in CPUs : Has(d)' /\ r'[d].node = n
    <3>1. CASE n = x
      BY <1>20, <3>1, Zenon
    <3>2. CASE n # x
      <4>1. msg[n][1] \in CPUs
        BY Zenon DEF Lists, Numbered, Apart, Messages
      <4>2. \/ \E k \in 1..Len(q[msg[n][1]]) : q[msg[n][1]][k] = n
            \/ \E d \in CPUs : Has(d) /\ r[d].node = n
        BY <1>1, Zenon DEF Kept
      <4>3. ASSUME NEW d \in CPUs, NEW k \in 1..Len(q[d]), q[d][k] = n
            PROVE  k \in 1..Len(s[d]) /\ s[d][k] = n
        <5>1. CASE d = c
          BY <1>3, <1>5, <1>10, <3>2, <4>3, <5>1, SMTT(30)
        <5>2. CASE d # c
          BY <1>10, <4>3, <5>2, Zenon
        <5> QED
          BY <5>1, <5>2, ZenonT(30)
      <4> QED
        BY <1>1, <1>20, <4>1, <4>2, <4>3, ZenonT(30)
    <3> QED
      BY <3>1, <3>2, Zenon
  <2> QED
    BY <1>6, <2>2, <2>3, <2>4, <2>5, Zenon DEF Kept
<1>22. Numbered'
  <2>1. Apart'
    BY <1>6, Zenon DEF Lists, Numbered, Apart
  <2>2. pc'[c] \in Dels \cup Keeps
    BY <1>7, Zenon DEF Keeps
  <2>3. ASSUME NEW d \in CPUs PROVE Told(d)'
    BY <1>6, <1>7, <2>2, ToldKept, Zenon DEF Lists, Numbered
  <2> QED
    BY <2>1, <2>3, Zenon DEF Numbered
<1>23. Lists(s)'
    BY <1>8, <1>10, <1>14, <1>17, <1>18, <1>19, <1>21, <1>22, ZenonT(30) DEF Lists
<1> QED
    BY <1>10, <1>23, Zenon
-----------------------------------------------------------------------------

\* cpu_init links every head to itself: the lists are empty.
LEMMA InitLists ==
    ASSUME Init
    PROVE  \E q \in [CPUs -> Seq(Nodes)] : Lists(q)
<1> DEFINE q == [c \in CPUs |-> <<>>]
<1>1. q \in [CPUs -> Seq(Nodes)] /\ \A d \in CPUs : q[d] = <<>> /\ Len(q[d]) = 0
    OBVIOUS
<1>2. /\ \A d \in CPUs : nxt[event_list(d)] = event_list(d) /\ prv[event_list(d)] = event_list(d)
      /\ \A c \in CPUs : pc[c] = "idle" /\ handled[c] = <<>>
      /\ inuse = {}
  <2>1. \A d \in CPUs : event_list(d) < 0 /\ event_list(d) \in Nodes \cup {event_list(e) : e \in CPUs}
    BY MsgAssumption, SMTT(30) DEF event_list, CPUs
  <2> QED
    BY <2>1, Zenon DEF Init
<1>3. MsgType
  <2>1. \A a \in Addrs : (IF a < 0 THEN a ELSE Bad) \in Addrs \cup {Bad}
    OBVIOUS
  <2>2. NoRegs \in [node : Nodes \cup {Bad}, list : Heads \cup {Bad},
                    p : Addrs \cup {Bad}, n : Addrs \cup {Bad}]
    BY RegsType, Zenon DEF NoRegs
  <2>3. nxt \in [Addrs -> Addrs \cup {Bad}] /\ prv \in [Addrs -> Addrs \cup {Bad}]
    BY <2>1, Zenon DEF Init, Addrs, Heads
  <2> QED
    BY <2>2, <2>3, SMTT(30) DEF Init, MsgType
<1>4. \A d \in CPUs : \A k \in Int : Stop(q[d], d, k) = event_list(d)
    BY <1>1, SMTT(30) DEF Stop
<1> HIDE DEF q
<1>5. Chained(q)
    BY <1>1, <1>2, <1>4, SMTT(30) DEF Chained
<1>6. Tailed(q)
    BY <1>1, <1>2, <1>4, SMTT(30) DEF Tailed, End
<1>7. \A c \in CPUs : Placed(q, c)
    BY <1>2, ZenonT(30) DEF Placed, Brings, Adds, Handles, Dels, Keeps
<1>8. Alone /\ Kept(q)
    BY <1>1, <1>2, SMTT(30) DEF Alone, Busy, Adds, Dels, Kept, Has, Brings, Keeps
<1>9. Numbered
    BY <1>2, SMTT(30) DEF Numbered, Apart, Told
<1> QED
    BY <1>1, <1>3, <1>5, <1>6, <1>7, <1>8, <1>9, Zenon DEF Lists

\* Every step of a sender or of a handler keeps the lists, if none has raced.
LEMMA MsgStep ==
    ASSUME MsgInv, [Next]_vars
    PROVE  MsgInv'
<1>1. CASE UNCHANGED vars
  <2>1. UNCHANGED <<nxt, prv, msg, inuse, pc, r, sent, handled, raced>>
    BY <1>1, Zenon DEF vars
  <2>2. ASSUME NEW q, Lists(q) PROVE Lists(q)'
    <3>1. MsgType' /\ Alone' /\ Chained(q)' /\ Tailed(q)'
      BY <2>1, <2>2, Zenon DEF Lists, MsgType, Alone, Chained, Tailed
    <3>2. Kept(q)' /\ Numbered'
      <4>1. Kept(q)'
        BY <2>1, <2>2, SMTT(30) DEF Lists, Kept, Has
      <4>2. Apart'
        BY <2>1, <2>2, Zenon DEF Lists, Numbered, Apart
      <4>3. ASSUME NEW c \in CPUs PROVE Told(c)'
        BY <2>1, <2>2, ToldKept, Zenon DEF Lists, Numbered
      <4> QED
        BY <4>1, <4>2, <4>3, ZenonT(30) DEF Numbered
    <3>3. \A c \in CPUs : Placed(q, c)'
      BY <2>1, <2>2, ZenonT(30) DEF Lists, Placed, Target
    <3> QED
      BY <2>2, <3>1, <3>2, <3>3, Zenon DEF Lists
  <2> QED
    BY <2>1, <2>2, Zenon DEF MsgInv
<1>2. ASSUME NEW c \in CPUs, Send(c) \/ Handle(c) PROVE MsgInv'
  <2> SUFFICES ASSUME ~raced' PROVE \E s \in [CPUs -> Seq(Nodes)] : Lists(s)'
    BY Zenon DEF MsgInv
  <2>1. ~raced
    BY <1>2, Zenon DEF Send, Handle, objpool_alloc, list_add_tail, list_add1, list_add2, list_add3,
        list_add4, sendipi, gic_handle, list_empty, list_last_entry, list_del_load_prev,
        list_del_load_next, list_del1, list_del2, list_poison, objpool_free
  <2>2. PICK q \in [CPUs -> Seq(Nodes)] : Lists(q)
    BY <2>1, Zenon DEF MsgInv
  <2>3. CASE list_add4(c) \/ list_del2(c)
    BY <2>2, <2>3, Add4Step, Del2Step, Zenon
  <2>4. ASSUME NEW t \in CPUs, objpool_alloc(c, t) PROVE Lists(q)'
    BY <2>2, <2>4, AllocStep, Zenon
  <2>5. CASE list_add_tail(c) \/ list_add1(c) \/ list_add2(c) \/ list_add3(c) \/ sendipi(c)
    BY <2>2, <2>5, AddTailStep, Add1Step, Add2Step, Add3Step, SendStep, SMTT(30)
  <2>6. CASE gic_handle(c) \/ list_empty(c) \/ list_last_entry(c) \/ list_del_load_prev(c)
    BY <2>2, <2>6, InterruptStep, EmptyStep, LastStep, LoadPrevStep, ZenonT(30)
  <2>7. CASE list_del_load_next(c) \/ list_del1(c) \/ list_poison(c) \/ objpool_free(c)
    BY <2>2, <2>7, LoadNextStep, Del1Step, PoisonStep, FreeStep, Zenon
  <2> QED
    BY <1>2, <2>3, <2>4, <2>5, <2>6, <2>7, Zenon DEF Send, Handle
<1> QED
    BY <1>1, <1>2, Zenon DEF Next

\* cpu_send_msg and cpu_msg_handler, one memory access at a time, keep what MsgInv
\* says: as long as no CPU has come into a list with another inside it, there is
\* for each CPU a sequence of nodes that its list goes round in both directions,
\* but for the links that the step under way has yet to set.
THEOREM MsgInvariant == Spec => []MsgInv
<1>1. Init => MsgInv
    BY InitLists, Zenon DEF MsgInv
<1>2. MsgInv /\ [Next]_vars => MsgInv'
    BY MsgStep, Zenon
<1> QED
    BY <1>1, <1>2, PTL DEF Spec

\* As long as no two CPUs are inside one list, cpu_msg_handler handles each message
\* once and on the CPU it was sent to, and neither list_del nor list_last_entry
\* meets a pointer that list_del has poisoned.
THEOREM MessagesSound == Spec => []SoundUnlessRaced
<1>1. MsgInv => SoundUnlessRaced
  <2> SUFFICES ASSUME NEW q, Lists(q) PROVE HandledOnce /\ NoPoisonMet
    BY Zenon DEF MsgInv, SoundUnlessRaced
  <2>1. ASSUME NEW c \in CPUs PROVE IsInjective(handled[c])
    <3>1. DOMAIN handled[c] = 1..Len(handled[c])
      BY DEF Lists, MsgType
    <3>2. \A j, k \in 1..Len(handled[c]) : handled[c][j] = handled[c][k] => j = k
      BY Zenon DEF Lists, Numbered, Told
    <3> QED
      BY <3>1, <3>2, Zenon DEF IsInjective
  <2>2. \A c \in CPUs : \A k \in 1..Len(handled[c]) : handled[c][k][1] = c
    BY Zenon DEF Lists, Numbered, Told
  <2>3. NoPoisonMet
    BY Zenon DEF Lists, MsgType, NoPoisonMet, Brings, Adds, Handles, Dels, Keeps
  <2> QED
    BY <2>1, <2>2, <2>3, Zenon DEF HandledOnce
<1> QED
    BY <1>1, MsgInvariant, PTL

\* With the same proviso, whenever no CPU is inside cpu_send_msg or cpu_msg_handler
\* the list of each CPU is a circle, both ways, through the messages sent to it
\* and not yet handled, each once.
THEOREM QueuesIntact == Spec => []IntactUnlessRaced
<1>1. MsgInv => IntactUnlessRaced
  <2> SUFFICES ASSUME NEW q, Lists(q), Resting, NEW d \in CPUs
               PROVE  \E p \in [1..Cardinality(Queued(d)) -> Queued(d)] : IsInjective(p) /\ Circle(d, p)
    BY Zenon DEF MsgInv, IntactUnlessRaced, QueueIntact
  <2>1. q[d] \in Seq(Nodes) /\ DOMAIN q[d] = 1..Len(q[d]) /\ Len(q[d]) \in Nat
    BY SMTT(30) DEF Lists
  <2>2. \A c \in CPUs : ~Has(c) /\ pc[c] \notin {"add2", "add3", "add4", "del2"}
    BY Zenon DEF Resting, Has, Brings, Adds, Keeps
  <2>3. q[d] \in [1..Len(q[d]) -> Queued(d)]
    <3>1. \A k \in 1..Len(q[d]) : q[d][k] \in Queued(d)
      BY Zenon DEF Lists, Kept, Queued
    <3> QED
      BY <2>1, <3>1, SMTT(30)
  <2>4. IsInjective(q[d])
    <3>1. \A j, k \in 1..Len(q[d]) : q[d][j] = q[d][k] => j = k
      BY Zenon DEF Lists, Kept
    <3> QED
      BY <2>1, <3>1, Zenon DEF IsInjective
  <2>5. \A n \in Queued(d) : \E k \in 1..Len(q[d]) : q[d][k] = n
    BY <2>2, Zenon DEF Lists, Kept, Queued
  <2>6. ExistsBijection(1..Len(q[d]), Queued(d))
    BY <2>3, <2>4, <2>5, Zenon DEF ExistsBijection, Bijection, Injection, Surjection
  <2>7. Cardinality(Queued(d)) = Len(q[d])
    BY <2>1, <2>6, FS_CountingElements, Zenon
  <2>8. Circle(d, q[d])
    <3>1. \A k \in 0..Len(q[d]) : nxt[Stop(q[d], d, k)] = Stop(q[d], d, k + 1)
      BY Zenon DEF Lists, Chained
    <3>2. ASSUME NEW k \in 0..Len(q[d]) PROVE prv[Stop(q[d], d, k + 1)] = Stop(q[d], d, k)
      <4>1. CASE k + 1 \in 1..Len(q[d])
        <5>1. Stop(q[d], d, k + 1) = q[d][k + 1] /\ (k + 1) - 1 = k
          BY <2>1, <4>1, SMTT(30) DEF Stop
        <5> QED
          BY <4>1, <5>1, Zenon DEF Lists, Chained
      <4>2. CASE k = Len(q[d])
        <5>1. prv[event_list(d)] = End(q[d], d)
          BY <2>2, Zenon DEF Lists, Tailed
        <5> QED
          BY <2>1, <4>2, <5>1, SMTT(30) DEF Stop, End
      <4> QED
        BY <2>1, <4>1, <4>2, SMTT(30)
    <3> QED
      BY <3>1, <3>2, Zenon DEF Circle, Stop
  <2> QED
    BY <2>3, <2>4, <2>7, <2>8, Zenon
<1> QED
    BY <1>1, MsgInvariant, PTL
==============================================================================
