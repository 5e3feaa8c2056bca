--------------------------- MODULE TicketLockProofs ---------------------------
(***************************************************************************)
(* Proofs about TicketLock, for any number of CPUs below the number of     *)
(* tickets and any number of acquisitions.                                 *)
(***************************************************************************)
EXTENDS TicketLock, FiniteSetTheorems, SequenceTheorems, TLAPS

\* What the proofs need of the remainder: it is a ticket, it follows the
\* successor, and it tells apart numbers less than Modulus from each other.
LEMMA Remainders ==
    ASSUME NEW M \in Nat \ {0}
    PROVE  /\ \A a \in Nat : a % M \in 0..(M - 1)
           /\ \A a \in Nat : ((a % M) + 1) % M = (a + 1) % M
           /\ \A a, b \in Nat : a <= b /\ b - a < M /\ a % M = b % M => a = b
<1>1. ASSUME NEW a \in Nat PROVE a % M \in 0..(M - 1)
  BY SMT
<1>2. ASSUME NEW a \in Nat
      PROVE  a = M * (a \div M) + (a % M) /\ a \div M \in Nat
  BY SMT
<1>3. ASSUME NEW q \in Nat, NEW r \in 0..(M - 1)
      PROVE  (M * q + r) % M = r
  BY SMT
<1>4. ASSUME NEW a \in Nat PROVE ((a % M) + 1) % M = (a + 1) % M
  <2> DEFINE q == a \div M
             r == a % M
  <2>1. r \in 0..(M - 1) /\ q \in Nat /\ a = M * q + r
    BY <1>1, <1>2
  <2> HIDE DEF q, r
  <2>2. CASE r + 1 < M
    <3>1. r + 1 \in 0..(M - 1) /\ a + 1 = M * q + (r + 1)
      BY <2>1, <2>2, SMTT(30)
    <3>2. (M * q + (r + 1)) % M = r + 1
      BY <3>1, <2>1, <1>3, SMTT(30)
    <3>3. (r + 1) % M = r + 1
      BY <3>1, SMTT(30)
    <3>4. QED
      BY <3>1, <3>2, <3>3, SMTT(30) DEF r
  <2>3. CASE r + 1 = M
    <3>1. a + 1 = M * (q + 1) + 0 /\ q + 1 \in Nat /\ 0 \in 0..(M - 1)
      BY <2>1, <2>3
    <3>2. (M * (q + 1) + 0) % M = 0
      BY <3>1, <1>3, Zenon
    <3>3. M % M = 0
      BY SMT
    <3>4. QED
      BY <2>3, <3>1, <3>2, <3>3, Zenon DEF r
  <2>4. QED
    BY <2>1, <2>2, <2>3, SMTT(30)
<1>5. ASSUME NEW a \in Nat, NEW b \in Nat, a <= b, b - a < M, a % M = b % M
      PROVE  a = b
  <2> DEFINE p == a \div M
             q == b \div M
             r == a % M
  <2>1. /\ p \in Nat /\ q \in Nat /\ r \in Nat
        /\ a = M * p + r /\ b = M * q + r
    BY <1>1, <1>2, <1>5, SMTT(30)
  <2> HIDE DEF p, q, r
  <2>2. M * q - M * p < M /\ M * p <= M * q
    BY <2>1, <1>5
  <2>3. ~(q >= p + 1)
    <3> SUFFICES ASSUME q >= p + 1 PROVE FALSE
      OBVIOUS
    <3>1. M * q >= M * (p + 1)
      BY <2>1, SMTT(30)
    <3>2. M * (p + 1) = M * p + M
      BY <2>1, SMTT(30)
    <3>3. M * p \in Nat /\ M * q \in Nat
      BY <2>1, SMTT(30)
    <3>4. QED
      BY <2>2, <3>1, <3>2, <3>3, SMTT(30)
  <2>4. ~(p >= q + 1)
    <3> SUFFICES ASSUME p >= q + 1 PROVE FALSE
      OBVIOUS
    <3>1. M * p >= M * (q + 1)
      BY <2>1, SMTT(30)
    <3>2. M * (q + 1) = M * q + M
      BY <2>1, SMTT(30)
    <3>3. M * p \in Nat /\ M * q \in Nat
      BY <2>1, SMTT(30)
    <3>4. QED
      BY <2>2, <3>1, <3>2, <3>3, SMTT(30)
  <2>5. QED
    BY <2>1, <2>3, <2>4, SMTT(30)
<1>6. QED
  BY <1>1, <1>4, <1>5

\* There are tickets, and sets of CPUs are counted as expected.
LEMMA Counting ==
    /\ Modulus \in Nat \ {0}
    /\ \A S \in SUBSET CPUs :
          /\ Cardinality(S) \in Nat /\ Cardinality(S) < Modulus
          /\ \A c \in CPUs \ S : Cardinality(S \cup {c}) = Cardinality(S) + 1
          /\ \A c \in S : Cardinality(S \ {c}) = Cardinality(S) - 1
<1>1. Cardinality(CPUs) \in Nat
  BY LockAssumption, FS_CardinalityType
<1>2. Modulus \in Nat \ {0}
  BY <1>1, LockAssumption, SMTT(30)
<1>3. ASSUME NEW S \in SUBSET CPUs
      PROVE  IsFiniteSet(S) /\ Cardinality(S) \in Nat /\ Cardinality(S) <= Cardinality(CPUs)
  BY <1>3, LockAssumption, FS_Subset, FS_CardinalityType, SMTT(30)
<1>4. ASSUME NEW S \in SUBSET CPUs, NEW c \in CPUs \ S
      PROVE  Cardinality(S \cup {c}) = Cardinality(S) + 1
  BY <1>3, FS_AddElement, SMTT(30)
<1>5. ASSUME NEW S \in SUBSET CPUs, NEW c \in S
      PROVE  Cardinality(S \ {c}) = Cardinality(S) - 1
  BY <1>3, FS_RemoveElement, SMTT(30)
<1>6. ASSUME NEW S \in SUBSET CPUs
      PROVE  Cardinality(S) < Modulus
  BY <1>1, <1>3, LockAssumption, SMTT(30)
<1>7. QED
  BY <1>2, <1>3, <1>4, <1>5, <1>6, SMTT(30)

\* No ticket is drawn when the lock is set up.
LEMMA InitIInv == Init => IInv
<1> SUFFICES ASSUME Init PROVE IInv
  OBVIOUS
<1>1. Queue = {}
  BY DEF Init, Queue
<1>2. Cardinality(Queue) = 0
  BY <1>1, FS_EmptySet, SMTT(30)
<1>3. 0 % Modulus = 0 /\ 0 \in 0..(Modulus - 1)
  BY Counting, SMTT(30)
<1>4. TypeOK
  BY <1>3 DEF Init, TypeOK
<1>5. \A c \in CPUs : pc[c] = "out"
  BY DEF Init
<1>6. /\ ticket = drawn % Modulus /\ next = served % Modulus
      /\ served <= drawn /\ drawn - served = Cardinality(Queue)
  BY <1>2, <1>3, SMTT(30) DEF Init
<1>7. served..(drawn - 1) = {}
  BY SMTT(30) DEF Init
<1>8. QED
  BY <1>1, <1>4, <1>5, <1>6, <1>7, SMTT(30) DEF IInv, Holding

\* The load of ldaxr is what the lock holds, until somebody stores.
LEMMA LdaxrStep ==
    ASSUME IInv, NEW c \in CPUs, ldaxr(c)
    PROVE  IInv'
<1>1. Queue' = Queue
  BY SMTT(30) DEF IInv, TypeOK, ldaxr, Goto, Queue
<1>2. TypeOK'
  BY SMTT(30) DEF IInv, TypeOK, ldaxr, Goto, history
<1>3. \A d \in CPUs : d # c => pc'[d] = pc[d] /\ w0'[d] = w0[d] /\ mon'[d] = mon[d]
  BY SMTT(30) DEF IInv, TypeOK, ldaxr, Goto
<1>4. pc'[c] = "stxr" /\ w0'[c] = ticket /\ c \notin Queue
  BY DEF IInv, TypeOK, ldaxr, Goto, Queue
<1>5. UNCHANGED <<ticket, next, w1, drawn, served, turn>>
  BY SMTT(30) DEF ldaxr, history
<1>6. (\A d \in Queue : turn[d] \in served..(drawn - 1) /\ w0[d] = turn[d] % Modulus)'
  BY <1>1, <1>3, <1>4, <1>5, SMTT(30) DEF IInv, Queue
<1>7. (\A d \in CPUs : Holding(d) => turn[d] = served)'
  BY <1>3, <1>4, <1>5, SMTT(30) DEF IInv, Holding
<1>8. (\A d \in CPUs : pc[d] = "store_next" => w1[d] = (next + 1) % Modulus)'
  BY <1>3, <1>4, <1>5, SMTT(30) DEF IInv
<1>9. (\A d \in CPUs : pc[d] = "stxr" /\ mon[d] => w0[d] = ticket)'
  BY <1>3, <1>4, <1>5, SMTT(30) DEF IInv
<1>10. QED
  BY <1>1, <1>2, <1>5, <1>6, <1>7, <1>8, <1>9, SMTT(30) DEF IInv

\* A ticket is drawn: it is the next number, nobody in the queue has it.
LEMMA StxrStep ==
    ASSUME IInv, NEW c \in CPUs, stxr(c)
    PROVE  IInv'
<1>1. c \notin Queue /\ pc[c] = "stxr"
  BY SMTT(30) DEF stxr, Queue
<1>2. CASE mon[c]
  <2>1. /\ w0[c] = ticket
        /\ ticket' = (w0[c] + 1) % Modulus
        /\ mon' = [d \in CPUs |-> FALSE]
        /\ drawn' = drawn + 1
        /\ turn' = [turn EXCEPT ![c] = drawn]
        /\ pc' = [pc EXCEPT ![c] = "check"]
        /\ UNCHANGED <<next, event, w0, w1, served>>
    BY <1>1, <1>2, SMTT(30) DEF IInv, stxr, Goto
  <2>2. Queue' = Queue \cup {c}
    BY <2>1, SMTT(30) DEF IInv, TypeOK, Queue
  <2>3. drawn \in Nat /\ served \in Nat /\ Cardinality(Queue') = Cardinality(Queue) + 1
    <3>1. Queue \in SUBSET CPUs
      BY DEF Queue
    <3>2. Cardinality(Queue \cup {c}) = Cardinality(Queue) + 1
      BY <1>1, <3>1, Counting, SMTT(30)
    <3>3. QED
      BY <2>2, <3>2, SMTT(30) DEF IInv, TypeOK
  <2>4. ticket' = drawn' % Modulus
    <3>1. ticket = drawn % Modulus
      BY DEF IInv
    <3>2. QED
      BY <2>1, <2>3, <3>1, Counting, Remainders, Zenon
  <2>5. ticket' \in 0..(Modulus - 1)
    BY <2>1, <2>3, <2>4, Counting, Remainders, SMTT(30)
  <2>6. TypeOK'
    BY <2>1, <2>3, <2>5 DEF IInv, TypeOK
  <2>7. \A d \in CPUs : d # c => pc'[d] = pc[d] /\ turn'[d] = turn[d]
    BY <2>1 DEF IInv, TypeOK
  <2>8. pc'[c] = "check" /\ turn'[c] = drawn
    BY <2>1, SMTT(30) DEF IInv, TypeOK
  <2>9. served' <= drawn' /\ drawn' - served' = Cardinality(Queue')
    <3>1. served <= drawn /\ drawn - served = Cardinality(Queue)
      BY DEF IInv
    <3>2. QED
      BY <2>1, <2>3, <3>1, SMTT(30)
  <2>10. (\A d \in Queue : turn[d] \in served..(drawn - 1) /\ w0[d] = turn[d] % Modulus)'
    <3>1. ASSUME NEW d \in Queue
          PROVE  turn'[d] \in served'..(drawn' - 1) /\ w0'[d] = turn'[d] % Modulus
      <4>1. d \in CPUs /\ d # c /\ turn'[d] = turn[d]
        BY <1>1, <2>7, SMTT(30) DEF Queue
      <4>2. turn[d] \in served..(drawn - 1) /\ w0[d] = turn[d] % Modulus
        BY SMTT(30) DEF IInv
      <4>3. QED
        BY <4>1, <4>2, <2>1, <2>3, SMTT(30)
    <3>2. turn'[c] \in served'..(drawn' - 1) /\ w0'[c] = turn'[c] % Modulus
      BY <2>1, <2>3, <2>8, SMTT(30) DEF IInv
    <3>3. QED
      BY <2>2, <3>1, <3>2, SMTT(30)
  <2>11. (\A d, e \in Queue : turn[d] = turn[e] => d = e)'
    <3>1. \A d \in Queue : turn'[d] = turn[d] /\ turn[d] < drawn
      BY <1>1, <2>3, <2>7, SMTT(30) DEF IInv, Queue
    <3>2. \A d \in Queue : turn'[d] # turn'[c]
      BY <2>3, <2>8, <3>1, SMTT(30)
    <3>3. QED
      BY <2>2, <3>1, <3>2, SMTT(30) DEF IInv
  <2>12. (\A d \in CPUs : Holding(d) => turn[d] = served)'
    BY <2>1, <2>7, <2>8, SMTT(30) DEF IInv, Holding
  <2>13. (\A d \in CPUs : pc[d] = "store_next" => w1[d] = (next + 1) % Modulus)'
    BY <2>1, <2>7, <2>8, SMTT(30) DEF IInv
  <2>14. (\A d \in CPUs : pc[d] = "stxr" /\ mon[d] => w0[d] = ticket)'
    BY <2>1, SMTT(30)
  <2>15. next' = served' % Modulus
    BY <2>1, SMTT(30) DEF IInv
  <2>16. (\A k \in served..(drawn - 1) : \E d \in Queue : turn[d] = k)'
    <3> SUFFICES ASSUME NEW k \in served..drawn
                 PROVE  \E d \in Queue' : turn'[d] = k
      BY <2>1, <2>3, SMTT(30)
    <3>1. CASE k = drawn
      BY <2>2, <2>8, <3>1, SMTT(30)
    <3>2. CASE k # drawn
      <4>1. k \in served..(drawn - 1)
        BY <3>2, <2>3, SMTT(30)
      <4>2. PICK d \in Queue : turn[d] = k
        BY <4>1, SMTT(30) DEF IInv
      <4>3. d \in CPUs /\ d # c
        BY <1>1, SMTT(30) DEF Queue
      <4>4. QED
        BY <4>2, <4>3, <2>2, <2>7, SMTT(30)
    <3>3. QED
      BY <3>1, <3>2, SMTT(30)
  <2>17. QED
    BY <2>16, <2>4, <2>6, <2>9, <2>10, <2>11, <2>12, <2>13, <2>14, <2>15, SMTT(30) DEF IInv
<1>3. CASE ~mon[c]
  <2>1. /\ pc' = [pc EXCEPT ![c] = "out"]
        /\ UNCHANGED <<ticket, next, mon, event, w0, w1, drawn, served, turn>>
    BY <1>1, <1>3, SMTT(30) DEF stxr, Goto
  <2>2. Queue' = Queue
    BY <1>1, <2>1, SMTT(30) DEF IInv, TypeOK, Queue
  <2>3. TypeOK'
    BY <2>1, SMTT(30) DEF IInv, TypeOK
  <2>4. \A d \in CPUs : pc'[d] = IF d = c THEN "out" ELSE pc[d]
    BY <2>1, SMTT(30) DEF IInv, TypeOK
  <2>5. QED
    BY <2>1, <2>2, <2>3, <2>4, SMTT(30) DEF IInv, Holding
<1>4. QED
  BY <1>2, <1>3, SMTT(30)

\* A CPU enters when its ticket is next: since fewer than Modulus tickets
\* are out, equal modulo Modulus is equal.
LEMMA LdarStep ==
    ASSUME IInv, NEW c \in CPUs, ldar(c)
    PROVE  IInv'
<1>1. /\ pc[c] = "check" /\ c \in Queue
      /\ pc' = [pc EXCEPT ![c] = IF MyTurn(c) THEN "inside" ELSE "wfe"]
      /\ UNCHANGED <<ticket, next, mon, event, w0, w1, drawn, served, turn>>
  BY SMTT(30) DEF ldar, Goto, Queue, history
<1>2. \A d \in CPUs : d # c => pc'[d] = pc[d]
  BY <1>1, SMTT(30) DEF IInv, TypeOK
<1>3. pc'[c] = IF MyTurn(c) THEN "inside" ELSE "wfe"
  BY <1>1, SMTT(30) DEF IInv, TypeOK
<1>4. Queue' = Queue
  BY <1>1, <1>2, <1>3, SMTT(30) DEF Queue
<1>5. TypeOK'
  BY <1>1, SMTT(30) DEF IInv, TypeOK
<1>6. MyTurn(c) => turn[c] = served
  <2> SUFFICES ASSUME MyTurn(c) PROVE turn[c] = served
    OBVIOUS
  <2>1. /\ turn[c] \in served..(drawn - 1) /\ w0[c] = turn[c] % Modulus
        /\ served \in Nat /\ drawn \in Nat
        /\ drawn - served = Cardinality(Queue) /\ next = served % Modulus
    BY <1>1 DEF IInv, TypeOK
  <2>2. Cardinality(Queue) < Modulus /\ Cardinality(Queue) \in Nat /\ Modulus \in Nat \ {0}
    BY Counting DEF Queue
  <2>3. /\ turn[c] \in Nat /\ served <= turn[c] /\ turn[c] - served < Modulus
    BY <2>1, <2>2
  <2>4. served % Modulus = turn[c] % Modulus
    BY <2>1, Zenon DEF MyTurn
  <2>5. QED
    BY <2>1, <2>2, <2>3, <2>4, Remainders, Zenon
<1>7. (\A d \in CPUs : Holding(d) => turn[d] = served)'
  BY <1>1, <1>2, <1>3, <1>6 DEF IInv, Holding
<1>8. (\A d \in CPUs : pc[d] = "store_next" => w1[d] = (next + 1) % Modulus)'
  BY <1>1, <1>2, <1>3 DEF IInv
<1>9. (\A d \in CPUs : pc[d] = "stxr" /\ mon[d] => w0[d] = ticket)'
  BY <1>1, <1>2, <1>3 DEF IInv
<1>10. QED
  BY <1>1, <1>4, <1>5, <1>7, <1>8, <1>9, SMTT(30) DEF IInv

\* Waking up, reading next in spin_unlock and sev keep the queue as it is.
LEMMA LocalStep ==
    ASSUME IInv, NEW c \in CPUs, wfe(c) \/ ldr(c) \/ sev(c)
    PROVE  IInv'
<1>1. /\ UNCHANGED <<ticket, next, mon, w0, drawn, served, turn>>
      /\ \E p \in {"check", "store_next", "out"} : pc' = [pc EXCEPT ![c] = p]
  BY SMTT(30) DEF wfe, ldr, sev, Goto, history
<1>2. \A d \in CPUs : d # c => pc'[d] = pc[d] /\ w1'[d] = w1[d]
  BY <1>1, SMTT(30) DEF IInv, TypeOK, wfe, ldr, sev
<1>3. \/ pc[c] = "wfe" /\ pc'[c] = "check"
      \/ /\ pc[c] = "inside" /\ pc'[c] = "store_next"
         /\ w1'[c] = (next + 1) % Modulus
      \/ pc[c] = "sev" /\ pc'[c] = "out"
  BY SMTT(30) DEF IInv, TypeOK, wfe, ldr, sev, Goto
<1>4. Queue' = Queue
  BY <1>2, <1>3, SMTT(30) DEF Queue
<1>5. next \in Nat /\ (next + 1) % Modulus \in 0..(Modulus - 1)
  <2>1. next \in 0..(Modulus - 1)
    BY SMTT(30) DEF IInv, TypeOK
  <2>2. QED
    BY <2>1, Counting, Remainders, SMTT(30)
<1>6. event' \in [CPUs -> BOOLEAN]
  BY Zenon DEF IInv, TypeOK, wfe, ldr, sev
<1>7. w1' \in [CPUs -> 0..(Modulus - 1)]
  BY <1>5 DEF IInv, TypeOK, wfe, ldr, sev
<1>8. TypeOK'
  <2>1. TypeOK
    BY DEF IInv
  <2>2. QED
    BY <1>1, <1>6, <1>7, <2>1 DEF TypeOK
<1>9. (\A d \in CPUs : Holding(d) => turn[d] = served)'
  BY <1>1, <1>2, <1>3 DEF IInv, Holding
<1>10. (\A d \in CPUs : pc[d] = "store_next" => w1[d] = (next + 1) % Modulus)'
  BY <1>1, <1>2, <1>3, SMTT(30) DEF IInv
<1>11. (\A d \in CPUs : pc[d] = "stxr" /\ mon[d] => w0[d] = ticket)'
  BY <1>1, <1>2, <1>3, SMTT(30) DEF IInv
<1>12. QED
  BY <1>1, <1>4, <1>8, <1>9, <1>10, <1>11, SMTT(30) DEF IInv

\* The holder serves its ticket: the only one with that number, so the rest
\* of the queue starts one later and nobody else holds.
LEMMA StlrStep ==
    ASSUME IInv, NEW c \in CPUs, stlr(c)
    PROVE  IInv'
<1>1. /\ pc[c] = "store_next" /\ c \in Queue /\ Holding(c)
      /\ next' = w1[c] /\ served' = served + 1
      /\ pc' = [pc EXCEPT ![c] = "sev"]
      /\ UNCHANGED <<ticket, mon, event, w0, w1, drawn, turn>>
  BY SMTT(30) DEF stlr, Goto, Queue, Holding
<1>2. \A d \in CPUs : pc'[d] = IF d = c THEN "sev" ELSE pc[d]
  BY <1>1, SMTT(30) DEF IInv, TypeOK
<1>3. Queue' = Queue \ {c}
  BY <1>1, <1>2, SMTT(30) DEF Queue
<1>4. turn[c] = served /\ w1[c] = (next + 1) % Modulus /\ next = served % Modulus
  BY <1>1, SMTT(30) DEF IInv
<1>5. /\ served \in Nat /\ drawn \in Nat /\ turn \in [CPUs -> Nat]
      /\ drawn - served = Cardinality(Queue) /\ turn[c] \in served..(drawn - 1)
  BY <1>1, SMTT(30) DEF IInv, TypeOK
<1>6. next' = served' % Modulus
  BY <1>1, <1>4, <1>5, Counting, Remainders, Zenon
<1>7. next' \in 0..(Modulus - 1)
  BY <1>1, <1>5, <1>6, Counting, Remainders
<1>8. TypeOK'
  BY <1>1, <1>5, <1>7 DEF IInv, TypeOK
<1>9. Cardinality(Queue') = Cardinality(Queue) - 1
  <2>1. Queue \in SUBSET CPUs
    BY DEF Queue
  <2>2. QED
    BY <1>1, <1>3, <2>1, Counting
<1>10. served' <= drawn' /\ drawn' - served' = Cardinality(Queue')
  BY <1>1, <1>5, <1>9, SMTT(30) DEF IInv
<1>11. \A d \in Queue : d # c => turn[d] # served
  BY <1>1, <1>4, SMTT(30) DEF IInv
<1>12. (\A d \in Queue : turn[d] \in served..(drawn - 1) /\ w0[d] = turn[d] % Modulus)'
  <2> SUFFICES ASSUME NEW d \in Queue'
               PROVE  turn[d] \in (served + 1)..(drawn - 1) /\ w0[d] = turn[d] % Modulus
    BY <1>1, SMTT(30)
  <2>1. d \in Queue /\ d # c
    BY <1>3, SMTT(30)
  <2>2. turn[d] \in served..(drawn - 1) /\ w0[d] = turn[d] % Modulus /\ turn[d] # served
    BY <2>1, <1>11, SMTT(30) DEF IInv
  <2>3. QED
    BY <2>2, <1>5, SMTT(30)
<1>13. (\A d, e \in Queue : turn[d] = turn[e] => d = e)'
  BY <1>1, <1>3, SMTT(30) DEF IInv
<1>14. \A d \in CPUs : d # c => ~Holding(d)
  BY <1>4, <1>11, SMTT(30) DEF IInv, Holding, Queue
<1>15. \A d \in CPUs : ~Holding(d)'
  BY <1>2, <1>14, SMTT(30) DEF Holding
<1>16. (\A d \in CPUs : pc[d] = "store_next" => w1[d] = (next + 1) % Modulus)'
  BY <1>15, SMTT(30) DEF Holding
<1>17. (\A d \in CPUs : pc[d] = "stxr" /\ mon[d] => w0[d] = ticket)'
  BY <1>1, <1>2, SMTT(30) DEF IInv
<1>18. ticket' = drawn' % Modulus
  BY <1>1, SMTT(30) DEF IInv
<1>19. (\A k \in served..(drawn - 1) : \E d \in Queue : turn[d] = k)'
  <2> SUFFICES ASSUME NEW k \in (served + 1)..(drawn - 1)
               PROVE  \E d \in Queue' : turn[d] = k
    BY <1>1, SMTT(30)
  <2>1. k \in served..(drawn - 1) /\ k # served
    BY <1>5, SMTT(30)
  <2>2. PICK d \in Queue : turn[d] = k
    BY <2>1, SMTT(30) DEF IInv
  <2>3. d # c
    BY <2>1, <2>2, <1>4, SMTT(30)
  <2>4. QED
    BY <2>2, <2>3, <1>3, SMTT(30)
<1>20. QED
  BY <1>19, <1>6, <1>8, <1>10, <1>12, <1>13, <1>15, <1>16, <1>17, <1>18, SMTT(30) DEF IInv

\* Every instruction of spin_lock and spin_unlock keeps the window of tickets.
LEMMA NextIInv == IInv /\ [Next]_vars => IInv'
<1> SUFFICES ASSUME IInv, [Next]_vars PROVE IInv'
  OBVIOUS
<1>1. ASSUME NEW c \in CPUs, Acquire(c) \/ Release(c) PROVE IInv'
  BY <1>1, LdaxrStep, StxrStep, LdarStep, LocalStep, StlrStep, SMTT(30) DEF Acquire, Release
<1>2. CASE UNCHANGED vars
  BY <1>2, SMTT(30) DEF vars, IInv, TypeOK, Queue, Holding
<1>3. QED
  BY <1>1, <1>2, SMTT(30) DEF Next

\* IInv holds in every reachable state of spin_lock and spin_unlock.
THEOREM InductiveInvariant == Spec => []IInv
BY InitIInv, NextIInv, PTL DEF Spec

\* Two CPUs that hold the lock have the same ticket, hence are the same.
LEMMA HolderIsUnique == IInv => MutualExclusion
<1>1. \A c \in CPUs : Holding(c) => c \in Queue
  BY DEF Holding, Queue
<1>2. QED
  BY <1>1, SMTT(30) DEF IInv, MutualExclusion

\* spin_lock excludes, for every number of CPUs below 2^32, however often
\* the tickets wrap around.
THEOREM LockExcludes == Spec => []MutualExclusion
BY InductiveInvariant, HolderIsUnique, PTL

\* Line has the CPUs of the queue in the order of their tickets.
IsLine(s) ==
    /\ s \in Seq(CPUs) /\ Len(s) = drawn - served
    /\ \A k \in 1..Len(s) : s[k] \in Queue /\ turn[s[k]] = served + k - 1

\* Line is the one sequence of that kind, since each of the tickets not yet
\* served was drawn by exactly one CPU of the queue.
LEMMA LineIsLine == IInv => IsLine(Line) /\ \A s : IsLine(s) => s = Line
<1> SUFFICES ASSUME IInv PROVE IsLine(Line) /\ \A s : IsLine(s) => s = Line
  BY SMTT(30)
<1> DEFINE n == drawn - served
<1>1. n \in Nat /\ served \in Nat /\ drawn \in Nat
  BY DEF IInv, TypeOK
<1>2. ASSUME NEW k \in 1..n
      PROVE  Line[k] \in Queue /\ turn[Line[k]] = served + k - 1
  <2>1. served + k - 1 \in served..(drawn - 1)
    BY <1>1, SMTT(30)
  <2>2. \E c \in Queue : turn[c] = served + k - 1
    BY <2>1, SMTT(30) DEF IInv
  <2>3. QED
    BY <2>2 DEF Line
<1>3. Line \in [1..n -> CPUs]
  BY <1>2 DEF Line, Queue
<1>4. Line \in Seq(CPUs) /\ Len(Line) = n
  BY <1>1, <1>3, SMTT(30)
<1>5. IsLine(Line)
  BY <1>2, <1>4, SMTT(30) DEF IsLine
<1>6. ASSUME NEW s, IsLine(s) PROVE s = Line
  <2>1. s \in Seq(CPUs) /\ Len(s) = Len(Line)
    BY <1>4, <1>6, SMTT(30) DEF IsLine
  <2>2. ASSUME NEW k \in 1..Len(s) PROVE s[k] = Line[k]
    BY <1>2, <1>6, <2>1, <1>4, SMTT(30) DEF IsLine, IInv
  <2>3. QED
    BY <1>4, <2>1, <2>2, SeqEqual, SMTT(30)
<1>7. QED
  BY <1>5, <1>6, SMTT(30)

\* The same of the state after a step.
LEMMA LineIsLineNext ==
    IInv' => \A s :
                /\ s \in Seq(CPUs) /\ Len(s) = drawn' - served'
                /\ \A k \in 1..Len(s) : s[k] \in Queue' /\ turn'[s[k]] = served' + k - 1
                => s = Line'
<1>1. (IInv => IsLine(Line) /\ \A s : IsLine(s) => s = Line)'
  BY LineIsLine, PTL
<1>2. QED
  BY <1>1, SMTT(30) DEF IsLine

\* The initial state is the initial state of FifoLock.
LEMMA InitRefines == Init => F!Init
<1> SUFFICES ASSUME Init PROVE F!Init
  OBVIOUS
<1>1. Line = <<>>
  BY DEF Init, Line
<1>2. Holders = {}
  BY SMTT(30) DEF Init, Holders, Holding
<1>3. QED
  BY <1>1, <1>2, SMTT(30) DEF F!Init

\* Nothing that FifoLock sees changes: a step that keeps the tickets, the
\* queue and the holders.
LEMMA SameLine ==
    ASSUME IInv, IInv', Queue' = Queue, UNCHANGED <<drawn, served, turn>>
    PROVE  Line' = Line
BY LineIsLine, LineIsLineNext, SMTT(30) DEF IsLine

\* Drawing a ticket asks for the lock.
LEMMA StxrRefines ==
    ASSUME IInv, IInv', NEW c \in CPUs, stxr(c)
    PROVE  F!Ask(c) \/ UNCHANGED <<Line, Holders>>
<1>1. pc[c] = "stxr" /\ c \notin Queue
  BY SMTT(30) DEF stxr, Queue
<1>2. \A d \in CPUs : d # c => pc'[d] = pc[d]
  BY SMTT(30) DEF IInv, TypeOK, stxr, Goto
<1>3. pc'[c] \in {"check", "out"}
  BY SMTT(30) DEF IInv, TypeOK, stxr, Goto
<1>4. Holders' = Holders
  BY <1>1, <1>2, <1>3, SMTT(30) DEF Holders, Holding
<1>5. CASE ~mon[c]
  <2>1. pc'[c] = "out" /\ UNCHANGED <<drawn, served, turn>>
    BY <1>5, SMTT(30) DEF IInv, TypeOK, stxr, Goto
  <2>2. Queue' = Queue
    BY <1>1, <1>2, <2>1, SMTT(30) DEF Queue
  <2>3. QED
    BY <1>4, <2>1, <2>2, SameLine, SMTT(30)
<1>6. CASE mon[c]
  <2>1. /\ pc'[c] = "check" /\ drawn' = drawn + 1 /\ served' = served
        /\ turn' = [turn EXCEPT ![c] = drawn]
    BY <1>6, SMTT(30) DEF IInv, TypeOK, stxr, Goto
  <2>2. Queue' = Queue \cup {c}
    BY <1>2, <2>1, SMTT(30) DEF Queue
  <2>3. /\ Line \in Seq(CPUs) /\ Len(Line) = drawn - served
        /\ \A k \in 1..Len(Line) : Line[k] \in Queue /\ turn[Line[k]] = served + k - 1
    BY LineIsLine, SMTT(30) DEF IsLine
  <2>4. drawn \in Nat /\ served \in Nat /\ served <= drawn /\ turn \in [CPUs -> Nat]
    BY SMTT(30) DEF IInv, TypeOK
  <2> DEFINE s == Append(Line, c)
  <2>5. s \in Seq(CPUs) /\ Len(s) = Len(Line) + 1 /\ s[Len(Line) + 1] = c
    BY <2>3, SMTT(30)
  <2>6. \A k \in 1..Len(Line) : s[k] = Line[k]
    BY <2>3, SMTT(30)
  <2> HIDE DEF s
  <2>7. ASSUME NEW k \in 1..Len(s)
        PROVE  s[k] \in Queue' /\ turn'[s[k]] = served' + k - 1
    <3>1. CASE k = Len(Line) + 1
      <4>1. s[k] = c /\ turn'[c] = drawn
        BY <2>1, <2>4, <2>5, <3>1, SMTT(30)
      <4>2. QED
        BY <4>1, <2>1, <2>2, <2>3, <2>4, <3>1, SMTT(30)
    <3>2. CASE k # Len(Line) + 1
      <4>1. k \in 1..Len(Line)
        BY <2>3, <2>4, <2>5, <3>2, SMTT(30)
      <4>2. s[k] \in Queue /\ turn[s[k]] = served + k - 1
        BY <4>1, <2>3, <2>6, SMTT(30)
      <4>3. s[k] # c /\ s[k] \in CPUs
        BY <4>2, <1>1, SMTT(30) DEF Queue
      <4>4. turn'[s[k]] = turn[s[k]]
        BY <4>3, <2>1, <2>4, SMTT(30)
      <4>5. QED
        BY <4>2, <4>4, <2>1, <2>2, SMTT(30)
    <3>3. QED
      BY <3>1, <3>2, SMTT(30)
  <2>8. Len(s) = drawn' - served'
    BY <2>1, <2>3, <2>4, <2>5, SMTT(30)
  <2>10. Line' = s
    BY <2>5, <2>7, <2>8, LineIsLineNext, SMTT(30)
  <2>11. \A k \in 1..Len(Line) : Line[k] # c
    BY <1>1, <2>3, SMTT(30)
  <2>12. QED
    BY <1>4, <2>10, <2>11, SMTT(30) DEF F!Ask, s
<1>7. QED
  BY <1>5, <1>6, SMTT(30)

\* Seeing one's ticket in next enters, first in line and alone.
LEMMA LdarRefines ==
    ASSUME IInv, IInv', NEW c \in CPUs, ldar(c)
    PROVE  F!Enter(c) \/ UNCHANGED <<Line, Holders>>
<1>1. /\ pc[c] = "check" /\ c \in Queue
      /\ UNCHANGED <<drawn, served, turn>>
  BY SMTT(30) DEF ldar, Queue, history
<1>2. \A d \in CPUs : d # c => pc'[d] = pc[d]
  BY SMTT(30) DEF IInv, TypeOK, ldar, Goto
<1>3. pc'[c] \in {"inside", "wfe"}
  BY SMTT(30) DEF IInv, TypeOK, ldar, Goto
<1>4. Queue' = Queue
  BY <1>1, <1>2, <1>3, SMTT(30) DEF Queue
<1>5. Line' = Line
  BY <1>1, <1>4, SameLine, SMTT(30)
<1>6. CASE pc'[c] = "wfe"
  <2>1. Holders' = Holders
    BY <1>1, <1>2, <1>6, SMTT(30) DEF Holders, Holding
  <2>2. QED
    BY <1>5, <2>1, SMTT(30)
<1>7. CASE pc'[c] = "inside"
  <2>1. turn[c] = served
    <3>1. Holding(c)'
      BY <1>7, SMTT(30) DEF Holding
    <3>2. QED
      BY <1>1, <3>1, SMTT(30) DEF IInv
  <2>2. \A d \in CPUs : Holding(d) => d = c
    BY <1>1, <2>1, SMTT(30) DEF IInv, Holding, Queue
  <2>3. Holders = {}
    BY <1>1, <2>2, SMTT(30) DEF Holders, Holding
  <2>4. Holders' = {c}
    BY <1>2, <1>7, <2>3, SMTT(30) DEF Holders, Holding
  <2>5. /\ Line \in Seq(CPUs) /\ Len(Line) = drawn - served
        /\ \A k \in 1..Len(Line) : Line[k] \in Queue /\ turn[Line[k]] = served + k - 1
    BY LineIsLine DEF IsLine
  <2>6. served \in Nat /\ drawn \in Nat /\ turn[c] \in served..(drawn - 1)
    BY <1>1, SMTT(30) DEF IInv, TypeOK
  <2>7. 1 \in 1..Len(Line)
    BY <2>5, <2>6, SMTT(30)
  <2>8. Line[1] \in Queue /\ turn[Line[1]] = served
    BY <2>5, <2>6, <2>7, SMTT(30)
  <2>9. Line[1] = c
    BY <1>1, <2>1, <2>8, SMTT(30) DEF IInv
  <2>10. Line # <<>> /\ Head(Line) = c
    BY <2>5, <2>7, <2>9, SMTT(30)
  <2>11. QED
    BY <1>5, <2>3, <2>4, <2>10, SMTT(30) DEF F!Enter
<1>8. QED
  BY <1>3, <1>6, <1>7, SMTT(30)

\* The store to next leaves.
LEMMA StlrRefines ==
    ASSUME IInv, IInv', NEW c \in CPUs, stlr(c)
    PROVE  F!Leave(c)
<1>1. /\ pc[c] = "store_next" /\ c \in Queue /\ Holding(c)
      /\ drawn' = drawn /\ served' = served + 1 /\ turn' = turn
  BY SMTT(30) DEF stlr, Queue, Holding
<1>2. \A d \in CPUs : pc'[d] = IF d = c THEN "sev" ELSE pc[d]
  BY SMTT(30) DEF IInv, TypeOK, stlr, Goto
<1>3. Queue' = Queue \ {c}
  BY <1>1, <1>2, SMTT(30) DEF Queue
<1>4. \A d \in CPUs : Holding(d) => d = c
  BY <1>1, HolderIsUnique, SMTT(30) DEF MutualExclusion
<1>5. Holders = {c}
  BY <1>1, <1>4, SMTT(30) DEF Holders
<1>6. Holders' = {}
  BY <1>2, <1>4, SMTT(30) DEF Holders, Holding
<1>7. /\ Line \in Seq(CPUs) /\ Len(Line) = drawn - served
      /\ \A k \in 1..Len(Line) : Line[k] \in Queue /\ turn[Line[k]] = served + k - 1
  BY LineIsLine DEF IsLine
<1>8. /\ served \in Nat /\ drawn \in Nat /\ turn[c] = served
      /\ turn[c] \in served..(drawn - 1)
  BY <1>1, SMTT(30) DEF IInv, TypeOK
<1>9. Line # <<>>
  BY <1>7, <1>8, SMTT(30)
<1> DEFINE s == Tail(Line)
<1>10. /\ s \in Seq(CPUs) /\ Len(s) = Len(Line) - 1
       /\ \A k \in 1..Len(s) : s[k] = Line[k + 1]
  BY <1>7, <1>9, HeadTailProperties, SMTT(30)
<1> HIDE DEF s
<1>11. ASSUME NEW k \in 1..Len(s)
       PROVE  s[k] \in Queue' /\ turn'[s[k]] = served' + k - 1
  <2>1. k + 1 \in 1..Len(Line) /\ s[k] = Line[k + 1]
    BY <1>7, <1>8, <1>10, SMTT(30)
  <2>2. s[k] \in Queue /\ turn[s[k]] = served + (k + 1) - 1
    BY <2>1, <1>7
  <2>3. turn[s[k]] = served + 1 + k - 1 /\ turn[s[k]] # served
    BY <2>2, <1>8, SMTT(30)
  <2>4. QED
    BY <2>2, <2>3, <1>1, <1>3, <1>8, SMTT(30)
<1>12. Len(s) = drawn' - served'
  BY <1>1, <1>7, <1>8, <1>10, SMTT(30)
<1>14. Line' = s
  BY <1>10, <1>11, <1>12, LineIsLineNext, SMTT(30)
<1>15. QED
  BY <1>5, <1>6, <1>14, SMTT(30) DEF F!Leave, s

\* The other steps are invisible to FifoLock.
LEMMA OtherStepsStutter ==
    ASSUME IInv, IInv', NEW c \in CPUs, ldaxr(c) \/ wfe(c) \/ ldr(c) \/ sev(c)
    PROVE  UNCHANGED <<Line, Holders>>
<1>1. UNCHANGED <<drawn, served, turn>>
  BY SMTT(30) DEF ldaxr, wfe, ldr, sev, history
<1>2. \A d \in CPUs : d # c => pc'[d] = pc[d]
  BY SMTT(30) DEF IInv, TypeOK, ldaxr, wfe, ldr, sev, Goto
<1>3. \/ pc[c] = "out" /\ pc'[c] = "stxr"
      \/ pc[c] = "wfe" /\ pc'[c] = "check"
      \/ pc[c] = "inside" /\ pc'[c] = "store_next"
      \/ pc[c] = "sev" /\ pc'[c] = "out"
  BY SMTT(30) DEF IInv, TypeOK, ldaxr, wfe, ldr, sev, Goto
<1>4. Queue' = Queue
  BY <1>2, <1>3, SMTT(30) DEF Queue
<1>5. Holders' = Holders
  BY <1>2, <1>3, SMTT(30) DEF Holders, Holding
<1>6. QED
  BY <1>1, <1>4, <1>5, SameLine, SMTT(30)

\* Every instruction is a step of FifoLock, or leaves its queue and its holder.
LEMMA NextRefines == IInv /\ IInv' /\ [Next]_vars => [F!Next]_<<Line, Holders>>
<1> SUFFICES ASSUME IInv, IInv', [Next]_vars PROVE [F!Next]_<<Line, Holders>>
  BY SMTT(30)
<1>1. ASSUME NEW c \in CPUs, Acquire(c) \/ Release(c)
      PROVE  [F!Next]_<<Line, Holders>>
  BY <1>1, StxrRefines, LdarRefines, StlrRefines, OtherStepsStutter, SMTT(30)
     DEF Acquire, Release, F!Next
<1>2. CASE UNCHANGED vars
  BY <1>2 DEF vars, Line, Holders, Queue, Holding
<1>3. QED
  BY <1>1, <1>2, SMTT(30) DEF Next

\* spin_lock and spin_unlock implement the lock that serves in the order of
\* asking, for every number of CPUs below 2^32.
THEOREM LockServesInOrder == Spec => RefinesFifoLock
BY InductiveInvariant, InitRefines, NextRefines, PTL DEF Spec, RefinesFifoLock, F!Spec
==============================================================================
