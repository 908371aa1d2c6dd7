----------------------------- MODULE TaskProofs -----------------------------
(***************************************************************************)
(* What is proved of the tasks of src/WorkQueue.c and their pool, for any   *)
(* number of workers, of threads that join, and of tasks, and for one       *)
(* client: a task is owned by one at a time, the pool gives out none that   *)
(* is in use, and no assertion on a task fails while the client waits for   *)
(* its tasks.                                                               *)
(***************************************************************************)
EXTENDS WorkQueueTask, Integers, SequenceTheorems, FiniteSetTheorems, WellFoundedInduction, TLAPS

\* What is in a sequence, and that nothing is in it twice.
In(k, s) == \E i \in 1..Len(s) : s[i] = k
Once(s)  == \A i, j \in 1..Len(s) : s[i] = s[j] => i = j

-----------------------------------------------------------------------------
(* Sequences without repetition: what a list operation leaves in them.     *)

\* MTQueue_push and MTList_append.
LEMMA Pushed ==
  ASSUME NEW A, NEW s \in Seq(A), NEW k \in A
  PROVE  /\ Append(s, k) \in Seq(A)
         /\ \A x : In(x, Append(s, k)) <=> In(x, s) \/ x = k
         /\ Once(s) /\ ~In(k, s) => Once(Append(s, k))
<1> DEFINE t == Append(s, k)
<1>1. /\ t \in Seq(A) /\ Len(s) \in Nat /\ Len(t) = Len(s) + 1
      /\ \A i \in 1..Len(t) : t[i] = IF i = Len(s) + 1 THEN k ELSE s[i]
  BY AppendProperties, LenProperties
<1> HIDE DEF t
<1>2. \A x : In(x, t) <=> In(x, s) \/ x = k
  BY <1>1 DEF In
<1>3. Once(s) /\ ~In(k, s) => Once(t)
  BY <1>1 DEF In, Once
<1> QED BY <1>1, <1>2, <1>3 DEF t

\* MTQueue_pop.
LEMMA Popped ==
  ASSUME NEW A, NEW s \in Seq(A), s # <<>>
  PROVE  /\ Head(s) \in A /\ Tail(s) \in Seq(A) /\ In(Head(s), s)
         /\ \A x : In(x, s) <=> In(x, Tail(s)) \/ x = Head(s)
         /\ Once(s) => Once(Tail(s)) /\ ~In(Head(s), Tail(s))
<1> DEFINE h == Head(s)  t == Tail(s)
<1>1. /\ h \in A /\ t \in Seq(A) /\ Len(s) \in Nat \ {0} /\ Len(t) = Len(s) - 1 /\ h = s[1]
      /\ \A i \in 1..Len(t) : t[i] = s[i + 1]
  BY HeadTailProperties, LenProperties, EmptySeq
<1> HIDE DEF h, t
<1>2. /\ In(h, s)
      /\ \A x : In(x, t) \/ x = h => In(x, s)
  BY <1>1 DEF In
<1>3. ASSUME NEW x, In(x, s) PROVE In(x, t) \/ x = h
  <2>1. PICK i \in 1..Len(s) : s[i] = x
    BY <1>3 DEF In
  <2>2. CASE i = 1
    BY <2>1, <2>2, <1>1
  <2>3. CASE i # 1
    <3>1. i - 1 \in 1..Len(t) /\ t[i - 1] = x
      BY <2>1, <2>3, <1>1
    <3> QED BY <3>1 DEF In
  <2> QED BY <2>2, <2>3
<1>4. Once(s) => Once(t) /\ ~In(h, t)
  BY <1>1 DEF In, Once
<1> QED BY <1>1, <1>2, <1>3, <1>4 DEF h, t

\* MTList_remove.
LEMMA Removed ==
  ASSUME NEW A, NEW s \in Seq(A), Once(s), NEW k, In(k, s)
  PROVE  /\ RemoveFirst(s, k) \in Seq(A)
         /\ \A x : In(x, RemoveFirst(s, k)) <=> In(x, s) /\ x # k
         /\ Once(RemoveFirst(s, k))
<1>1. PICK n \in 1..Len(s) : s[n] = k
  BY DEF In
<1>2. Len(s) \in Nat /\ \A i \in 1..Len(s) : s[i] \in A
  BY LenProperties, ElementOfSeq
<1>3. SelectInSeq(s, LAMBDA v : v = k) = n
  <2>1. {i \in 1..Len(s) : s[i] = k} = {n}
    BY <1>1, <1>2 DEF Once
  <2>2. Min({n}) = n
    BY <1>1, <1>2 DEF Min
  <2> QED BY <2>1, <2>2 DEF SelectInSeq
<1> DEFINE p == SubSeq(s, 1, n - 1)
           q == SubSeq(s, n + 1, Len(s))
           r == p \o q
<1>4. RemoveFirst(s, k) = r
  BY <1>1, <1>3 DEF RemoveFirst, RemoveAt
<1>5. p \in Seq(A) /\ Len(p) = n - 1 /\ \A i \in 1..n - 1 : p[i] = s[i]
  <2>1. \A i \in 1..n - 1 : s[i] \in A
    BY <1>1, <1>2
  <2> QED BY <1>1, <1>2, <2>1, SubSeqProperties
<1>6. q \in Seq(A) /\ Len(q) = Len(s) - n /\ \A i \in 1..Len(s) - n : q[i] = s[n + i]
  <2>1. \A i \in n + 1..Len(s) : s[i] \in A
    BY <1>1, <1>2
  <2>2. /\ q \in Seq(A)
        /\ Len(q) = IF n + 1 <= Len(s) THEN Len(s) - (n + 1) + 1 ELSE 0
        /\ \A i \in 1..Len(s) - (n + 1) + 1 : q[i] = s[n + 1 + i - 1]
    BY <1>2, <2>1, SubSeqProperties
  <2> QED BY <1>2, <2>2
<1> HIDE DEF p, q
<1>7. /\ r \in Seq(A) /\ Len(r) = Len(s) - 1
      /\ \A i \in 1..Len(s) - 1 : r[i] = IF i < n THEN s[i] ELSE s[i + 1]
  <2>1. /\ r \in Seq(A) /\ Len(r) = Len(p) + Len(q)
        /\ \A i \in 1..Len(p) + Len(q) : r[i] = IF i <= Len(p) THEN p[i] ELSE q[i - Len(p)]
    BY <1>5, <1>6, ConcatProperties
  <2> HIDE DEF r
  <2>2. Len(r) = Len(s) - 1
    BY <1>1, <1>2, <1>5, <1>6, <2>1
  <2>3. ASSUME NEW i \in 1..Len(s) - 1, i < n PROVE r[i] = s[i]
    BY <1>1, <1>2, <1>5, <1>6, <2>1, <2>3, SMTT(30)
  <2>4. ASSUME NEW i \in 1..Len(s) - 1, ~(i < n) PROVE r[i] = s[i + 1]
    <3>1. i \in 1..Len(p) + Len(q) /\ ~(i <= Len(p)) /\ i - Len(p) \in 1..Len(s) - n
      BY <1>2, <1>5, <1>6, <2>4
    <3>2. n + (i - Len(p)) = i + 1
      BY <1>2, <1>5, <2>4
    <3>3. r[i] = q[i - Len(p)]
      BY <2>1, <3>1
    <3> QED BY <1>6, <3>1, <3>2, <3>3
  <2> QED BY <2>1, <2>2, <2>3, <2>4
<1> HIDE DEF r
<1>8. Once(r)
  BY <1>1, <1>2, <1>7 DEF Once
<1>9. ASSUME NEW x, In(x, r) PROVE In(x, s) /\ x # k
  <2>1. PICK i \in 1..Len(s) - 1 : r[i] = x
    BY <1>2, <1>7, <1>9 DEF In
  <2>2. PICK j \in 1..Len(s) : j # n /\ s[j] = x
    BY <1>1, <1>2, <1>7, <2>1
  <2> QED BY <1>1, <2>2 DEF In, Once
<1>10. ASSUME NEW x, In(x, s), x # k PROVE In(x, r)
  <2>1. PICK j \in 1..Len(s) : s[j] = x
    BY <1>10 DEF In
  <2>2. j # n
    BY <1>1, <1>10, <2>1
  <2>3. CASE j < n
    BY <1>1, <1>2, <1>7, <2>1, <2>3 DEF In
  <2>4. CASE j > n
    <3>1. j - 1 \in 1..Len(r) /\ r[j - 1] = x
      BY <1>1, <1>2, <1>7, <2>1, <2>4
    <3> QED BY <3>1 DEF In
  <2> QED BY <2>2, <2>3, <2>4, <1>1, <1>2
<1> QED BY <1>4, <1>7, <1>8, <1>9, <1>10 DEF p, q, r

-----------------------------------------------------------------------------
(* The loop of the pool over its list (PushedOf), by induction over the     *)
(* elements: a set of numbers with 0 and the next of each has them all.     *)
LEMMA SetInduction ==
  ASSUME NEW S, 0 \in S, \A n \in Nat : n \in S => n + 1 \in S
  PROVE  Nat \subseteq S
<1> DEFINE T == Nat \ S
<1>1. SUFFICES ASSUME T # {} PROVE FALSE
  OBVIOUS
<1>2. PICK x \in T : \A y \in T : ~(<<y, x>> \in OpToRel(<, Nat))
  <2> HIDE DEF T
  <2>1. T \subseteq Nat
    BY DEF T
  <2> QED BY <1>1, <2>1, NatLessThanWellFounded, WFMin
<1>3. x - 1 \in Nat /\ x - 1 < x /\ x = x - 1 + 1
  OBVIOUS
<1>4. <<x - 1, x>> \in OpToRel(<, Nat)
  BY <1>3 DEF OpToRel
<1>5. x - 1 \in S
  BY <1>2, <1>3, <1>4, Zenon
<1> QED BY <1>3, <1>5

LoopOf(f, list, S, queue) ==
  f = [n \in 0..Len(list) |->
         IF n = 0 THEN queue
         ELSE IF list[n] \in S THEN Append(f[n - 1], list[n])
         ELSE f[n - 1]]

\* The loop has a course.
LEMMA LoopExists ==
  ASSUME NEW A, NEW s \in Seq(A), NEW t, NEW S
  PROVE  \E f : LoopOf(f, s, S, t)
<1> DEFINE Step(f, n) == IF n = 0 THEN t
                         ELSE IF s[n] \in S THEN Append(f[n - 1], s[n])
                         ELSE f[n - 1]
           Has(n) == \E f : f = [i \in 0..n |-> Step(f, i)]
           P == {n \in Nat : Has(n)}
<1>1. Has(0)
  <2> DEFINE f == [i \in 0..0 |-> t]
  <2>1. f = [i \in 0..0 |-> Step(f, i)]
    OBVIOUS
  <2> QED BY <2>1
<1>2. ASSUME NEW n \in Nat, Has(n) PROVE Has(n + 1)
  <2>1. PICK f : f = [i \in 0..n |-> Step(f, i)]
    BY <1>2
  <2> DEFINE h == [i \in 0..n + 1 |-> IF i <= n THEN f[i] ELSE Step(f, i)]
  <2>2. ASSUME NEW i \in 0..n + 1 PROVE h[i] = Step(h, i)
    <3>1. CASE i <= n
      <4>1. i \in 0..n /\ h[i] = f[i]
        BY <3>1
      <4>2. f[i] = Step(f, i)
        <5> HIDE DEF Step, h
        <5> QED BY <2>1, <4>1
      <4>3. i # 0 => h[i - 1] = f[i - 1]
        BY <3>1
      <4> QED BY <4>1, <4>2, <4>3
    <3>2. CASE i = n + 1
      <4>1. h[i] = Step(f, i) /\ i # 0 /\ h[i - 1] = f[i - 1]
        BY <3>2
      <4> QED BY <4>1
    <3> QED BY <3>1, <3>2
  <2>3. h = [i \in 0..n + 1 |-> Step(h, i)]
    BY <2>2
  <2> QED BY <2>3
<1>3. 0 \in P /\ \A n \in Nat : n \in P => n + 1 \in P
  <2> HIDE DEF Has
  <2> QED BY <1>1, <1>2
<1>4. Nat \subseteq P
  <2> HIDE DEF P
  <2> QED BY <1>3, SetInduction
<1>5. Has(Len(s))
  BY <1>4, LenProperties
<1> QED BY <1>5 DEF LoopOf

\* What it pushes: those of the list that are in S, each once.
LEMMA LoopPushes ==
  ASSUME NEW A, NEW s \in Seq(A), NEW t \in Seq(A), NEW S
  PROVE  /\ PushedOf(s, S, t) \in Seq(A)
         /\ \A x : In(x, PushedOf(s, S, t)) <=> In(x, t) \/ (In(x, s) /\ x \in S)
         /\ t = <<>> /\ Once(s) => Once(PushedOf(s, S, t))
<1> DEFINE f == CHOOSE g : LoopOf(g, s, S, t)
<1>1. PushedOf(s, S, t) = f[Len(s)]
  BY DEF PushedOf, LoopOf
<1>2. LoopOf(f, s, S, t)
  BY LoopExists
<1>3. Len(s) \in Nat /\ \A i \in 1..Len(s) : s[i] \in A
  BY LenProperties, ElementOfSeq
<1> HIDE DEF f
<1>4. /\ f[0] = t
      /\ \A n \in 1..Len(s) : f[n] = IF s[n] \in S THEN Append(f[n - 1], s[n]) ELSE f[n - 1]
  <2>1. \A n \in 0..Len(s) : f[n] = IF n = 0 THEN t
                                    ELSE IF s[n] \in S THEN Append(f[n - 1], s[n])
                                    ELSE f[n - 1]
    BY <1>2 DEF LoopOf
  <2> QED BY <1>3, <2>1
<1> DEFINE From(x, n) == \E i \in 1..n : s[i] = x /\ x \in S
           Right(n) == /\ f[n] \in Seq(A)
                       /\ \A x : In(x, f[n]) <=> In(x, t) \/ From(x, n)
                       /\ t = <<>> /\ Once(s) => Once(f[n])
           P == {n \in Nat : n <= Len(s) => Right(n)}
<1>5. Right(0)
  <2>1. Once(<<>>)
    BY DEF Once
  <2> QED BY <1>4, <2>1
<1>6. ASSUME NEW n \in Nat, n + 1 <= Len(s), Right(n) PROVE Right(n + 1)
  <2>1. n + 1 \in 1..Len(s) /\ n + 1 - 1 = n
    BY <1>3, <1>6
  <2>2. CASE s[n + 1] \in S
    <3>1. f[n + 1] = Append(f[n], s[n + 1]) /\ s[n + 1] \in A
      <4>1. s[n + 1] \in A
        BY <1>3, <2>1
      <4>2. f[n + 1] = IF s[n + 1] \in S THEN Append(f[n + 1 - 1], s[n + 1]) ELSE f[n + 1 - 1]
        BY <1>4, <2>1
      <4> QED BY <2>1, <2>2, <4>1, <4>2
    <3>2. ASSUME NEW x PROVE From(x, n + 1) <=> From(x, n) \/ x = s[n + 1]
      <4>1. \A i : i \in 1..n + 1 <=> i \in 1..n \/ i = n + 1
        OBVIOUS
      <4> QED BY <2>2, <4>1
    <3>3. t = <<>> /\ Once(s) => ~In(s[n + 1], f[n])
      <4>1. ~In(s[n + 1], <<>>)
        BY DEF In
      <4>2. Once(s) => ~From(s[n + 1], n)
        BY <1>3, <2>1 DEF Once
      <4> QED BY <1>6, <4>1, <4>2
    <3> HIDE DEF From
    <3> QED BY <1>6, <3>1, <3>2, <3>3, Pushed
  <2>3. CASE s[n + 1] \notin S
    <3>1. f[n + 1] = f[n]
      BY <1>4, <2>1, <2>3
    <3>2. \A x : From(x, n + 1) <=> From(x, n)
      BY <2>3
    <3> HIDE DEF From
    <3> QED BY <1>6, <3>1, <3>2
  <2> QED BY <2>2, <2>3
<1>7. 0 \in P /\ \A n \in Nat : n \in P => n + 1 \in P
  <2> HIDE DEF Right
  <2>1. \A n \in Nat : n + 1 <= Len(s) => n <= Len(s)
    BY <1>3
  <2> QED BY <1>5, <1>6, <2>1
<1>8. Nat \subseteq P
  <2> HIDE DEF P
  <2> QED BY <1>7, SetInduction
<1>9. Right(Len(s))
  BY <1>3, <1>8
<1>10. \A x : From(x, Len(s)) <=> In(x, s) /\ x \in S
  BY DEF In
<1> HIDE DEF From
<1> QED BY <1>1, <1>9, <1>10

\* SetToSeq, with which the pool begins: everything of the set, each once.
LEMMA ListOfSet ==
  ASSUME NEW A, NEW S \in SUBSET A, IsFiniteSet(S)
  PROVE  /\ SetToSeq(S) \in Seq(A)
         /\ \A x : In(x, SetToSeq(S)) => x \in S
         /\ Once(SetToSeq(S))
<1> DEFINE n == Cardinality(S)
           f == SetToSeq(S)
<1>1. n \in Nat /\ \E g \in [1..n -> S] : IsInjective(g)
  BY FS_CardinalityType DEF ExistsBijection, Bijection, Injection
<1>2. f \in [1..n -> S] /\ IsInjective(f)
  BY <1>1 DEF SetToSeq
<1> HIDE DEF f, n
<1>3. f \in Seq(A) /\ Len(f) = n /\ DOMAIN f = 1..n
  BY <1>1, <1>2
<1>4. /\ \A x : In(x, f) => x \in S
      /\ Once(f)
  BY <1>2, <1>3 DEF In, Once, IsInjective
<1> QED BY <1>3, <1>4 DEF f

-----------------------------------------------------------------------------
(* The inductive invariant.                                                 *)

\* The pool is used by one thread (disposeTask pushes a task to the pool
\* before it has cleared it).
SingleClient == \A c, d \in Clients : c = d

\* What each thread has in its hands, by where it is, and that all of it has
\* been allocated.
Hands ==
    /\ \A c \in Clients : /\ pc[c] \in ClientState
                          /\ task[c] = None <=> pc[c] \in {"idle", "drain", "get"}
    /\ \A j \in Joiners : pc[j] \in {"idle", "condwait", "woken"}
    /\ \A w \in Workers : /\ pc[w] \in WorkerState
                          /\ task[w] = None <=> pc[w] = "idle"
    /\ \A t \in Threads : task[t] # None => task[t] \in allocated
    /\ \A k \in Tasks : In(k, free) \/ In(k, nonTerminated) \/ In(k, queued) => k \in allocated

\* A task is in the pool's queue, in its list, or with the client; while the
\* client refreshes the tasks, those that it has found terminated stay in the
\* list until it takes them out.
Refreshing == {"unlist", "repool", "clear"}
Pool ==
    /\ Once(free) /\ Once(nonTerminated) /\ Once(temp)
    /\ \A k \in Tasks : ~(In(k, free) /\ In(k, nonTerminated))
    /\ \A k \in Tasks : In(k, temp) => In(k, nonTerminated) /\ k \in terminated
    /\ \A c \in Clients :
          /\ pc[c] \notin {"drain"} \cup Refreshing => temp = <<>>
          /\ pc[c] \in Refreshing \cup {"return", "clearReturned"} => task[c] \in terminated
          /\ pc[c] = "unlist" => In(task[c], nonTerminated) /\ ~In(task[c], temp)
          /\ pc[c] \in {"clear", "clearReturned"} => ~In(task[c], nonTerminated)
          /\ pc[c] \notin {"unlist", "clear", "clearReturned"} =>
                ~In(task[c], free) /\ ~In(task[c], nonTerminated)

\* A task that is in use is so once, and has not terminated; the pool does not
\* have it, and no client sets it up.
Busy(w)  == pc[w] \in {"run", "signal", "mark"}
InUse(k) == In(k, queued) \/ \E w \in Workers : task[w] = k /\ Busy(w)
Use ==
    /\ Once(queued)
    /\ \A w \in Workers : Busy(w) => ~In(task[w], queued)
    /\ \A v, w \in Workers : Busy(v) /\ Busy(w) /\ task[v] = task[w] => v = w
    /\ \A k \in Tasks : InUse(k) => k \notin terminated /\ ~In(k, free)
    /\ \A c \in Clients :
          /\ pc[c] \in {"init", "enqueue"} => ~InUse(task[c])
          /\ pc[c] = "enqueue" => task[c] \notin terminated

\* A task that is in use, in the list or with a client that has set it up is
\* valid, and a worker that is about to mark it has its mutex.
Valid ==
    /\ \A k \in Tasks : In(k, nonTerminated) \/ InUse(k) => k \in valid
    /\ \A c \in Clients : task[c] # None /\ pc[c] # "init" => task[c] \in valid
    /\ \A w \in Workers : pc[w] = "mark" => mutex[task[w]] = w

\* A client that waits for its tasks still has the task until the worker that
\* has marked it has unlocked its mutex.
Waits == lapses \subseteq {"shared"}
Sound ==
    Waits =>
      /\ failed = "none"
      /\ nonTerminated = <<>>
      /\ \A k \in Tasks : InUse(k) =>
            \E c \in Clients : task[c] = k /\ pc[c] \in {"owns", "condwait"}
      /\ \A w \in Workers : pc[w] \in {"wake", "unlock"} =>
            /\ mutex[task[w]] = w /\ task[w] \in terminated
            /\ \E c \in Clients : task[c] = task[w] /\ pc[c] \in {"owns", "condwait", "woken"}
      /\ \A c \in Clients : pc[c] \in {"woken", "dispose", "return"} => task[c] \in terminated

TaskInv == TypeOK /\ Hands /\ Pool /\ Use /\ Valid /\ Sound

-----------------------------------------------------------------------------
(* Every step keeps it: first those that leave the lists as they are.       *)

\* The task function ends.
LEMMA RunKeeps ==
  ASSUME SingleClient, TaskInv, NEW w \in Workers, Run(w), UNCHANGED lapses
  PROVE  TaskInv'
<1> USE TaskAssumption DEF TaskInv, Threads
<1>1. TypeOK'
  BY DEF Run, At, Goto, taskVars, poolVars, TypeOK, WorkerState
<1>2. /\ w \notin Clients \cup Joiners /\ pc[w] = "run" /\ pc'[w] = "signal"
      /\ \A t \in Threads : t # w => pc'[t] = pc[t]
      /\ UNCHANGED <<taskVars, poolVars, queued, task, failed>>
  BY DEF Run, At, Goto, TypeOK
<1>3. \A k : InUse(k)' <=> InUse(k)
  BY <1>2 DEF InUse, Busy
<1>4. Hands'
  BY <1>2 DEF Hands, taskVars, poolVars, WorkerState
<1>5. Pool'
  BY <1>2 DEF Pool, Refreshing, taskVars, poolVars
<1>6. Use'
  BY <1>2, <1>3 DEF Use, Busy, taskVars, poolVars
<1>7. Valid'
  BY <1>2, <1>3 DEF Valid, taskVars, poolVars
<1>8. Sound'
  BY <1>2, <1>3 DEF Sound, Waits, taskVars, poolVars
<1> QED BY <1>1, <1>4, <1>5, <1>6, <1>7, <1>8

\* WorkQueueWorker_main takes the next task: it is used as before, by the worker.
LEMMA TakeKeeps ==
  ASSUME SingleClient, TaskInv, NEW w \in Workers, Take(w), UNCHANGED lapses
  PROVE  TaskInv'
<1> USE TaskAssumption DEF TaskInv, Threads
<1>1. /\ w \notin Clients \cup Joiners /\ pc[w] = "idle" /\ pc'[w] = "run"
      /\ queued # <<>> /\ task'[w] = Head(queued) /\ queued' = Tail(queued)
      /\ \A t \in Threads : t # w => pc'[t] = pc[t] /\ task'[t] = task[t]
      /\ UNCHANGED <<taskVars, poolVars, failed>>
  BY DEF Take, At, Goto, Handle, TypeOK
<1>2. queued \in Seq(Tasks)
  BY DEF TypeOK
<1>3. /\ Head(queued) \in Tasks /\ Tail(queued) \in Seq(Tasks) /\ In(Head(queued), queued)
      /\ \A k : In(k, queued) <=> In(k, queued') \/ k = Head(queued)
      /\ Once(queued') /\ ~In(Head(queued), queued')
  BY <1>1, <1>2, Popped DEF Use
<1>4. TypeOK'
  BY <1>1, <1>3 DEF Take, At, Goto, Handle, taskVars, poolVars, TypeOK, WorkerState
<1>5. \A k : InUse(k)' <=> InUse(k)
  <2>1. \A k : In(k, queued)' <=> In(k, queued')
    BY DEF In
  <2> QED BY <1>1, <1>3, <2>1 DEF InUse, Busy
<1>6. task'[w] \in Tasks /\ task'[w] # None /\ task'[w] \in allocated
  BY <1>1, <1>3 DEF Hands
<1>7. Hands'
  BY <1>1, <1>3, <1>6 DEF Hands, taskVars, poolVars, WorkerState
<1>8. Pool'
  BY <1>1 DEF Pool, Refreshing, taskVars, poolVars
<1>9. Use'
  BY <1>1, <1>3, <1>5 DEF Use, Busy, taskVars, poolVars
<1>10. Valid'
  BY <1>1, <1>5 DEF Valid, taskVars, poolVars
<1>11. Sound'
  BY <1>1, <1>5 DEF Sound, Waits, taskVars, poolVars
<1> QED BY <1>4, <1>7, <1>8, <1>9, <1>10, <1>11

\* WorkQueueTask_signal gets the mutex of a task that is valid because it is in use.
LEMMA SignalLockKeeps ==
  ASSUME SingleClient, TaskInv, NEW w \in Workers, SignalLock(w), UNCHANGED lapses
  PROVE  TaskInv'
<1> USE TaskAssumption DEF TaskInv, Threads
<1>1. /\ task[w] \in Tasks /\ InUse(task[w]) /\ task[w] \in valid
  BY DEF SignalLock, At, TypeOK, Hands, InUse, Busy, Valid
<1>2. /\ w \notin Clients \cup Joiners /\ pc[w] = "signal" /\ pc'[w] = "mark"
      /\ mutex[task[w]] = None /\ mutex' = [mutex EXCEPT ![task[w]] = w]
      /\ \A t \in Threads : t # w => pc'[t] = pc[t]
      /\ failed = "none" /\ failed' = "none"
      /\ UNCHANGED <<allocated, valid, terminated, poolVars, queued, task>>
  BY <1>1 DEF SignalLock, Require, At, Goto, TypeOK
<1>3. TypeOK'
  BY <1>1, <1>2 DEF SignalLock, Require, At, Goto, poolVars, TypeOK, WorkerState, Failure
<1>4. \A k : InUse(k)' <=> InUse(k)
  BY <1>2 DEF InUse, Busy
<1>5. Hands'
  BY <1>2 DEF Hands, poolVars, WorkerState
<1>6. Pool'
  BY <1>2 DEF Pool, Refreshing, poolVars
<1>7. Use'
  BY <1>2, <1>4 DEF Use, Busy, poolVars
<1>8. \A v \in Workers : v # w /\ mutex[task[v]] = v => mutex'[task[v]] = v
  BY <1>1, <1>2 DEF TypeOK
<1>9. Valid'
  <2>1. mutex'[task'[w]] = w
    BY <1>1, <1>2 DEF TypeOK
  <2>2. \A v \in Workers : pc'[v] = "mark" => mutex'[task'[v]] = v
    BY <1>2, <1>8, <2>1 DEF Valid
  <2> QED BY <1>2, <1>4, <2>2 DEF Valid, poolVars
<1>10. Sound'
  BY <1>2, <1>4, <1>8 DEF Sound, Waits, poolVars
<1> QED BY <1>3, <1>5, <1>6, <1>7, <1>9, <1>10

\* The mark ends the use, with the mutex still held.
LEMMA SignalMarkKeeps ==
  ASSUME SingleClient, TaskInv, NEW w \in Workers, SignalMark(w), UNCHANGED lapses
  PROVE  TaskInv'
<1> USE TaskAssumption DEF TaskInv, Threads
<1>1. /\ w \notin Clients \cup Joiners /\ pc[w] = "mark" /\ pc'[w] = "wake"
      /\ terminated' = terminated \cup {task[w]}
      /\ \A t \in Threads : t # w => pc'[t] = pc[t]
      /\ UNCHANGED <<allocated, valid, mutex, poolVars, queued, task, failed>>
  BY DEF SignalMark, At, Goto, TypeOK
<1>2. task[w] \in Tasks /\ InUse(task[w]) /\ task[w] \in allocated
  BY <1>1 DEF TypeOK, Hands, InUse, Busy
<1>3. TypeOK'
  BY <1>1, <1>2 DEF SignalMark, At, Goto, poolVars, TypeOK, WorkerState
<1>4. \A k : InUse(k)' <=> InUse(k) /\ k # task[w]
  BY <1>1 DEF InUse, Busy, Use
<1>5. Hands'
  BY <1>1 DEF Hands, poolVars, WorkerState
<1>6. Pool'
  BY <1>1 DEF Pool, Refreshing, poolVars
<1>7. Use'
  BY <1>1, <1>2, <1>4 DEF Use, Busy, poolVars
<1>8. Valid'
  BY <1>1, <1>4 DEF Valid, poolVars
<1>9. Sound'
  BY <1>1, <1>2, <1>4 DEF Sound, Waits, Valid, poolVars
<1> QED BY <1>3, <1>5, <1>6, <1>7, <1>8, <1>9

\* The wake-up finds the task valid if the client waits for it.
LEMMA SignalWakeKeeps ==
  ASSUME SingleClient, TaskInv, NEW w \in Workers, SignalWake(w), UNCHANGED lapses
  PROVE  TaskInv'
<1> USE TaskAssumption DEF TaskInv, Threads
<1>1. /\ w \notin Clients \cup Joiners /\ pc[w] = "wake" /\ failed = "none" /\ task[w] \in Tasks
      /\ UNCHANGED <<taskVars, poolVars, queued, task>>
  BY DEF SignalWake, Require, At, TypeOK, Hands
<1>2. CASE task[w] \notin valid
  <2>1. failed' = "wake" /\ UNCHANGED pc
    BY <1>1, <1>2 DEF SignalWake, Require
  <2>2. ~Waits
    BY <1>1, <1>2 DEF Sound, Valid
  <2>3. \A k : InUse(k)' <=> InUse(k)
    BY <1>1, <2>1 DEF InUse, Busy
  <2>4. TypeOK' /\ Hands' /\ Pool'
    BY <1>1, <2>1 DEF TypeOK, Failure, Hands, Pool, Refreshing, taskVars, poolVars
  <2>5. Use' /\ Valid'
    BY <1>1, <2>1, <2>3 DEF Use, Busy, Valid, taskVars, poolVars
  <2>6. Sound'
    BY <2>2 DEF Sound, Waits
  <2> QED BY <2>4, <2>5, <2>6
<1>3. CASE task[w] \in valid
  <2>1. PICK s \in SUBSET Asleep(task[w]) :
          /\ pc'[w] = "unlock" /\ failed' = "none"
          /\ \A t \in Threads : t # w => pc'[t] = IF t \in s THEN "woken" ELSE pc[t]
          /\ pc' \in [Threads -> ClientState \cup WorkerState]
    <3>1. \A t \in Asleep(task[w]) : t \in Threads /\ t # w
      BY <1>1 DEF Asleep, WaitersOf
    <3>2. CASE Asleep(task[w]) = {} /\ Goto(w, "unlock")
      BY <1>1, <1>3, <3>2 DEF SignalWake, Require, Goto, TypeOK, WorkerState
    <3>3. ASSUME NEW t \in Asleep(task[w]), pc' = [pc EXCEPT ![w] = "unlock", ![t] = "woken"]
          PROVE  \E s \in SUBSET Asleep(task[w]) :
                   /\ pc'[w] = "unlock" /\ failed' = "none"
                   /\ \A u \in Threads : u # w => pc'[u] = IF u \in s THEN "woken" ELSE pc[u]
                   /\ pc' \in [Threads -> ClientState \cup WorkerState]
      <4>1. failed' = "none"
        BY <1>1, <1>3 DEF SignalWake, Require
      <4>2. /\ pc'[w] = "unlock" /\ pc' \in [Threads -> ClientState \cup WorkerState]
            /\ \A u \in Threads : u # w => pc'[u] = IF u \in {t} THEN "woken" ELSE pc[u]
        BY <1>1, <3>1, <3>3 DEF TypeOK, ClientState, WorkerState
      <4> QED BY <4>1, <4>2
    <3> QED BY <1>3, <3>2, <3>3 DEF SignalWake, Require
  <2>2. \A t \in s : t \in Clients \cup Joiners /\ pc[t] = "condwait" /\ task[t] = task[w]
    BY <2>1 DEF Asleep, WaitersOf
  <2>3. \A k : InUse(k)' <=> InUse(k)
    BY <1>1, <2>1, <2>2 DEF InUse, Busy
  <2>4. TypeOK'
    BY <1>1, <2>1 DEF TypeOK, Failure, taskVars, poolVars
  <2>5. Hands'
    BY <1>1, <2>1, <2>2 DEF Hands, ClientState, WorkerState, taskVars, poolVars
  <2>6. Pool'
    BY <1>1, <2>1, <2>2 DEF Pool, Refreshing, taskVars, poolVars
  <2>7. Use'
    BY <1>1, <2>1, <2>2, <2>3 DEF Use, Busy, taskVars, poolVars
  <2>8. Valid'
    BY <1>1, <2>1, <2>2, <2>3 DEF Valid, taskVars, poolVars
  <2>9. Sound'
    BY <1>1, <2>1, <2>2, <2>3 DEF Sound, Waits, Use, taskVars, poolVars
  <2> QED BY <2>4, <2>5, <2>6, <2>7, <2>8, <2>9
<1> QED BY <1>2, <1>3

\* The unlock finds the mutex held by the worker if the client waits for the task.
LEMMA SignalUnlockKeeps ==
  ASSUME SingleClient, TaskInv, NEW w \in Workers, SignalUnlock(w), UNCHANGED lapses
  PROVE  TaskInv'
<1> USE TaskAssumption DEF TaskInv, Threads
<1>1. /\ w \notin Clients \cup Joiners /\ pc[w] = "unlock" /\ failed = "none" /\ task[w] \in Tasks
      /\ UNCHANGED <<allocated, valid, terminated, poolVars, queued>>
  BY DEF SignalUnlock, Require, At, TypeOK, Hands, taskVars
<1> DEFINE Held == task[w] \in valid /\ mutex[task[w]] = w
<1>2. CASE ~Held
  <2>1. failed' = "unlock" /\ UNCHANGED <<pc, task, mutex>>
    BY <1>1, <1>2 DEF SignalUnlock, Require, taskVars
  <2>2. ~Waits
    BY <1>1, <1>2 DEF Sound, Valid
  <2>3. \A k : InUse(k)' <=> InUse(k)
    BY <1>1, <2>1 DEF InUse, Busy
  <2>4. TypeOK' /\ Hands' /\ Pool'
    BY <1>1, <2>1 DEF TypeOK, Failure, Hands, Pool, Refreshing, poolVars
  <2>5. Use' /\ Valid'
    BY <1>1, <2>1, <2>3 DEF Use, Busy, Valid, poolVars
  <2>6. Sound'
    BY <2>2 DEF Sound, Waits
  <2> QED BY <2>4, <2>5, <2>6
<1>3. CASE Held
  <2>1. /\ pc'[w] = "idle" /\ task'[w] = None /\ failed' = "none"
        /\ mutex' = [mutex EXCEPT ![task[w]] = None]
        /\ \A t \in Threads : t # w => pc'[t] = pc[t] /\ task'[t] = task[t]
    BY <1>1, <1>3 DEF SignalUnlock, Require, Goto, Handle, TypeOK
  <2>2. TypeOK'
    <3>1. pc' = [pc EXCEPT ![w] = "idle"] /\ task' = [task EXCEPT ![w] = None]
      BY <1>3 DEF SignalUnlock, Require, Goto, Handle
    <3>2. pc' \in [Threads -> ClientState \cup WorkerState]
      BY <3>1 DEF TypeOK, WorkerState
    <3>3. mutex' \in [Tasks -> Threads \cup {None}] /\ task' \in [Threads -> Tasks \cup {None}]
      BY <2>1, <3>1 DEF TypeOK
    <3> QED BY <1>1, <2>1, <3>2, <3>3 DEF TypeOK, Failure, poolVars
  <2>3. \A k : InUse(k)' <=> InUse(k)
    BY <1>1, <2>1 DEF InUse, Busy
  <2>4. Hands'
    BY <1>1, <2>1 DEF Hands, WorkerState, poolVars
  <2>5. Pool'
    BY <1>1, <2>1 DEF Pool, Refreshing, poolVars
  <2>6. Use'
    BY <1>1, <2>1, <2>3 DEF Use, Busy, poolVars
  <2>7. \A v \in Workers : v # w /\ mutex[task[v]] = v => mutex'[task[v]] = v
    BY <1>1, <1>3, <2>1 DEF TypeOK
  <2>8. Valid'
    BY <1>1, <2>1, <2>3, <2>7 DEF Valid, poolVars
  <2>9. Sound'
    BY <1>1, <2>1, <2>3, <2>7 DEF Sound, Waits, poolVars
  <2> QED BY <2>2, <2>4, <2>5, <2>6, <2>8, <2>9
<1> QED BY <1>2, <1>3

-----------------------------------------------------------------------------
(* The steps of the client, and of those who join.                          *)

\* A step that no worker takes part in, and that pushes nothing to the work
\* queue, changes nothing in what is used.
LEMMA UseStands ==
  ASSUME NEW t \in Clients \cup Joiners, UNCHANGED queued,
         \A u \in Threads : u # t => pc'[u] = pc[u] /\ task'[u] = task[u]
  PROVE  /\ \A k : InUse(k)' <=> InUse(k)
         /\ \A w \in Workers : Busy(w)' <=> Busy(w)
BY TaskAssumption DEF InUse, Busy, Threads

\* _refreshTasks collects those of the list that have terminated.
LEMMA ScanKeeps ==
  ASSUME SingleClient, TaskInv, NEW c \in Clients, Scan(c), UNCHANGED lapses
  PROVE  TaskInv'
<1> USE TaskAssumption DEF TaskInv, Threads
<1>1. /\ pc[c] = "idle" /\ pc'[c] = "drain" /\ \A d \in Clients : d = c
      /\ temp' = PushedOf(nonTerminated, terminated, temp)
      /\ \A t \in Threads : t # c => pc'[t] = pc[t]
      /\ UNCHANGED <<taskVars, free, nonTerminated, queued, task, failed>>
  BY DEF Scan, At, Goto, TypeOK, SingleClient
<1>2. /\ temp = <<>> /\ nonTerminated \in Seq(Tasks) /\ temp \in Seq(Tasks)
  BY <1>1 DEF Pool, TypeOK, Refreshing
<1>3. /\ temp' \in Seq(Tasks) /\ Once(temp')
      /\ \A k : In(k, temp') => In(k, nonTerminated) /\ k \in terminated
  <2>1. ~\E k : In(k, <<>>)
    BY DEF In
  <2> QED BY <1>1, <1>2, <2>1, LoopPushes DEF Pool
<1>4. TypeOK'
  BY <1>1, <1>3 DEF Scan, At, Goto, TypeOK, ClientState, taskVars
<1>5. /\ \A k : InUse(k)' <=> InUse(k)
      /\ \A w \in Workers : Busy(w)' <=> Busy(w)
  BY <1>1, UseStands
<1>6. Hands'
  BY <1>1 DEF Hands, ClientState, taskVars
<1>7. Pool'
  BY <1>1, <1>3 DEF Pool, Refreshing, taskVars
<1>8. Use'
  BY <1>1, <1>5 DEF Use, taskVars
<1>9. Valid'
  BY <1>1, <1>5 DEF Valid, Hands, taskVars
<1>10. Sound'
  BY <1>1, <1>5 DEF Sound, Waits, taskVars
<1> QED BY <1>4, <1>6, <1>7, <1>8, <1>9, <1>10

\* What the refresh takes next is still in the list, or it is done.
LEMMA DrainKeeps ==
  ASSUME SingleClient, TaskInv, NEW c \in Clients, Drain(c), UNCHANGED lapses
  PROVE  TaskInv'
<1> USE TaskAssumption DEF TaskInv, Threads
<1>1. /\ pc[c] = "drain" /\ task[c] = None /\ \A d \in Clients : d = c
      /\ \A t \in Threads : t # c => pc'[t] = pc[t] /\ task'[t] = task[t]
      /\ UNCHANGED <<taskVars, free, nonTerminated, queued, failed>>
  BY DEF Drain, At, Goto, Handle, TypeOK, SingleClient, Hands
<1>2. /\ \A k : InUse(k)' <=> InUse(k)
      /\ \A w \in Workers : Busy(w)' <=> Busy(w)
  BY <1>1, UseStands
<1>3. CASE temp = <<>>
  <2>1. pc'[c] = "get" /\ temp' = <<>> /\ task' = task
    BY <1>1, <1>3 DEF Drain, Goto, TypeOK
  <2>2. TypeOK'
    BY <1>1, <1>3, <2>1 DEF Drain, Goto, TypeOK, ClientState, taskVars
  <2>3. Hands'
    BY <1>1, <2>1 DEF Hands, ClientState, taskVars
  <2>4. Pool'
    BY <1>1, <1>3, <2>1 DEF Pool, Refreshing, taskVars
  <2>5. Use' /\ Valid'
    BY <1>1, <1>2, <2>1 DEF Use, Valid, Hands, taskVars
  <2>6. Sound'
    BY <1>1, <1>2, <2>1 DEF Sound, Waits, taskVars
  <2> QED BY <2>2, <2>3, <2>4, <2>5, <2>6
<1>4. CASE temp # <<>>
  <2>1. pc'[c] = "unlist" /\ temp' = Tail(temp) /\ task'[c] = Head(temp)
    BY <1>1, <1>4 DEF Drain, Goto, Handle, TypeOK
  <2>2. temp \in Seq(Tasks) /\ Once(temp)
    BY DEF TypeOK, Pool
  <2>3. /\ task'[c] \in Tasks /\ temp' \in Seq(Tasks) /\ In(task'[c], temp) /\ Once(temp')
        /\ \A k : In(k, temp') => In(k, temp) /\ k # task'[c]
    BY <1>4, <2>1, <2>2, Popped
  <2>4. /\ task'[c] # None /\ In(task'[c], nonTerminated) /\ task'[c] \in terminated
        /\ task'[c] \in allocated /\ task'[c] \in valid
    BY <2>3 DEF Pool, TypeOK, Valid
  <2>5. TypeOK'
    BY <1>1, <1>4, <2>1, <2>3 DEF Drain, Goto, Handle, TypeOK, ClientState, taskVars
  <2>6. Hands'
    BY <1>1, <2>1, <2>4 DEF Hands, ClientState, taskVars
  <2>7. Pool'
    BY <1>1, <2>1, <2>3, <2>4 DEF Pool, Refreshing, taskVars
  <2>8. Use'
    BY <1>1, <1>2, <2>1, <2>4 DEF Use, taskVars
  <2>9. Valid'
    BY <1>1, <1>2, <2>1, <2>4 DEF Valid, taskVars
  <2>10. Sound'
    BY <1>1, <1>2, <2>1 DEF Sound, Waits, taskVars
  <2> QED BY <2>5, <2>6, <2>7, <2>8, <2>9, <2>10
<1> QED BY <1>3, <1>4

\* MTList_remove takes the one element that is the task.
LEMMA UnlistKeeps ==
  ASSUME SingleClient, TaskInv, NEW c \in Clients, Unlist(c), UNCHANGED lapses
  PROVE  TaskInv'
<1> USE TaskAssumption DEF TaskInv, Threads
<1>1. /\ pc[c] = "unlist" /\ pc'[c] = "repool" /\ \A d \in Clients : d = c
      /\ nonTerminated' = RemoveFirst(nonTerminated, task[c])
      /\ \A t \in Threads : t # c => pc'[t] = pc[t] /\ task'[t] = task[t]
      /\ UNCHANGED <<taskVars, free, temp, queued, task, failed>>
  BY DEF Unlist, At, Goto, TypeOK, SingleClient
<1>2. /\ nonTerminated \in Seq(Tasks) /\ Once(nonTerminated) /\ In(task[c], nonTerminated)
      /\ task[c] \in Tasks /\ task[c] \in terminated /\ ~In(task[c], temp) /\ ~In(task[c], free)
  BY <1>1 DEF TypeOK, Hands, Pool, Refreshing
<1>3. /\ nonTerminated' \in Seq(Tasks) /\ Once(nonTerminated')
      /\ \A k : In(k, nonTerminated') <=> In(k, nonTerminated) /\ k # task[c]
  BY <1>1, <1>2, Removed
<1>4. /\ \A k : InUse(k)' <=> InUse(k)
      /\ \A w \in Workers : Busy(w)' <=> Busy(w)
  BY <1>1, UseStands
<1>5. TypeOK'
  BY <1>1, <1>3 DEF Unlist, At, Goto, TypeOK, ClientState, taskVars
<1>6. Hands'
  BY <1>1, <1>3 DEF Hands, ClientState, taskVars
<1>7. Pool'
  BY <1>1, <1>2, <1>3 DEF Pool, Refreshing, taskVars
<1>8. Use'
  BY <1>1, <1>4 DEF Use, taskVars
<1>9. Valid'
  BY <1>1, <1>3, <1>4 DEF Valid, taskVars
<1>10. Sound'
  <2>1. ~Waits
    <3>1. ~In(task[c], <<>>)
      BY DEF In
    <3> QED BY <1>2, <3>1 DEF Sound
  <2> QED BY <2>1 DEF Sound, Waits
<1> QED BY <1>5, <1>6, <1>7, <1>8, <1>9, <1>10

\* No task is nothing.
LEMMA NoneIsNowhere ==
  ASSUME NEW s \in Seq(Tasks)
  PROVE  ~In(None, s)
BY TaskAssumption, ElementOfSeq DEF In

\* Repool and Return: the task goes to the pool's queue.
LEMMA PushKeeps ==
  ASSUME SingleClient, TaskInv, NEW c \in Clients, Repool(c) \/ Return(c), UNCHANGED lapses
  PROVE  TaskInv'
<1> USE TaskAssumption DEF TaskInv, Threads
<1>1. /\ \/ pc[c] = "repool" /\ pc'[c] = "clear"
         \/ pc[c] = "return" /\ pc'[c] = "clearReturned"
      /\ \A d \in Clients : d = c
      /\ free' = Append(free, task[c])
      /\ \A t \in Threads : t # c => pc'[t] = pc[t] /\ task'[t] = task[t]
      /\ UNCHANGED <<taskVars, nonTerminated, temp, queued, task, failed>>
  BY DEF Repool, Return, At, Goto, TypeOK, SingleClient
<1>2. /\ free \in Seq(Tasks) /\ Once(free) /\ task[c] \in Tasks /\ task[c] \in terminated
      /\ task[c] \in allocated /\ ~In(task[c], nonTerminated) /\ ~In(task[c], free)
  BY <1>1 DEF TypeOK, Hands, Pool, Refreshing
<1>3. /\ free' \in Seq(Tasks) /\ Once(free')
      /\ \A k : In(k, free') <=> In(k, free) \/ k = task[c]
  BY <1>1, <1>2, Pushed
<1>4. /\ \A k : InUse(k)' <=> InUse(k)
      /\ \A w \in Workers : Busy(w)' <=> Busy(w)
  BY <1>1, UseStands
<1>5. TypeOK'
  BY <1>1, <1>3 DEF Repool, Return, At, Goto, TypeOK, ClientState, taskVars
<1>6. Hands'
  BY <1>1, <1>2, <1>3 DEF Hands, ClientState, taskVars
<1>7. Pool'
  BY <1>1, <1>2, <1>3 DEF Pool, Refreshing, taskVars
<1>8. Use'
  BY <1>1, <1>2, <1>3, <1>4 DEF Use, taskVars
<1>9. Valid'
  BY <1>1, <1>4 DEF Valid, taskVars
<1>10. Sound'
  BY <1>1, <1>4 DEF Sound, Waits, taskVars
<1> QED BY <1>5, <1>6, <1>7, <1>8, <1>9, <1>10

\* WorkQueueTask_clear: nobody uses the task any more.
LEMMA ClearKeeps ==
  ASSUME SingleClient, TaskInv, NEW c \in Clients, ClearRefreshed(c) \/ ClearReturned(c),
         UNCHANGED lapses
  PROVE  TaskInv'
<1> USE TaskAssumption DEF TaskInv, Threads
<1>1. /\ pc[c] \in {"clear", "clearReturned"} /\ task[c] \in Tasks /\ task[c] \in valid
      /\ task[c] \in terminated /\ ~In(task[c], nonTerminated) /\ \A d \in Clients : d = c
  BY DEF ClearRefreshed, ClearReturned, At, TypeOK, Hands, Valid, Pool, Refreshing, SingleClient
<1>2. /\ \/ pc[c] = "clear" /\ pc' = [pc EXCEPT ![c] = "drain"]
         \/ pc[c] = "clearReturned" /\ pc' = [pc EXCEPT ![c] = "idle"]
      /\ task' = [task EXCEPT ![c] = None]
      /\ valid' = valid \ {task[c]} /\ mutex' = [mutex EXCEPT ![task[c]] = None]
      /\ failed' = "none"
      /\ UNCHANGED <<allocated, terminated, poolVars, queued>>
  BY <1>1 DEF ClearRefreshed, ClearReturned, ClearTask, Require, At, Goto, Handle
<1>3. /\ task'[c] = None /\ pc'[c] \in {"drain", "idle"}
      /\ pc[c] = "clearReturned" => pc'[c] = "idle"
      /\ pc[c] = "clear" => pc'[c] = "drain"
      /\ \A t \in Threads : t # c => pc'[t] = pc[t] /\ task'[t] = task[t]
      /\ \A k \in Tasks : k # task[c] => mutex'[k] = mutex[k]
  BY <1>1, <1>2 DEF TypeOK
<1>4. TypeOK'
  <2>1. /\ pc' \in [Threads -> ClientState \cup WorkerState]
        /\ task' \in [Threads -> Tasks \cup {None}]
    BY <1>2 DEF TypeOK, ClientState
  <2>2. mutex' \in [Tasks -> Threads \cup {None}]
    BY <1>2 DEF TypeOK
  <2> QED BY <1>2, <2>1, <2>2 DEF TypeOK, Failure, poolVars
<1>5. /\ \A k : InUse(k)' <=> InUse(k)
      /\ \A w \in Workers : Busy(w)' <=> Busy(w)
  BY <1>2, <1>3, UseStands
<1>6. ~InUse(task[c]) /\ \A w \in Workers : Busy(w) => task[w] # task[c]
  BY <1>1 DEF Use, InUse
<1>7. Hands'
  BY <1>2, <1>3 DEF Hands, ClientState, poolVars
<1>8. ~In(None, free) /\ ~In(None, nonTerminated)
  BY NoneIsNowhere DEF TypeOK
<1>9. Pool'
  BY <1>1, <1>2, <1>3, <1>8 DEF Pool, Refreshing, poolVars
<1>10. Use'
  BY <1>2, <1>3, <1>5 DEF Use, poolVars
<1>11. Valid'
  <2>1. \A w \in Workers : pc'[w] = "mark" => mutex'[task'[w]] = w
    BY <1>3, <1>6 DEF Valid, Busy, TypeOK, Hands
  <2> QED BY <1>1, <1>2, <1>3, <1>5, <1>6, <2>1 DEF Valid, poolVars
<1>12. Sound'
  BY <1>1, <1>2, <1>3, <1>5 DEF Sound, Waits, poolVars
<1> QED BY <1>4, <1>7, <1>9, <1>10, <1>11, <1>12

\* GetPooled and GetNew: a task that nobody has.
LEMMA GetKeeps ==
  ASSUME SingleClient, TaskInv, NEW c \in Clients, GetPooled(c) \/ GetNew(c), UNCHANGED lapses
  PROVE  TaskInv'
<1> USE TaskAssumption DEF TaskInv, Threads
<1>1. /\ pc[c] = "get" /\ pc' = [pc EXCEPT ![c] = "init"] /\ \A d \in Clients : d = c
      /\ UNCHANGED <<valid, terminated, mutex, nonTerminated, temp, queued, failed>>
  BY DEF GetPooled, GetNew, At, Goto, SingleClient, taskVars, poolVars
<1>2. PICK k \in Tasks :
        /\ task' = [task EXCEPT ![c] = k]
        /\ k \in allocated' /\ allocated \subseteq allocated' /\ allocated' \subseteq Tasks
        /\ free' \in Seq(Tasks) /\ Once(free')
        /\ ~In(k, free') /\ ~In(k, nonTerminated) /\ ~InUse(k)
        /\ \A x : In(x, free') => In(x, free)
  <2>1. CASE GetPooled(c)
    <3>1. free \in Seq(Tasks) /\ Once(free) /\ free # <<>> /\ free' = Tail(free)
      BY <2>1 DEF GetPooled, TypeOK, Pool
    <3>2. /\ Head(free) \in Tasks /\ In(Head(free), free) /\ free' \in Seq(Tasks) /\ Once(free')
          /\ ~In(Head(free), free') /\ \A x : In(x, free') => In(x, free)
      BY <3>1, Popped
    <3>3. task' = [task EXCEPT ![c] = Head(free)] /\ allocated' = allocated
      BY <2>1 DEF GetPooled, Handle, taskVars
    <3> QED BY <3>2, <3>3 DEF Pool, Use, Hands, TypeOK
  <2>2. CASE GetNew(c)
    <3>1. PICK k \in Tasks \ allocated :
            /\ allocated' = allocated \cup {k} /\ task' = [task EXCEPT ![c] = k]
            /\ free' = free
      BY <2>2 DEF GetNew, Handle, poolVars
    <3>2. ~In(k, free) /\ ~In(k, nonTerminated) /\ ~InUse(k)
      BY <3>1 DEF Hands, InUse
    <3> QED BY <3>1, <3>2 DEF TypeOK, Pool
  <2> QED BY <2>1, <2>2
<1>3. /\ task'[c] = k /\ k # None /\ pc'[c] = "init"
      /\ \A t \in Threads : t # c => pc'[t] = pc[t] /\ task'[t] = task[t]
  BY <1>1, <1>2 DEF TypeOK
<1>4. TypeOK'
  <2>1. pc' \in [Threads -> ClientState \cup WorkerState]
    BY <1>1 DEF TypeOK, ClientState
  <2>2. task' \in [Threads -> Tasks \cup {None}]
    BY <1>2 DEF TypeOK
  <2> QED BY <1>1, <1>2, <2>1, <2>2 DEF TypeOK
<1>5. /\ \A x : InUse(x)' <=> InUse(x)
      /\ \A w \in Workers : Busy(w)' <=> Busy(w)
  BY <1>1, <1>3, UseStands
<1>6. Hands'
  BY <1>1, <1>2, <1>3 DEF Hands, ClientState
<1>7. Pool'
  BY <1>1, <1>2, <1>3 DEF Pool, Refreshing
<1>8. Use'
  BY <1>1, <1>2, <1>3, <1>5 DEF Use
<1>9. Valid'
  BY <1>1, <1>3, <1>5 DEF Valid
<1>10. Sound'
  BY <1>1, <1>3, <1>5 DEF Sound, Waits
<1> QED BY <1>4, <1>6, <1>7, <1>8, <1>9, <1>10

\* WorkQueueTask_init of a task that nobody uses.
LEMMA InitTaskKeeps ==
  ASSUME SingleClient, TaskInv, NEW c \in Clients, InitTask(c), UNCHANGED lapses
  PROVE  TaskInv'
<1> USE TaskAssumption DEF TaskInv, Threads
<1>1. /\ pc[c] = "init" /\ pc' = [pc EXCEPT ![c] = "enqueue"] /\ \A d \in Clients : d = c
      /\ valid' = valid \cup {task[c]} /\ terminated' = terminated \ {task[c]}
      /\ mutex' = [mutex EXCEPT ![task[c]] = None]
      /\ UNCHANGED <<allocated, poolVars, queued, task, failed>>
  BY DEF InitTask, At, Goto, SingleClient
<1>2. /\ task[c] \in Tasks /\ task[c] \in allocated /\ ~InUse(task[c]) /\ temp = <<>>
      /\ \A w \in Workers : Busy(w) => task[w] # task[c]
  BY <1>1 DEF TypeOK, Hands, Use, InUse, Pool, Refreshing
<1>3. /\ pc'[c] = "enqueue" /\ \A t \in Threads : t # c => pc'[t] = pc[t]
      /\ \A k \in Tasks : k # task[c] => mutex'[k] = mutex[k]
  BY <1>1, <1>2 DEF TypeOK
<1>4. TypeOK'
  <2>1. pc' \in [Threads -> ClientState \cup WorkerState]
    BY <1>1 DEF TypeOK, ClientState
  <2>2. mutex' \in [Tasks -> Threads \cup {None}]
    BY <1>1 DEF TypeOK
  <2> QED BY <1>1, <1>2, <2>1, <2>2 DEF TypeOK, poolVars
<1>5. /\ \A x : InUse(x)' <=> InUse(x)
      /\ \A w \in Workers : Busy(w)' <=> Busy(w)
  BY <1>1, <1>3, UseStands
<1>6. Hands'
  BY <1>1, <1>3 DEF Hands, ClientState, poolVars
<1>7. Pool'
  <2>1. \A k : ~In(k, <<>>)
    BY DEF In
  <2> QED BY <1>1, <1>2, <1>3, <2>1 DEF Pool, Refreshing, poolVars
<1>8. Use'
  BY <1>1, <1>2, <1>3, <1>5 DEF Use, poolVars
<1>9. Valid'
  <2>1. \A w \in Workers : pc'[w] = "mark" => mutex'[task'[w]] = w
    BY <1>1, <1>2, <1>3 DEF Valid, Busy, TypeOK, Hands
  <2> QED BY <1>1, <1>3, <1>5, <2>1 DEF Valid, poolVars
<1>10. Sound'
  BY <1>1, <1>3, <1>5 DEF Sound, Waits, poolVars
<1> QED BY <1>4, <1>6, <1>7, <1>8, <1>9, <1>10

\* WorkQueue_enqueue of a valid task that is not yet in the queue.
LEMMA EnqueueKeeps ==
  ASSUME SingleClient, TaskInv, NEW c \in Clients, Enqueue(c), UNCHANGED lapses
  PROVE  TaskInv'
<1> USE TaskAssumption DEF TaskInv, Threads
<1>1. /\ pc[c] = "enqueue" /\ task[c] \in Tasks /\ task[c] \in valid /\ task[c] \in allocated
      /\ ~InUse(task[c]) /\ task[c] \notin terminated /\ ~In(task[c], free)
      /\ \A d \in Clients : d = c
      /\ queued \in Seq(Tasks) /\ Once(queued) /\ ~In(task[c], queued)
  BY DEF Enqueue, At, TypeOK, Hands, Valid, Use, InUse, Pool, SingleClient
<1>2. /\ pc' = [pc EXCEPT ![c] = "owns"] /\ queued' = Append(queued, task[c])
      /\ failed' = "none" /\ failed = "none"
      /\ UNCHANGED <<taskVars, poolVars, task>>
  BY <1>1 DEF Enqueue, Require, At, Goto
<1>3. pc'[c] = "owns" /\ \A t \in Threads : t # c => pc'[t] = pc[t]
  BY <1>2 DEF TypeOK
<1>4. /\ queued' \in Seq(Tasks) /\ Once(queued')
      /\ \A k : In(k, queued') <=> In(k, queued) \/ k = task[c]
  BY <1>1, <1>2, Pushed
<1>5. TypeOK'
  <2>1. pc' \in [Threads -> ClientState \cup WorkerState]
    BY <1>2 DEF TypeOK, ClientState
  <2> QED BY <1>2, <1>4, <2>1 DEF TypeOK, taskVars, poolVars, Failure
<1>6. \A k : InUse(k)' <=> InUse(k) \/ k = task[c]
  <2>1. \A k : In(k, queued)' <=> In(k, queued')
    BY DEF In
  <2> QED BY <1>2, <1>3, <1>4, <2>1 DEF InUse, Busy
<1>7. Hands'
  BY <1>1, <1>2, <1>3, <1>4 DEF Hands, ClientState, taskVars, poolVars
<1>8. Pool'
  BY <1>1, <1>2, <1>3 DEF Pool, Refreshing, taskVars, poolVars
<1>9. Use'
  <2>1. \A w \in Workers : (Busy(w)' <=> Busy(w)) /\ (Busy(w) => task[w] # task[c])
    BY <1>1, <1>3 DEF Busy, InUse
  <2> QED BY <1>1, <1>2, <1>3, <1>4, <1>6, <2>1 DEF Use, taskVars, poolVars
<1>10. Valid'
  BY <1>1, <1>2, <1>3, <1>6 DEF Valid, taskVars, poolVars
<1>11. Sound'
  BY <1>1, <1>2, <1>3, <1>6 DEF Sound, Waits, taskVars, poolVars
<1> QED BY <1>5, <1>7, <1>8, <1>9, <1>10, <1>11

\* WorkQueueTask_wait, by the client for its task or by another that joins.
LEMMA WaitKeeps ==
  ASSUME SingleClient, TaskInv, failed = "none", NEW c \in Clients, NEW t \in Clients \cup Joiners,
         \/ t = c /\ pc[c] = "owns"
         \/ t \in Joiners /\ pc[t] = "idle" /\ pc[c] \in {"owns", "condwait"},
         Wait(t, task[c])
  PROVE  TaskInv'
<1> USE TaskAssumption DEF TaskInv, Threads
<1>1. /\ task[c] \in Tasks /\ task[c] \in valid /\ task[c] \in allocated
      /\ mutex[task[c]] = None /\ \A d \in Clients : d = c
      /\ t \in Clients <=> t = c
      /\ t \in Joiners <=> t # c
  BY DEF TypeOK, Hands, Valid, SingleClient, Wait
<1>2. /\ pc' = [pc EXCEPT ![t] = IF task[c] \in terminated THEN AfterWait(t) ELSE "condwait"]
      /\ task' = [task EXCEPT ![t] = IF task[c] \in terminated /\ t \in Joiners THEN None
                                     ELSE task[c]]
      /\ failed' = "none" /\ lapses' \in {lapses, lapses \cup {"shared"}}
      /\ UNCHANGED <<taskVars, poolVars, queued>>
  BY <1>1 DEF Wait, Require, Goto, Handle
<1>3. /\ t = c => /\ pc'[c] = IF task[c] \in terminated THEN "dispose" ELSE "condwait"
                  /\ task' = task
      /\ t # c => /\ pc'[t] \in {"idle", "condwait"} /\ task'[t] \in {None, task[c]}
                  /\ pc'[c] = pc[c] /\ task'[c] = task[c]
      /\ \A u \in Threads : u # t => pc'[u] = pc[u] /\ task'[u] = task[u]
  BY <1>1, <1>2 DEF TypeOK, AfterWait
<1>4. TypeOK'
  <2>1. /\ pc' \in [Threads -> ClientState \cup WorkerState]
        /\ task' \in [Threads -> Tasks \cup {None}]
    BY <1>1, <1>2 DEF TypeOK, ClientState, AfterWait
  <2>2. lapses' \subseteq Lapse
    BY <1>2 DEF TypeOK, Lapse
  <2> QED BY <1>2, <2>1, <2>2 DEF TypeOK, taskVars, poolVars, Failure
<1>5. /\ \A k : InUse(k)' <=> InUse(k)
      /\ \A w \in Workers : Busy(w)' <=> Busy(w)
  BY <1>2, <1>3, UseStands
<1>6. Hands'
  BY <1>1, <1>2, <1>3 DEF Hands, ClientState, taskVars, poolVars
<1>7. Pool'
  BY <1>1, <1>2, <1>3 DEF Pool, Refreshing, taskVars, poolVars
<1>8. Use'
  BY <1>1, <1>2, <1>3, <1>5 DEF Use, taskVars, poolVars
<1>9. Valid'
  BY <1>1, <1>2, <1>3, <1>5 DEF Valid, taskVars, poolVars
<1>10. Sound'
  <2> SUFFICES ASSUME Waits' PROVE Sound'
    BY DEF Sound
  <2>1. Waits
    BY <1>2 DEF Waits
  <2>2. task[c] \in terminated =>
          /\ ~InUse(task[c])
          /\ \A w \in Workers : pc[w] \in {"wake", "unlock"} => task[w] # task[c]
    BY <1>1, <2>1 DEF Use, Sound
  <2>3. pc[c] \in {"owns", "condwait"} /\ (t = c => pc[c] = "owns")
    OBVIOUS
  <2>4. ASSUME NEW k \in Tasks, InUse(k)
        PROVE  task'[c] = k /\ pc'[c] \in {"owns", "condwait"}
    BY <1>1, <1>3, <2>1, <2>2, <2>3, <2>4 DEF Sound
  <2>5. ASSUME NEW w \in Workers, pc[w] \in {"wake", "unlock"}
        PROVE  /\ mutex[task[w]] = w /\ task[w] \in terminated
               /\ task'[c] = task[w] /\ pc'[c] \in {"owns", "condwait", "woken"}
    BY <1>1, <1>3, <2>1, <2>2, <2>3, <2>5 DEF Sound
  <2>6. pc'[c] \in {"woken", "dispose", "return"} => task'[c] \in terminated
    BY <1>1, <1>3, <2>3
  <2>7. failed' = "none" /\ nonTerminated' = <<>>
    BY <1>2, <2>1 DEF Sound, poolVars
  <2> QED BY <1>1, <1>2, <1>3, <1>5, <2>4, <2>5, <2>6, <2>7 DEF Sound, taskVars
<1> QED BY <1>4, <1>6, <1>7, <1>8, <1>9, <1>10

\* The return of Cond_wait: the client goes on to dispose of the task.
LEMMA WaitReturnsKeeps ==
  ASSUME SingleClient, TaskInv, NEW t \in Clients \cup Joiners, WaitReturns(t), UNCHANGED lapses
  PROVE  TaskInv'
<1> USE TaskAssumption DEF TaskInv, Threads
<1>1. /\ pc[t] = "woken" /\ mutex[task[t]] = None /\ \A c \in Clients : t \in Clients => t = c
      /\ t \in Joiners <=> t \notin Clients
      /\ UNCHANGED <<taskVars, poolVars, queued, failed>>
  BY DEF WaitReturns, At, SingleClient
<1>2. /\ t \in Clients => pc' = [pc EXCEPT ![t] = "dispose"] /\ task' = task
      /\ t \in Joiners => pc' = [pc EXCEPT ![t] = "idle"] /\ task' = [task EXCEPT ![t] = None]
  BY <1>1 DEF WaitReturns, Goto, AfterWait, TypeOK
<1>3. /\ t \in Clients => pc'[t] = "dispose" /\ task' = task
      /\ t \in Joiners => pc'[t] = "idle" /\ task'[t] = None
      /\ \A u \in Threads : u # t => pc'[u] = pc[u] /\ task'[u] = task[u]
  BY <1>1, <1>2 DEF TypeOK
<1>4. TypeOK'
  <2>1. /\ pc' \in [Threads -> ClientState \cup WorkerState]
        /\ task' \in [Threads -> Tasks \cup {None}]
    BY <1>1, <1>2 DEF TypeOK, ClientState
  <2> QED BY <1>1, <2>1 DEF TypeOK, taskVars, poolVars
<1>5. /\ \A k : InUse(k)' <=> InUse(k)
      /\ \A w \in Workers : Busy(w)' <=> Busy(w)
  BY <1>1, <1>3, UseStands
<1>6. Hands'
  BY <1>1, <1>3 DEF Hands, ClientState, taskVars, poolVars
<1>7. Pool'
  BY <1>1, <1>3 DEF Pool, Refreshing, taskVars, poolVars
<1>8. Use'
  BY <1>1, <1>3, <1>5 DEF Use, taskVars, poolVars
<1>9. Valid'
  BY <1>1, <1>3, <1>5 DEF Valid, taskVars, poolVars
<1>10. Sound'
  BY <1>1, <1>3, <1>5 DEF Sound, Waits, Use, taskVars, poolVars
<1> QED BY <1>4, <1>6, <1>7, <1>8, <1>9, <1>10

\* WakeSpuriously and SkipWait: what Sound says is said no more.
LEMMA LapseKeeps ==
  ASSUME SingleClient, TaskInv, NEW t \in Clients \cup Joiners,
         WakeSpuriously(t) \/ (t \in Clients /\ SkipWait(t))
  PROVE  TaskInv'
<1> USE TaskAssumption DEF TaskInv, Threads
<1>1. /\ \/ pc[t] = "condwait" /\ pc' = [pc EXCEPT ![t] = "woken"]
         \/ t \in Clients /\ pc[t] = "owns" /\ pc' = [pc EXCEPT ![t] = "dispose"]
      /\ lapses' \in {lapses \cup {"spurious"}, lapses \cup {"early"}}
      /\ UNCHANGED <<taskVars, poolVars, queued, task, failed>>
      /\ t \in Joiners <=> t \notin Clients
  BY DEF WakeSpuriously, SkipWait, At, Goto
<1>2. /\ \/ pc[t] = "condwait" /\ pc'[t] = "woken"
         \/ t \in Clients /\ pc[t] = "owns" /\ pc'[t] = "dispose"
      /\ \A u \in Threads : u # t => pc'[u] = pc[u]
  BY <1>1 DEF TypeOK
<1>3. TypeOK'
  <2>1. pc' \in [Threads -> ClientState \cup WorkerState]
    BY <1>1 DEF TypeOK, ClientState
  <2>2. lapses' \subseteq Lapse
    BY <1>1 DEF TypeOK, Lapse
  <2> QED BY <1>1, <2>1, <2>2 DEF TypeOK, taskVars, poolVars
<1>4. /\ \A k : InUse(k)' <=> InUse(k)
      /\ \A w \in Workers : Busy(w)' <=> Busy(w)
  BY <1>1, <1>2, UseStands
<1>5. Hands'
  BY <1>1, <1>2 DEF Hands, ClientState, taskVars, poolVars
<1>6. Pool'
  BY <1>1, <1>2 DEF Pool, Refreshing, taskVars, poolVars
<1>7. Use'
  BY <1>1, <1>2, <1>4 DEF Use, taskVars, poolVars
<1>8. Valid'
  BY <1>1, <1>2, <1>4 DEF Valid, taskVars, poolVars
<1>9. Sound'
  BY <1>1 DEF Sound, Waits
<1> QED BY <1>3, <1>5, <1>6, <1>7, <1>8, <1>9

\* A task that has not terminated goes to the list: the client has not waited.
LEMMA DisposeLaterKeeps ==
  ASSUME SingleClient, TaskInv, NEW c \in Clients, DisposeLater(c), UNCHANGED lapses
  PROVE  TaskInv'
<1> USE TaskAssumption DEF TaskInv, Threads
<1>1. /\ pc[c] = "dispose" /\ task[c] \in Tasks /\ task[c] \notin terminated
      /\ task[c] \in valid /\ task[c] \in allocated /\ \A d \in Clients : d = c
      /\ nonTerminated \in Seq(Tasks) /\ Once(nonTerminated) /\ temp = <<>>
      /\ ~In(task[c], nonTerminated) /\ ~In(task[c], free)
  BY DEF DisposeLater, At, TypeOK, Hands, Valid, Pool, Refreshing, SingleClient
<1>2. /\ pc' = [pc EXCEPT ![c] = "idle"] /\ task' = [task EXCEPT ![c] = None]
      /\ nonTerminated' = Append(nonTerminated, task[c])
      /\ UNCHANGED <<taskVars, free, temp, queued, failed>>
  BY DEF DisposeLater, Goto, Handle
<1>3. /\ pc'[c] = "idle" /\ task'[c] = None
      /\ \A u \in Threads : u # c => pc'[u] = pc[u] /\ task'[u] = task[u]
  BY <1>2 DEF TypeOK
<1>4. /\ nonTerminated' \in Seq(Tasks) /\ Once(nonTerminated')
      /\ \A k : In(k, nonTerminated') <=> In(k, nonTerminated) \/ k = task[c]
  BY <1>1, <1>2, Pushed
<1>5. TypeOK'
  <2>1. /\ pc' \in [Threads -> ClientState \cup WorkerState]
        /\ task' \in [Threads -> Tasks \cup {None}]
    BY <1>2 DEF TypeOK, ClientState
  <2> QED BY <1>2, <1>4, <2>1 DEF TypeOK, taskVars
<1>6. /\ \A k : InUse(k)' <=> InUse(k)
      /\ \A w \in Workers : Busy(w)' <=> Busy(w)
  BY <1>2, <1>3, UseStands
<1>7. Hands'
  BY <1>1, <1>2, <1>3, <1>4 DEF Hands, ClientState, taskVars
<1>8. Pool'
  <2>1. ~In(None, free) /\ ~In(None, nonTerminated')
    BY <1>4, NoneIsNowhere DEF TypeOK
  <2>2. \A k : ~In(k, <<>>)
    BY DEF In
  <2> QED BY <1>1, <1>2, <1>3, <1>4, <2>1, <2>2 DEF Pool, Refreshing, taskVars
<1>9. Use'
  BY <1>1, <1>2, <1>3, <1>6 DEF Use, taskVars
<1>10. Valid'
  BY <1>1, <1>2, <1>3, <1>4, <1>6 DEF Valid, taskVars
<1>11. Sound'
  BY <1>1 DEF Sound, Waits
<1> QED BY <1>5, <1>7, <1>8, <1>9, <1>10, <1>11

\* A task that has terminated is about to go to the queue of the pool.
LEMMA DisposeNowKeeps ==
  ASSUME SingleClient, TaskInv, NEW c \in Clients, DisposeNow(c), UNCHANGED lapses
  PROVE  TaskInv'
<1> USE TaskAssumption DEF TaskInv, Threads
<1>1. /\ pc[c] = "dispose" /\ pc' = [pc EXCEPT ![c] = "return"] /\ \A d \in Clients : d = c
      /\ task[c] \in terminated
      /\ UNCHANGED <<taskVars, poolVars, queued, task, failed>>
  BY DEF DisposeNow, At, Goto, SingleClient
<1>2. pc'[c] = "return" /\ \A u \in Threads : u # c => pc'[u] = pc[u]
  BY <1>1 DEF TypeOK
<1>3. TypeOK'
  <2>1. pc' \in [Threads -> ClientState \cup WorkerState]
    BY <1>1 DEF TypeOK, ClientState
  <2> QED BY <1>1, <2>1 DEF TypeOK, taskVars, poolVars
<1>4. /\ \A k : InUse(k)' <=> InUse(k)
      /\ \A w \in Workers : Busy(w)' <=> Busy(w)
  BY <1>1, <1>2, UseStands
<1>5. Hands'
  BY <1>1, <1>2 DEF Hands, ClientState, taskVars, poolVars
<1>6. Pool'
  BY <1>1, <1>2 DEF Pool, Refreshing, taskVars, poolVars
<1>7. Use' /\ Valid'
  BY <1>1, <1>2, <1>4 DEF Use, Valid, taskVars, poolVars
<1>8. Sound'
  BY <1>1, <1>2, <1>4 DEF Sound, Waits, taskVars, poolVars
<1> QED BY <1>3, <1>5, <1>6, <1>7, <1>8

-----------------------------------------------------------------------------
\* The pool begins with tasks that nobody uses.
LEMMA TaskBegins == Init => TaskInv
<1> SUFFICES ASSUME Init PROVE TaskInv
  OBVIOUS
<1> USE TaskAssumption DEF Init
<1>1. IsFiniteSet(Pooled)
  BY FS_Subset
<1>2. /\ free \in Seq(Tasks) /\ Once(free)
      /\ \A k : In(k, free) => k \in Pooled
  BY <1>1, ListOfSet
<1>3. <<>> \in Seq(Tasks) /\ Once(<<>>) /\ \A k : ~In(k, <<>>)
  BY DEF In, Once
<1>4. TypeOK
  BY <1>2, <1>3 DEF TypeOK, ClientState, Failure
<1>5. \A k : ~InUse(k)
  BY <1>3 DEF InUse, Busy, Threads
<1>6. Hands
  BY <1>2, <1>3 DEF Hands, ClientState, WorkerState, Threads
<1>7. Pool
  <2>1. \A t \in Threads : pc[t] = "idle" /\ task[t] = None
    OBVIOUS
  <2>2. ~In(None, free)
    BY <1>2, NoneIsNowhere
  <2> QED BY <1>2, <1>3, <2>1, <2>2 DEF Pool, Refreshing, Threads
<1>8. Use
  BY <1>3, <1>5 DEF Use, Busy, Threads
<1>9. Valid
  BY <1>3, <1>5 DEF Valid, Threads
<1>10. Sound
  BY <1>5 DEF Sound, Waits, Threads
<1> QED BY <1>4, <1>6, <1>7, <1>8, <1>9, <1>10 DEF TaskInv

\* Every step keeps the invariant.
LEMMA TaskGoesOn ==
  ASSUME SingleClient, TaskInv, [Next]_vars
  PROVE  TaskInv'
<1>1. CASE UNCHANGED vars
  <2> USE <1>1 DEF vars, taskVars, poolVars, TaskInv, In
  <2>1. TypeOK' /\ Hands'
    BY DEF TypeOK, Hands
  <2>2. Pool'
    BY DEF Pool, Once
  <2>3. Use' /\ Valid'
    BY DEF Use, Valid, Once, InUse, Busy
  <2>4. Sound'
    BY DEF Sound, InUse, Busy, Waits
  <2> QED BY <2>1, <2>2, <2>3, <2>4
<1>2. ASSUME NEW c \in Clients, ClientNext(c) PROVE TaskInv'
  <2>1. CASE WaitOwn(c)
    BY <1>2, <2>1, WaitKeeps DEF WaitOwn, At
  <2>2. CASE ClientStep(c) /\ UNCHANGED lapses
    BY <1>2, <2>2, DrainKeeps, UnlistKeeps, PushKeeps, ClearKeeps, GetKeeps, InitTaskKeeps,
       EnqueueKeeps, WaitReturnsKeeps, DisposeLaterKeeps, DisposeNowKeeps DEF ClientStep
  <2> QED BY <1>2, <2>1, <2>2 DEF ClientNext
<1>3. ASSUME NEW c \in Clients, Scan(c), UNCHANGED lapses PROVE TaskInv'
  BY <1>3, ScanKeeps
<1>4. ASSUME NEW c \in Clients, SkipWait(c) \/ WakeSpuriously(c) PROVE TaskInv'
  BY <1>4, LapseKeeps
<1>5. ASSUME NEW j \in Joiners, NEW c \in Clients, WaitJoined(j, c) PROVE TaskInv'
  BY <1>5, WaitKeeps DEF WaitJoined, At
<1>6. ASSUME NEW j \in Joiners, JoinerNext(j) PROVE TaskInv'
  BY <1>6, WaitReturnsKeeps DEF JoinerNext
<1>7. ASSUME NEW j \in Joiners, WakeSpuriously(j) PROVE TaskInv'
  BY <1>7, LapseKeeps
<1>8. ASSUME NEW w \in Workers, WorkerNext(w) PROVE TaskInv'
  BY <1>8, TakeKeeps, RunKeeps, SignalLockKeeps, SignalMarkKeeps, SignalWakeKeeps,
     SignalUnlockKeeps DEF WorkerNext, WorkerStep
<1> QED BY <1>1, <1>2, <1>3, <1>4, <1>5, <1>6, <1>7, <1>8 DEF Next

\* How often something is in a sequence that has nothing twice.
LEMMA OccursAtMostOnce ==
  ASSUME NEW A, NEW s \in Seq(A), Once(s), NEW k
  PROVE  OccursIn(k, s) = IF In(k, s) THEN 1 ELSE 0
<1>1. CASE In(k, s)
  <2>1. PICK n \in 1..Len(s) : s[n] = k
    BY <1>1 DEF In
  <2>2. {i \in 1..Len(s) : s[i] = k} = {n}
    BY <2>1 DEF Once
  <2> QED BY <1>1, <2>2, FS_Singleton DEF OccursIn
<1>2. CASE ~In(k, s)
  <2>1. {i \in 1..Len(s) : s[i] = k} = {}
    BY <1>2 DEF In
  <2> QED BY <1>2, <2>1, FS_EmptySet DEF OccursIn
<1> QED BY <1>1, <1>2

\* The invariant says what the run checks.
LEMMA OwnedByInvariant ==
  ASSUME SingleClient, TaskInv
  PROVE  TasksAreOwned
<1> USE TaskAssumption DEF TaskInv
<1>1. NoFailedRequire
  BY DEF NoFailedRequire, Sound, Waits
<1>2. TaskHasOneOwner
  <2> SUFFICES ASSUME NEW k \in Tasks
               PROVE  OccursIn(k, free) + OccursIn(k, nonTerminated)
                        + Cardinality({c \in Clients :
                            task[c] = k /\ pc[c] \notin {"unlist", "clear", "clearReturned"}})
                      <= 1
    BY DEF TaskHasOneOwner
  <2> DEFINE Holds(c) == task[c] = k /\ pc[c] \notin {"unlist", "clear", "clearReturned"}
             H == {c \in Clients : Holds(c)}
  <2>1. /\ OccursIn(k, free) = IF In(k, free) THEN 1 ELSE 0
        /\ OccursIn(k, nonTerminated) = IF In(k, nonTerminated) THEN 1 ELSE 0
    BY OccursAtMostOnce DEF TypeOK, Pool
  <2>2. ~(In(k, free) /\ In(k, nonTerminated))
    BY DEF Pool
  <2>3. CASE \E c \in Clients : Holds(c)
    <3>1. PICK c \in Clients : Holds(c)
      BY <2>3
    <3>2. H = {c}
      BY <3>1 DEF SingleClient
    <3>3. ~In(k, free) /\ ~In(k, nonTerminated)
      BY <3>1 DEF Pool
    <3>4. Cardinality(H) = 1
      BY <3>2, FS_Singleton
    <3> HIDE DEF H
    <3>5. OccursIn(k, free) + OccursIn(k, nonTerminated) + Cardinality(H) <= 1
      BY <2>1, <3>3, <3>4
    <3> QED BY <3>5 DEF H
  <2>4. CASE ~\E c \in Clients : Holds(c)
    <3>1. H = {}
      BY <2>4
    <3>2. Cardinality(H) = 0
      BY <3>1, FS_EmptySet
    <3> HIDE DEF H
    <3>3. OccursIn(k, free) + OccursIn(k, nonTerminated) + Cardinality(H) <= 1
      BY <2>1, <2>2, <3>2
    <3> QED BY <3>3 DEF H
  <2> QED BY <2>3, <2>4
<1>3. FreeIsUnused
  <2> SUFFICES ASSUME NEW i \in 1..Len(free)
               PROVE  /\ OccursIn(free[i], queued) = 0
                      /\ \A w \in Workers : task[w] = free[i] => ~Busy(w)
    BY DEF FreeIsUnused, Busy
  <2>1. free[i] \in Tasks /\ In(free[i], free)
    BY ElementOfSeq DEF TypeOK, In
  <2>2. ~InUse(free[i])
    BY <2>1 DEF Use
  <2>3. OccursIn(free[i], queued) = 0
    BY <2>2, OccursAtMostOnce DEF InUse, TypeOK, Use
  <2> QED BY <2>2, <2>3 DEF InUse, Busy
<1>4. WaitedIsTerminated
  BY DEF WaitedIsTerminated, Sound, Waits
<1> QED BY <1>1, <1>2, <1>3, <1>4 DEF TasksAreOwned

(* One client may use the pool (disposeTask pushes a task to the pool before *)
(* it has cleared it, so that two may get hold of it). Then a task is in one *)
(* place, the pool has none that the workers still use, and as long as the   *)
(* client waits for its tasks and no wait returns unasked, every one it      *)
(* disposes of has terminated and no assertion of WorkQueue.c on a task's    *)
(* validity, mutex or condition fails.                                       *)
THEOREM TasksStayOwned ==
  ASSUME SingleClient
  PROVE  Spec => []TasksAreOwned
<1>1. TaskInv /\ [Next]_vars => TaskInv'
  BY TaskGoesOn
<1>2. TaskInv => TasksAreOwned
  BY OwnedByInvariant
<1> QED BY <1>1, <1>2, TaskBegins, PTL DEF Spec
=============================================================================
