---------------------------- MODULE CpuCallProofs ----------------------------
(***************************************************************************)
(* cpu_call_many() returns when its function has run on all CPUs of its    *)
(* mask, for any number of CPUs, callers and Cpu_calls.                    *)
(*                                                                         *)
(* The proof looks at where a Cpu_call is: At(d, r) says that it is in the *)
(* queue of CPU d or being executed there.                                 *)
(***************************************************************************)
EXTENDS CpuCall, TLAPS

(***************************************************************************)
(* Facts about the queues, sequences without repetition.                   *)
(***************************************************************************)
\* enqueue()
LEMMA AppendList ==
  ASSUME NEW T, NEW s \in Seq(T), NEW e \in T
  PROVE  /\ Append(s, e) \in Seq(T)
         /\ Range(Append(s, e)) = Range(s) \cup {e}
         /\ IsInjective(s) /\ e \notin Range(s) => IsInjective(Append(s, e))
<1>1. /\ Append(s, e) \in Seq(T) /\ Len(Append(s, e)) = Len(s) + 1
      /\ \A i \in 1 .. Len(s) : Append(s, e)[i] = s[i]
      /\ Append(s, e)[Len(s) + 1] = e
  OBVIOUS
<1>2. DOMAIN s = 1 .. Len(s) /\ DOMAIN Append(s, e) = 1 .. Len(s) + 1 /\ Len(s) \in Nat
  BY <1>1
<1>3. Range(Append(s, e)) = Range(s) \cup {e}
  BY <1>1, <1>2 DEF Range
<1>4. IsInjective(s) /\ e \notin Range(s) => IsInjective(Append(s, e))
  BY <1>1, <1>2 DEF Range, IsInjective
<1> QED BY Zenon, <1>1, <1>3, <1>4

\* first() and dequeue() of it
LEMMA TailList ==
  ASSUME NEW T, NEW s \in Seq(T), s # <<>>
  PROVE  /\ Head(s) \in T /\ Head(s) \in Range(s) /\ Tail(s) \in Seq(T)
         /\ Range(s) = {Head(s)} \cup Range(Tail(s))
         /\ IsInjective(s) => IsInjective(Tail(s)) /\ Head(s) \notin Range(Tail(s))
<1>1. /\ Tail(s) \in Seq(T) /\ Len(Tail(s)) = Len(s) - 1 /\ Len(s) \in Nat \ {0}
      /\ \A i \in 1 .. Len(s) - 1 : Tail(s)[i] = s[i + 1]
      /\ Head(s) = s[1] /\ s[1] \in T
  OBVIOUS
<1>2. DOMAIN s = 1 .. Len(s) /\ DOMAIN Tail(s) = 1 .. Len(s) - 1
  BY <1>1
<1>3. Range(s) = {Head(s)} \cup Range(Tail(s))
  <2>1. ASSUME NEW i \in 1 .. Len(s) PROVE s[i] \in {Head(s)} \cup Range(Tail(s))
    <3>1. i = 1 \/ (i - 1 \in 1 .. Len(s) - 1 /\ Tail(s)[i - 1] = s[i])
      BY <1>1
    <3> QED BY Zenon, <1>1, <1>2, <3>1 DEF Range
  <2> QED BY <1>1, <1>2, <2>1 DEF Range
<1>4. IsInjective(s) => IsInjective(Tail(s)) /\ Head(s) \notin Range(Tail(s))
  BY <1>1, <1>2 DEF Range, IsInjective
<1> QED BY Zenon, <1>1, <1>3, <1>4

\* dequeue() of a given element
LEMMA RemoveList ==
  ASSUME NEW T, NEW s \in Seq(T), NEW e \in Range(s)
  PROVE  /\ Dequeue(s, e) \in Seq(T)
         /\ IsInjective(s) => /\ Range(Dequeue(s, e)) = Range(s) \ {e}
                              /\ IsInjective(Dequeue(s, e))
<1> DEFINE k == CHOOSE i \in 1 .. Len(s) : s[i] = e
           r == Dequeue(s, e)
<1>0. DOMAIN s = 1 .. Len(s) /\ Len(s) \in Nat OBVIOUS
<1>1. \E i \in 1 .. Len(s) : s[i] = e BY Zenon, <1>0 DEF Range
<1>2. k \in 1 .. Len(s) /\ s[k] = e BY Zenon, <1>1
<1>3. r = SubSeq(s, 1, k - 1) \o SubSeq(s, k + 1, Len(s)) BY Zenon DEF Dequeue
<1> HIDE DEF r, k
<1>4. /\ SubSeq(s, 1, k - 1) \in Seq(T) /\ Len(SubSeq(s, 1, k - 1)) = k - 1
      /\ \A i \in 1 .. k - 1 : SubSeq(s, 1, k - 1)[i] = s[i]
  BY <1>0, <1>2
<1>5. /\ SubSeq(s, k + 1, Len(s)) \in Seq(T) /\ Len(SubSeq(s, k + 1, Len(s))) = Len(s) - k
      /\ \A i \in 1 .. Len(s) - k : SubSeq(s, k + 1, Len(s))[i] = s[k + i]
  <2>1. k + 1 \in Int /\ Len(s) \in Int /\ \A i \in k + 1 .. Len(s) : s[i] \in T BY <1>0, <1>2
  <2> DEFINE u == SubSeq(s, k + 1, Len(s))
  <2>2. /\ u \in Seq(T) /\ Len(u) = IF k + 1 <= Len(s) THEN Len(s) - (k + 1) + 1 ELSE 0
        /\ \A i \in 1 .. Len(s) - (k + 1) + 1 : u[i] = s[k + 1 + i - 1]
    BY <2>1
  <2> HIDE DEF u
  <2>3. Len(u) = Len(s) - k
    <3>1. Len(u) = IF k + 1 <= Len(s) THEN Len(s) - (k + 1) + 1 ELSE 0 BY Zenon, <2>2
    <3>2. k \in Int /\ Len(s) \in Int /\ k <= Len(s) BY <1>0, <1>2
    <3> QED BY <3>1, <3>2
  <2>4. ASSUME NEW i \in 1 .. Len(s) - k PROVE u[i] = s[k + i]
    <3>1. i \in 1 .. Len(s) - (k + 1) + 1 /\ k + 1 + i - 1 = k + i BY <1>0, <1>2
    <3> QED BY Zenon, <2>2, <3>1
  <2> QED BY Zenon, <2>2, <2>3, <2>4 DEF u
<1> DEFINE a == SubSeq(s, 1, k - 1)
           b == SubSeq(s, k + 1, Len(s))
<1>6. /\ r \in Seq(T) /\ Len(r) = Len(a) + Len(b)
      /\ \A i \in 1 .. Len(a) + Len(b) : r[i] = IF i <= Len(a) THEN a[i] ELSE b[i - Len(a)]
  BY SMTT(30), <1>3, <1>4, <1>5
<1> HIDE DEF a, b
<1>7. /\ Len(r) = Len(s) - 1
      /\ \A i \in 1 .. Len(s) - 1 : r[i] = IF i < k THEN s[i] ELSE s[i + 1]
  <2>1. Len(a) = k - 1 /\ \A i \in 1 .. k - 1 : a[i] = s[i] BY Zenon, <1>4 DEF a
  <2>2. Len(b) = Len(s) - k /\ \A i \in 1 .. Len(s) - k : b[i] = s[k + i] BY Zenon, <1>5 DEF b
  <2>3. Len(r) = Len(s) - 1 BY <1>0, <1>2, <1>6, <2>1, <2>2
  <2>4. ASSUME NEW i \in 1 .. Len(s) - 1 PROVE r[i] = IF i < k THEN s[i] ELSE s[i + 1]
    <3>1. CASE i < k BY <1>0, <1>2, <1>6, <2>1, <2>2, <3>1
    <3>2. CASE ~(i < k)
      <4>0. i \in 1 .. Len(a) + Len(b) /\ ~(i <= Len(a)) BY <1>0, <1>2, <2>1, <2>2, <3>2
      <4>1. r[i] = b[i - (k - 1)] BY Zenon, <1>6, <2>1, <4>0
      <4>2. i - (k - 1) \in 1 .. Len(s) - k /\ k + (i - (k - 1)) = i + 1 BY <1>0, <1>2, <3>2
      <4> QED BY Zenon, <2>2, <3>2, <4>1, <4>2
    <3> QED BY Zenon, <3>1, <3>2
  <2> QED BY Zenon, <2>3, <2>4
<1>8. DOMAIN r = 1 .. Len(s) - 1 BY <1>6, <1>7
<1>9. ASSUME IsInjective(s) PROVE Range(r) = Range(s) \ {e}
  <2>1. ASSUME NEW i \in 1 .. Len(s) - 1 PROVE r[i] \in Range(s) \ {e}
    <3>1. PICK j \in 1 .. Len(s) : r[i] = s[j] /\ j # k BY <1>0, <1>2, <1>7
    <3> QED BY Zenon, <1>0, <1>2, <1>9, <3>1 DEF Range, IsInjective
  <2>2. ASSUME NEW i \in 1 .. Len(s), s[i] # e PROVE s[i] \in Range(r)
    <3>1. PICK j \in 1 .. Len(s) - 1 : r[j] = s[i]
      <4>1. CASE i < k BY <1>0, <1>2, <1>7, <4>1
      <4>2. CASE i > k
        <5>1. i - 1 \in 1 .. Len(s) - 1 /\ ~(i - 1 < k) /\ i - 1 + 1 = i BY <1>0, <1>2, <4>2
        <5> QED BY Zenon, <1>7, <5>1
      <4> QED BY <1>2, <2>2, <4>1, <4>2
    <3> QED BY Zenon, <1>8, <3>1 DEF Range
  <2> QED BY Zenon, <1>0, <1>8, <2>1, <2>2 DEF Range
<1>10. ASSUME IsInjective(s) PROVE IsInjective(r)
  <2> SUFFICES ASSUME NEW i \in 1 .. Len(s) - 1, NEW j \in 1 .. Len(s) - 1, r[i] = r[j] PROVE i = j
    BY Zenon, <1>8 DEF IsInjective
  <2>1. \A x, y \in 1 .. Len(s) : s[x] = s[y] => x = y BY Zenon, <1>0, <1>10 DEF IsInjective
  <2> QED BY <1>0, <1>2, <1>7, <2>1
<1> QED BY Zenon, <1>6, <1>9, <1>10 DEF r

(***************************************************************************)
(* Types.                                                                  *)
(***************************************************************************)
\* What the next step of CPU c takes its local variables for.
LocalsOf(c) ==
  /\ IF hst[c] \in {"run", "done"} THEN hnd[c] \in Calls ELSE hnd[c] = None
  /\ pc[c] \in RemoteLabels => n[c] \in Cpus /\ call[c] \in 1 .. used[c]
  /\ pc[c] = "loop1" /\ call[c] # None => call[c] \in 1 .. used[c]

TypeInv == TypeOK /\ \A c \in Cpus : LocalsOf(c)

\* Calls are pairs of a caller and an index.
LEMMA CallFacts ==
  /\ \A c \in Cpus, i \in 1 .. MaxCalls : <<c, i>> \in Calls
  /\ \A r \in Calls : r[1] \in Cpus /\ r[2] \in 1 .. MaxCalls /\ r = <<r[1], r[2]>>
  /\ None \notin Calls
  BY CpuCallAssumption DEF Calls

LEMMA TypeInit == Init => TypeInv
<1> SUFFICES ASSUME Init PROVE TypeInv OBVIOUS
<1>1. 0 \in 0 .. MaxCalls BY CpuCallAssumption
<1>2. TypeOK BY <1>1 DEF Init, TypeOK, CallerLabels
<1>3. ASSUME NEW c \in Cpus PROVE LocalsOf(c) BY Zenon DEF Init, LocalsOf, RemoteLabels
<1> QED BY Zenon, <1>2, <1>3 DEF TypeInv

\* A step of CPU c leaves the local variables of the others alone.
OnlyBy(c) ==
  \A d \in Cpus \ {c} : /\ hst'[d] = hst[d] /\ hnd'[d] = hnd[d] /\ pc'[d] = pc[d] /\ n'[d] = n[d]
                        /\ call'[d] = call[d] /\ used'[d] = used[d]

LEMMA TypeOnly == ASSUME TypeInv, NEW c \in Cpus, OnlyBy(c), TypeOK', LocalsOf(c)' PROVE TypeInv'
<1>1. ASSUME NEW d \in Cpus \ {c} PROVE LocalsOf(d)' BY Zenon DEF OnlyBy, TypeInv, LocalsOf
<1> QED BY Zenon, <1>1 DEF TypeInv

\* The caller goes on at l.
LEMMA GotoTypes ==
  ASSUME TypeOK, NEW c \in Cpus, NEW l \in CallerLabels, Goto(c, l)
  PROVE  pc' \in [Cpus -> CallerLabels] /\ pc'[c] = l /\ \A d \in Cpus \ {c} : pc'[d] = pc[d]
  BY Zenon DEF TypeOK, Goto

\* The next remote_call().
LEMMA CallTypes ==
  ASSUME TypeInv, NEW c \in Cpus, NEW i \in 1 .. used[c], NEW l \in {"loop1", "loop2"}, NEW a \in todo[c],
         CallSelf(c, a, l) \/ CallOther(c, a, <<c, i>>), pc[c] \in {"loop1", "loop2"},
         todo' = [todo EXCEPT ![c] = @ \ {a}], call' = [call EXCEPT ![c] = i],
         UNCHANGED <<sys, online, ipi, q, hvars, loop, used, mask>>
  PROVE  TypeInv'
<1>1. a \in Cpus BY Zenon DEF TypeInv, TypeOK
<1>2. i \in 1 .. MaxCalls BY CpuCallAssumption DEF TypeInv, TypeOK
<1>3. <<c, i>> \in Calls BY Zenon, <1>2, CallFacts
<1>4. /\ todo' \in [Cpus -> SUBSET Cpus] /\ call' \in [Cpus -> (1 .. MaxCalls) \cup {None}]
  BY Zenon, <1>2 DEF TypeInv, TypeOK
<1>5. /\ wait' \in [Calls -> BOOLEAN] /\ n' \in [Cpus -> Cpus \cup {None}]
      /\ pc' \in [Cpus -> CallerLabels]
      /\ ran' \in [Cpus -> SUBSET Cpus] /\ skipped' \in [Cpus -> SUBSET Cpus]
      /\ \A d \in Cpus \ {c} : pc'[d] = pc[d] /\ n'[d] = n[d]
      /\ pc'[c] \in RemoteLabels => n'[c] \in Cpus
  <2>1. CASE CallSelf(c, a, l) BY <1>1, <2>1 DEF CallSelf, Goto, TypeInv, TypeOK, RemoteLabels, CallerLabels
  <2>2. CASE CallOther(c, a, <<c, i>>)
    BY Zenon, <1>1, <1>3, <2>2 DEF CallOther, Goto, TypeInv, TypeOK, RemoteLabels, CallerLabels
  <2> QED BY Zenon, <2>1, <2>2
<1>6. TypeOK' BY Zenon, <1>4, <1>5 DEF TypeInv, TypeOK, hvars
<1>7. /\ call'[c] = i /\ used' = used /\ hst' = hst /\ hnd' = hnd /\ LocalsOf(c)
      /\ \A d \in Cpus \ {c} : call'[d] = call[d]
  BY Zenon DEF TypeInv, TypeOK, hvars
<1>8. OnlyBy(c) BY Zenon, <1>5, <1>7 DEF OnlyBy
<1>9. LocalsOf(c)' BY Zenon, <1>5, <1>7 DEF LocalsOf
<1> QED BY Zenon, <1>6, <1>8, <1>9, TypeOnly

\* The caller keeps the types.
LEMMA CallerTypes == ASSUME TypeInv, NEW c \in Cpus, Caller(c) PROVE TypeInv'
<1>0. TypeOK /\ LocalsOf(c) /\ UNCHANGED sys BY Zenon DEF TypeInv, Caller
<1>1. CASE Loop1(c)
  <2>1. call[c] \in 1 .. used[c] BY Zenon, <1>0, <1>1 DEF Loop1, LocalsOf
  <2>2. call' = [call EXCEPT ![c] = call[c]] BY Zenon, <1>0, <1>1 DEF Loop1, TypeOK
  <2>3. PICK a \in todo[c] : /\ todo' = [todo EXCEPT ![c] = @ \ {a}]
                             /\ CallSelf(c, a, "loop1") \/ CallOther(c, a, <<c, call[c]>>)
    BY Zenon, <1>1 DEF Loop1, Lowest
  <2> QED BY Zenon, <1>0, <1>1, <2>1, <2>2, <2>3, CallTypes DEF Loop1
<1>2. CASE Loop2(c)
  <2>1. PICK a \in todo[c], i \in 1 .. used[c] :
          /\ todo' = [todo EXCEPT ![c] = @ \ {a}] /\ call' = [call EXCEPT ![c] = i]
          /\ CallSelf(c, a, "loop2") \/ CallOther(c, a, <<c, i>>)
    BY Zenon, <1>2 DEF Loop2, Lowest
  <2> QED BY Zenon, <1>0, <1>2, <2>1, CallTypes DEF Loop2
<1>3. CASE Loop1End(c) \/ WaitAll(c) \/ TestOnline(c) \/ AssertDone(c)
  <2>1. UNCHANGED <<sys, online, ipi, q, wait, hst, hnd, todo, n, call, used, mask, ran, skipped>>
    BY Zenon, <1>0, <1>3 DEF Loop1End, WaitAll, TestOnline, AssertDone, hvars
  <2>2. PICK l \in CallerLabels :
          Goto(c, l) /\ (l \in RemoteLabels \cup {"loop1"} => pc[c] \in RemoteLabels)
    <3>1. loop[c] \in {"loop1", "loop2"} BY Zenon, <1>0 DEF TypeOK
    <3> QED BY <1>3, <3>1 DEF Loop1End, WaitAll, TestOnline, AssertDone, CallerLabels, RemoteLabels
  <2>3. pc' \in [Cpus -> CallerLabels] /\ pc'[c] = l /\ \A d \in Cpus \ {c} : pc'[d] = pc[d]
    BY Zenon, <1>0, <2>2, GotoTypes
  <2>4. loop' \in [Cpus -> {"loop1", "loop2"}]
    BY Zenon, <1>0, <1>3 DEF TypeOK, Loop1End, WaitAll, TestOnline, AssertDone
  <2>5. TypeOK' BY Zenon, <1>0, <2>1, <2>3, <2>4 DEF TypeOK
  <2>6. LocalsOf(c)' BY Zenon, <1>0, <2>1, <2>2, <2>3 DEF LocalsOf
  <2> QED BY Zenon, <2>1, <2>3, <2>5, <2>6, TypeOnly DEF OnlyBy
<1>4. CASE Enqueue(c) \/ TakeBack(c)
  <2>0. pc[c] \in {"enq", "dequeue"} BY Zenon, <1>4 DEF Enqueue, TakeBack
  <2>1. n[c] \in Cpus /\ call[c] \in 1 .. MaxCalls /\ pc[c] \in RemoteLabels
    <3>1. pc[c] \in RemoteLabels BY Zenon, <2>0 DEF RemoteLabels
    <3>2. used[c] \in 0 .. MaxCalls /\ MaxCalls \in Nat BY Zenon, <1>0, CpuCallAssumption DEF TypeOK
    <3> QED BY <1>0, <3>1, <3>2 DEF LocalsOf
  <2>2. <<c, call[c]>> \in Calls /\ q[n[c]] \in Seq(Calls) BY Zenon, <1>0, <2>1, CallFacts DEF TypeOK
  <2>3. /\ q' \in [Cpus -> Seq(Calls)] /\ wait' \in [Calls -> BOOLEAN]
        /\ skipped' \in [Cpus -> SUBSET Cpus]
    <3>1. CASE Enqueue(c)
      <4>1. Append(q[n[c]], <<c, call[c]>>) \in Seq(Calls) BY Zenon, <2>2, AppendList
      <4> QED BY Zenon, <1>0, <2>1, <3>1, <4>1 DEF Enqueue, TypeOK
    <3>2. CASE TakeBack(c) /\ <<c, call[c]>> \in Range(q[n[c]])
      <4>1. Dequeue(q[n[c]], <<c, call[c]>>) \in Seq(Calls) BY Zenon, <2>2, <3>2, RemoveList
      <4>2. /\ q' = [q EXCEPT ![n[c]] = Dequeue(q[n[c]], <<c, call[c]>>)]
            /\ wait' = [wait EXCEPT ![<<c, call[c]>>] = FALSE]
            /\ skipped' = [skipped EXCEPT ![c] = skipped[c] \cup {n[c]}]
        BY Zenon, <3>2 DEF TakeBack
      <4>3. q' \in [Cpus -> Seq(Calls)] BY Zenon, <1>0, <2>1, <4>1, <4>2 DEF TypeOK
      <4>4. wait' \in [Calls -> BOOLEAN] BY Zenon, <1>0, <2>2, <4>2 DEF TypeOK
      <4>5. skipped' \in [Cpus -> SUBSET Cpus] BY <1>0, <2>1, <4>2 DEF TypeOK
      <4> QED BY Zenon, <4>3, <4>4, <4>5
    <3>3. CASE TakeBack(c) /\ <<c, call[c]>> \notin Range(q[n[c]])
      BY Zenon, <1>0, <3>3 DEF TakeBack, TypeOK
    <3> QED BY Zenon, <1>4, <3>1, <3>2, <3>3
  <2>4. UNCHANGED <<sys, online, ipi, hst, hnd, loop, todo, n, call, used, mask, ran>>
    BY Zenon, <1>0, <1>4 DEF Enqueue, TakeBack, hvars
  <2>5. /\ pc' \in [Cpus -> CallerLabels]
        /\ \A d \in Cpus \ {c} : pc'[d] = pc[d]
        /\ pc'[c] # "loop1"
    <3>1. PICK l \in {"test_online", "assert_done"} : Goto(c, l) BY Zenon, <1>4 DEF Enqueue, TakeBack
    <3> QED BY Zenon, <1>0, <3>1, GotoTypes DEF CallerLabels, RemoteLabels
  <2>6. TypeOK' BY Zenon, <1>0, <2>3, <2>4, <2>5 DEF TypeOK
  <2>7. LocalsOf(c)' BY Zenon, <1>0, <2>1, <2>4, <2>5 DEF LocalsOf
  <2> QED BY Zenon, <2>4, <2>5, <2>6, <2>7, TypeOnly DEF OnlyBy
<1>5. CASE SendIpi(c)
  <2>1. n[c] \in Cpus /\ call[c] \in 1 .. used[c] /\ used[c] \in 0 .. MaxCalls /\ MaxCalls \in Nat
    BY Zenon, <1>0, <1>5, CpuCallAssumption DEF SendIpi, TypeOK, RemoteLabels, LocalsOf
  <2>2. UNCHANGED <<sys, online, q, wait, hst, hnd, loop, todo, n, mask, ran, skipped>>
    BY Zenon, <1>0, <1>5 DEF SendIpi, hvars
  <2>3. /\ pc' \in [Cpus -> CallerLabels]
        /\ ipi' \in [Cpus -> BOOLEAN] /\ pc'[c] = loop[c] /\ loop[c] \in {"loop1", "loop2"}
        /\ \A d \in Cpus \ {c} : pc'[d] = pc[d]
    BY Zenon, <1>0, <1>5, <2>1 DEF TypeOK, SendIpi, Goto, CallerLabels
  <2>4. PICK b \in BOOLEAN : NextCall(c, b) BY Zenon, <1>5 DEF SendIpi
  <2>5. /\ used' \in [Cpus -> 0 .. MaxCalls] /\ call' \in [Cpus -> (1 .. MaxCalls) \cup {None}]
        /\ call'[c] # None => call'[c] \in 1 .. used'[c]
        /\ \A d \in Cpus \ {c} : used'[d] = used[d] /\ call'[d] = call[d]
    <3>1. CASE UNCHANGED <<used, call>> BY Zenon, <1>0, <2>1, <3>1 DEF TypeOK
    <3>2. CASE call' = [call EXCEPT ![c] = None] /\ UNCHANGED used BY Zenon, <1>0, <3>2 DEF TypeOK
    <3>3. CASE /\ used[c] < MaxCalls /\ used' = [used EXCEPT ![c] = @ + 1]
               /\ call' = [call EXCEPT ![c] = used[c] + 1]
      <4>1. used[c] + 1 \in 0 .. MaxCalls /\ used[c] + 1 \in 1 .. MaxCalls /\ used[c] + 1 \in 1 .. used[c] + 1
        BY <2>1, <3>3
      <4> QED BY Zenon, <1>0, <3>3, <4>1 DEF TypeOK
    <3> QED BY Zenon, <2>4, <3>1, <3>2, <3>3 DEF NextCall
  <2>6. TypeOK' BY Zenon, <1>0, <2>2, <2>3, <2>5 DEF TypeOK
  <2>7. LocalsOf(c)' BY Zenon, <1>0, <2>2, <2>3, <2>5 DEF LocalsOf, RemoteLabels
  <2> QED BY Zenon, <2>2, <2>3, <2>5, <2>6, <2>7, TypeOnly DEF OnlyBy
<1> QED BY Zenon, <1>1, <1>2, <1>3, <1>4, <1>5 DEF Caller

\* So do the interrupt handler and the way off- and online, and the start of a call.
LEMMA HandlerTypes == ASSUME TypeInv, NEW c \in Cpus, Handler(c) \/ Enter(c) PROVE TypeInv'
<1>0. TypeOK /\ LocalsOf(c) /\ UNCHANGED sys BY Zenon DEF TypeInv, Handler, Enter
<1>1. CASE Start(c)
  <2>1. PICK m \in sys.masks[c] : mask' = [mask EXCEPT ![c] = m] /\ todo' = [todo EXCEPT ![c] = m]
    BY Zenon, <1>1 DEF Start
  <2>2. m \in SUBSET Cpus /\ 1 \in 1 .. MaxCalls /\ 1 \in 0 .. MaxCalls /\ 1 \in 1 .. 1
    BY <1>0, CpuCallAssumption DEF TypeOK
  <2>3. UNCHANGED <<sys, online, ipi, q, wait, hst, hnd, loop, n, ran, skipped>>
    BY Zenon, <1>0, <1>1 DEF Start, hvars
  <2>4. /\ pc' \in [Cpus -> CallerLabels]
        /\ mask' \in [Cpus -> SUBSET Cpus] /\ todo' \in [Cpus -> SUBSET Cpus]
        /\ used' \in [Cpus -> 0 .. MaxCalls] /\ call' \in [Cpus -> (1 .. MaxCalls) \cup {None}]
        /\ \A d \in Cpus \ {c} : pc'[d] = pc[d] /\ used'[d] = used[d] /\ call'[d] = call[d]
        /\ pc'[c] = "loop1" /\ call'[c] = 1 /\ used'[c] = 1
    BY <1>0, <1>1, <2>1, <2>2 DEF TypeOK, Start, Goto, CallerLabels
  <2>5. TypeOK' BY Zenon, <1>0, <2>3, <2>4 DEF TypeOK
  <2>6. LocalsOf(c)' BY Zenon, <1>0, <2>2, <2>3, <2>4 DEF LocalsOf, RemoteLabels
  <2> QED BY Zenon, <2>3, <2>4, <2>5, <2>6, TypeOnly DEF OnlyBy
<1>2. CASE ~Start(c)
  <2>1. /\ TakeIpi(c) \/ TakeFirst(c) \/ Run(c) \/ RunDone(c) \/ HandlerEnd(c) \/ TakeOffline(c) \/ TakeOnline(c)
        /\ UNCHANGED <<sys, pc, loop, todo, n, call, used, mask, skipped>>
    BY Zenon, <1>0, <1>2 DEF Handler, Enter, TakeIpi, TakeFirst, Run, RunDone, HandlerEnd, TakeOffline, TakeOnline, cvars
  <2>2. /\ hst' \in [Cpus -> {"none", "take", "run", "done", "off"}]
        /\ ipi' \in [Cpus -> BOOLEAN] /\ online' \in [Cpus -> BOOLEAN]
        /\ \A d \in Cpus \ {c} : hst'[d] = hst[d]
    <3>1. PICK l \in {"none", "take", "run", "done", "off"} : HGoto(c, l)
      BY Zenon, <2>1 DEF TakeIpi, TakeFirst, Run, RunDone, HandlerEnd, TakeOffline, TakeOnline
    <3>2. ipi' \in [Cpus -> BOOLEAN]
      BY Zenon, <1>0, <2>1 DEF TypeOK, TakeIpi, TakeFirst, Run, RunDone, HandlerEnd, TakeOffline, TakeOnline
    <3>3. online' \in [Cpus -> BOOLEAN]
      BY Zenon, <1>0, <2>1 DEF TypeOK, TakeIpi, TakeFirst, Run, RunDone, HandlerEnd, TakeOffline, TakeOnline
    <3> QED BY Zenon, <1>0, <3>1, <3>2, <3>3 DEF TypeOK, HGoto
  <2>3. CASE TakeFirst(c)
    <3>1. Head(q[c]) \in Calls /\ Tail(q[c]) \in Seq(Calls) BY <1>0, <2>3, TailList DEF TakeFirst, TypeOK
    <3>2. /\ q' \in [Cpus -> Seq(Calls)] /\ hnd' \in [Cpus -> Calls \cup {None}] /\ hst'[c] = "run"
          /\ hnd'[c] \in Calls /\ \A d \in Cpus \ {c} : hnd'[d] = hnd[d]
      BY Zenon, <1>0, <2>3, <3>1 DEF TypeOK, TakeFirst, HGoto
    <3>3. UNCHANGED <<wait, ran>> BY Zenon, <2>3 DEF TakeFirst
    <3>4. TypeOK' BY Zenon, <1>0, <2>1, <2>2, <3>2, <3>3 DEF TypeOK
    <3>5. LocalsOf(c)' BY Zenon, <1>0, <2>1, <3>2 DEF LocalsOf
    <3> QED BY Zenon, <2>1, <2>2, <3>2, <3>4, <3>5, TypeOnly DEF OnlyBy
  <2>4. CASE ~TakeFirst(c)
    <3>1. UNCHANGED q
      BY Zenon, <2>1, <2>4 DEF TakeIpi, Run, RunDone, HandlerEnd, TakeOffline, TakeOnline
    <3>2. hst[c] \in {"run", "done"} => hnd[c] \in Calls /\ hnd[c][1] \in Cpus
      BY Zenon, <1>0, CallFacts DEF LocalsOf
    <3>3. /\ ran' \in [Cpus -> SUBSET Cpus] /\ wait' \in [Calls -> BOOLEAN]
          /\ hnd' \in [Cpus -> Calls \cup {None}] /\ \A d \in Cpus \ {c} : hnd'[d] = hnd[d]
          /\ IF hst'[c] \in {"run", "done"} THEN hnd'[c] \in Calls ELSE hnd'[c] = None
      <4>1. CASE Run(c) BY <1>0, <3>2, <4>1 DEF TypeOK, Run, HGoto
      <4>2. CASE RunDone(c) BY Zenon, <1>0, <3>2, <4>2 DEF TypeOK, RunDone, HGoto
      <4>3. CASE ~Run(c) /\ ~RunDone(c)
        <5>1. UNCHANGED <<ran, wait, hnd>> BY Zenon, <2>1, <2>4, <4>3 DEF TakeIpi, HandlerEnd, TakeOffline, TakeOnline
        <5>2. hst[c] \notin {"run", "done"} /\ hst'[c] \notin {"run", "done"}
          BY <1>0, <2>1, <2>4, <4>3 DEF TypeOK, TakeIpi, HandlerEnd, TakeOffline, TakeOnline, HGoto, Free, Interruptible
        <5> QED BY Zenon, <1>0, <5>1, <5>2 DEF TypeOK, LocalsOf
      <4> QED BY Zenon, <4>1, <4>2, <4>3
    <3>4. TypeOK' BY Zenon, <1>0, <2>1, <2>2, <3>1, <3>3 DEF TypeOK
    <3>5. LocalsOf(c)' BY Zenon, <1>0, <2>1, <3>3 DEF LocalsOf
    <3> QED BY Zenon, <2>1, <2>2, <3>3, <3>4, <3>5, TypeOnly DEF OnlyBy
  <2> QED BY Zenon, <2>3, <2>4
<1> QED BY Zenon, <1>1, <1>2

\* Every step does.
LEMMA TypeStep == TypeInv /\ [Next]_vars => TypeInv'
<1>1. ASSUME TypeInv, UNCHANGED vars PROVE TypeInv'
  BY Zenon, <1>1 DEF vars, hvars, cvars, TypeInv, TypeOK, LocalsOf
<1> QED BY Zenon, <1>1, CallerTypes, HandlerTypes DEF Next

\* For any number of CPUs and Cpu_calls, with and without `async', the state of the
\* cross-CPU calls stays well typed.
THEOREM TypeCorrect == Spec => []TypeOK
<1>1. TypeInv => TypeOK BY Zenon DEF TypeInv
<1> QED BY <1>1, TypeInit, TypeStep, PTL DEF Spec

(***************************************************************************)
(* Where the Cpu_calls are.                                                *)
(***************************************************************************)
\* Cpu_call r is in the queue of CPU d, or d executes it.
At(d, r) == r \in Range(q[d]) \/ hnd[d] = r

\* A Cpu_call is in one place at a time.
QueueInv == \A d \in Cpus : IsInjective(q[d]) /\ hnd[d] \notin Range(q[d])
OnePlace == \A d, e \in Cpus, r \in Calls : At(d, r) /\ At(e, r) => d = e

\* It is not done while it is there, and when it is done, its function has run.
WaitInv == \A d \in Cpus, r \in Calls : At(d, r) => wait[r]
RanInv == \A d \in Cpus : hst[d] = "done" => d \in ran[hnd[d][1]]

\* Caller c has still to call d, or the call is under way, or it is done with d.
Served(c, d) ==
  \/ d \in ran[c] \cup skipped[c] \cup todo[c]
  \/ pc[c] = "enq" /\ n[c] = d
  \/ \E i \in 1 .. MaxCalls : At(d, <<c, i>>)

\* Only Cpu_calls that were handed out are under way, none of them before the caller
\* has started or when it has returned; the next one to use is not; and no CPU of
\* the mask is forgotten.
CallerOf(c) ==
  /\ \A i \in 1 .. MaxCalls :
       /\ wait[<<c, i>>] => /\ i \in 1 .. used[c] /\ pc[c] \notin {"user", "returned"}
                            /\ ~(pc[c] = "loop1" /\ call[c] = i)
       /\ pc[c] = "enq" /\ call[c] = i => wait[<<c, i>>] /\ \A d \in Cpus : ~At(d, <<c, i>>)
  /\ pc[c] = "returned" => todo[c] = {}
  /\ \A d \in mask[c] : Served(c, d)

CallInv == QueueInv /\ OnePlace /\ WaitInv /\ RanInv /\ \A c \in Cpus : CallerOf(c)

LEMMA CallInit == Init => CallInv
<1> SUFFICES ASSUME Init PROVE CallInv OBVIOUS
<1>1. ASSUME NEW d \in Cpus PROVE q[d] = <<>> /\ hnd[d] = None /\ hst[d] = "none" /\ mask[d] = {}
  BY Zenon DEF Init
<1>2. Range(<<>>) = {} /\ IsInjective(<<>>) BY DEF Range, IsInjective
<1>3. \A d \in Cpus, r \in Calls : ~At(d, r) BY Zenon, <1>1, <1>2, CallFacts DEF At
<1>4. \A c \in Cpus, i \in 1 .. MaxCalls : wait[<<c, i>>] = FALSE BY Zenon, CallFacts DEF Init
<1>5. ASSUME NEW c \in Cpus PROVE CallerOf(c)
  <2>1. pc[c] = "user" BY Zenon DEF Init
  <2> QED BY Zenon, <1>1, <1>4, <2>1 DEF CallerOf
<1>6. QueueInv BY Zenon, <1>1, <1>2 DEF QueueInv
<1> QED BY Zenon, <1>1, <1>3, <1>5, <1>6 DEF CallInv, OnePlace, WaitInv, RanInv

(***************************************************************************)
(* Steps that leave a caller alone.                                        *)
(***************************************************************************)
\* The step leaves caller d alone: it starts none of the calls of d, and ends one only
\* when the function has run or the CPU is offline.
Kept(d) ==
  /\ pc'[d] = pc[d] /\ used'[d] = used[d] /\ call'[d] = call[d] /\ todo'[d] = todo[d]
  /\ mask'[d] = mask[d] /\ n'[d] = n[d]
  /\ ran[d] \subseteq ran'[d] /\ skipped[d] \subseteq skipped'[d]
  /\ \A i \in 1 .. MaxCalls :
       /\ wait'[<<d, i>>] => wait[<<d, i>>]
       /\ wait[<<d, i>>] => wait'[<<d, i>>] \/ \E e \in Cpus : At(e, <<d, i>>)
       /\ \A e \in Cpus : /\ At(e, <<d, i>>)' => At(e, <<d, i>>)
                          /\ At(e, <<d, i>>) => At(e, <<d, i>>)' \/ e \in ran'[d] \cup skipped'[d]

LEMMA KeptCaller == ASSUME TypeInv, NEW d \in Cpus, CallerOf(d), Kept(d) PROVE CallerOf(d)'
<1>1. mask[d] \subseteq Cpus BY Zenon DEF TypeInv, TypeOK
<1>2. ASSUME NEW e \in mask[d] PROVE Served(d, e)'
  <2>1. Served(d, e) /\ e \in Cpus BY Zenon, <1>1 DEF CallerOf
  <2> QED BY Zenon, <2>1 DEF Served, Kept
<1>3. \A e \in mask'[d] : Served(d, e)' BY Zenon, <1>2 DEF Kept
<1>4. ASSUME NEW i \in 1 .. MaxCalls
      PROVE  /\ wait'[<<d, i>>] => /\ i \in 1 .. used'[d] /\ pc'[d] \notin {"user", "returned"}
                                   /\ ~(pc'[d] = "loop1" /\ call'[d] = i)
             /\ pc'[d] = "enq" /\ call'[d] = i => wait'[<<d, i>>] /\ \A e \in Cpus : ~At(e, <<d, i>>)'
  BY Zenon DEF CallerOf, Kept
<1> QED BY Zenon, <1>3, <1>4 DEF CallerOf, Kept

\* Nothing moves, no Cpu_call starts or ends.
LEMMA SamePlaces ==
  ASSUME CallInv, UNCHANGED <<q, hnd, wait, hst>>,
         \A d \in Cpus : hst[d] = "done" => ran[hnd[d][1]] \subseteq ran'[hnd[d][1]]
  PROVE  /\ QueueInv' /\ OnePlace' /\ WaitInv' /\ RanInv'
         /\ \A d \in Cpus, r \in Calls : At(d, r)' <=> At(d, r)
<1>1. \A d \in Cpus, r \in Calls : At(d, r)' <=> At(d, r) BY Zenon DEF At
<1>2. QueueInv' BY Zenon DEF CallInv, QueueInv
<1>3. OnePlace' /\ WaitInv' BY Zenon, <1>1 DEF CallInv, OnePlace, WaitInv
<1>4. RanInv' BY Zenon DEF CallInv, RanInv
<1> QED BY Zenon, <1>1, <1>2, <1>3, <1>4

\* The variables of the callers other than c
OthersKept(c) ==
  \A d \in Cpus \ {c} :
    /\ pc'[d] = pc[d] /\ used'[d] = used[d] /\ call'[d] = call[d] /\ todo'[d] = todo[d]
    /\ mask'[d] = mask[d] /\ n'[d] = n[d] /\ ran'[d] = ran[d] /\ skipped'[d] = skipped[d]

\* A step of caller c itself in which nothing moves
LEMMA OwnStep ==
  ASSUME TypeInv, NEW c \in Cpus, CallerOf(c), UNCHANGED <<wait, ran, skipped>>,
         \A d \in Cpus, r \in Calls : At(d, r)' <=> At(d, r),
         mask'[c] = mask[c], todo'[c] = todo[c], pc[c] # "enq", pc'[c] # "enq",
         pc'[c] = "returned" => todo[c] = {},
         \A i \in 1 .. MaxCalls : wait[<<c, i>>] =>
           i \in 1 .. used'[c] /\ pc'[c] \notin {"user", "returned"} /\ ~(pc'[c] = "loop1" /\ call'[c] = i)
  PROVE  CallerOf(c)'
<1>1. mask[c] \subseteq Cpus BY Zenon DEF TypeInv, TypeOK
<1>2. ASSUME NEW d \in mask[c] PROVE Served(c, d)'
  <2>1. Served(c, d) /\ d \in Cpus BY Zenon, <1>1 DEF CallerOf
  <2> QED BY Zenon, <2>1, CallFacts DEF Served
<1> QED BY Zenon, <1>2 DEF CallerOf

\* Loops, tests and the start
LEMMA LocalSteps ==
  ASSUME TypeInv, CallInv, ReusableIsDone, ~Async, NEW c \in Cpus,
         \/ Start(c) \/ Loop1End(c) \/ WaitAll(c) \/ TestOnline(c) \/ AssertDone(c) \/ SendIpi(c)
  PROVE  CallInv'
<1>0. TypeOK /\ LocalsOf(c) /\ CallerOf(c) BY Zenon DEF TypeInv, CallInv
<1>1. UNCHANGED <<q, hnd, wait, hst, ran, skipped>>
  BY Zenon DEF Start, Loop1End, WaitAll, TestOnline, AssertDone, SendIpi, hvars
<1>2. /\ QueueInv' /\ OnePlace' /\ WaitInv' /\ RanInv'
      /\ \A d \in Cpus, r \in Calls : At(d, r)' <=> At(d, r)
  BY Zenon, <1>1, SamePlaces
<1>3. /\ \A d \in Cpus \ {c} : pc'[d] = pc[d]
      /\ \E l \in CallerLabels : pc'[c] = l /\ Goto(c, l)
  <2>1. loop[c] \in {"loop1", "loop2"} BY Zenon, <1>0 DEF TypeOK
  <2>2. PICK l \in CallerLabels : Goto(c, l)
    BY Zenon, <2>1 DEF Start, Loop1End, WaitAll, TestOnline, AssertDone, SendIpi, CallerLabels, RemoteLabels
  <2> QED BY Zenon, <1>0, <2>2, GotoTypes
<1>4. OthersKept(c)
  <2>1. CASE Start(c)
    <3>1. PICK m : mask' = [mask EXCEPT ![c] = m] /\ todo' = [todo EXCEPT ![c] = m]
      BY Zenon, <2>1 DEF Start
    <3>2. \A d \in Cpus \ {c} : mask'[d] = mask[d] /\ todo'[d] = todo[d] BY Zenon, <1>0, <3>1 DEF TypeOK
    <3>3. \A d \in Cpus \ {c} : call'[d] = call[d] /\ used'[d] = used[d]
      <4>1. call' = [call EXCEPT ![c] = 1] /\ used' = [used EXCEPT ![c] = 1] BY Zenon, <2>1 DEF Start
      <4> QED BY Zenon, <1>0, <4>1 DEF TypeOK
    <3> QED BY Zenon, <1>1, <1>3, <2>1, <3>2, <3>3 DEF Start, OthersKept
  <2>2. CASE SendIpi(c)
    <3>1. PICK b \in BOOLEAN : NextCall(c, b) BY Zenon, <2>2 DEF SendIpi
    <3>2. \A d \in Cpus \ {c} : used'[d] = used[d] /\ call'[d] = call[d] BY <1>0, <3>1 DEF NextCall, TypeOK
    <3> QED BY Zenon, <1>1, <1>3, <2>2, <3>2 DEF SendIpi, OthersKept
  <2>3. CASE Loop1End(c) \/ WaitAll(c) \/ TestOnline(c) \/ AssertDone(c)
    BY Zenon, <1>1, <1>3, <2>3 DEF Loop1End, WaitAll, TestOnline, AssertDone, OthersKept
  <2> QED BY Zenon, <2>1, <2>2, <2>3
<1>5. ASSUME NEW d \in Cpus \ {c} PROVE CallerOf(d)'
  <2>1. Kept(d) BY Zenon, <1>1, <1>2, <1>4, CallFacts DEF Kept, OthersKept
  <2> QED BY Zenon, <2>1, KeptCaller DEF CallInv
<1>6. \A i \in 1 .. MaxCalls : wait[<<c, i>>] =>
        i \in 1 .. used[c] /\ pc[c] \notin {"user", "returned"} /\ ~(pc[c] = "loop1" /\ call[c] = i)
  BY Zenon, <1>0 DEF CallerOf
<1>7. CASE Start(c)
  <2>1. pc[c] = "user" /\ pc'[c] = "loop1" /\ mask'[c] = todo'[c] BY <1>0, <1>7 DEF Start, Goto, TypeOK
  <2>2. \A i \in 1 .. MaxCalls : ~wait[<<c, i>>] BY Zenon, <1>6, <2>1
  <2>3. CallerOf(c)' BY Zenon, <1>1, <2>1, <2>2 DEF CallerOf, Served
  <2> QED BY Zenon, <1>2, <1>5, <2>3 DEF CallInv
<1>8. CASE Loop1End(c) \/ TestOnline(c)
  <2>1. /\ pc[c] \in {"loop1", "test_online"} /\ pc'[c] \in {"loop2", "test_queued", "dequeue"}
        /\ UNCHANGED <<mask, todo, used>>
    BY <1>0, <1>8 DEF Loop1End, TestOnline, Goto, TypeOK
  <2>2. CallerOf(c)' BY Zenon, <1>0, <1>1, <1>2, <1>6, <2>1, OwnStep
  <2> QED BY Zenon, <1>2, <1>5, <2>2 DEF CallInv
<1>9. CASE WaitAll(c)
  <2>1. /\ pc[c] = "loop2" /\ pc'[c] = "returned" /\ todo[c] = {} /\ UNCHANGED <<mask, todo>>
        /\ \A i \in 1 .. used[c] : ~wait[<<c, i>>]
    BY Zenon, <1>0, <1>9 DEF WaitAll, Goto, TypeOK, is_done
  <2>2. \A i \in 1 .. MaxCalls : ~wait[<<c, i>>] BY Zenon, <1>6, <2>1
  <2>3. CallerOf(c)' BY Zenon, <1>0, <1>1, <1>2, <2>1, <2>2, OwnStep
  <2> QED BY Zenon, <1>2, <1>5, <2>3 DEF CallInv
<1>10. CASE AssertDone(c)
  <2>1. /\ pc[c] = "assert_done" /\ pc'[c] \in {"loop1", "loop2"} /\ UNCHANGED <<mask, todo, used, call>>
    BY Zenon, <1>0, <1>10 DEF AssertDone, Goto, TypeOK
  <2>2. ~wait[<<c, call[c]>>] BY Zenon, <2>1 DEF ReusableIsDone, is_done
  <2>3. \A i \in 1 .. MaxCalls : wait[<<c, i>>] => call'[c] # i BY Zenon, <2>1, <2>2
  <2>4. CallerOf(c)' BY Zenon, <1>0, <1>1, <1>2, <1>6, <2>1, <2>3, OwnStep
  <2> QED BY Zenon, <1>2, <1>5, <2>4 DEF CallInv
<1>11. CASE SendIpi(c)
  <2>1. /\ pc[c] = "test_queued" /\ pc'[c] = loop[c] /\ loop[c] \in {"loop1", "loop2"}
        /\ UNCHANGED <<mask, todo>>
    BY Zenon, <1>0, <1>11 DEF SendIpi, Goto, TypeOK
  <2>2. PICK b \in BOOLEAN : NextCall(c, b) /\ (~b => ~wait[<<c, call[c]>>])
    BY Zenon, <1>11 DEF SendIpi, is_done
  <2>3. /\ used[c] \in 0 .. MaxCalls /\ MaxCalls \in Nat /\ None \notin 1 .. MaxCalls
        /\ used \in [Cpus -> 0 .. MaxCalls] /\ call \in [Cpus -> (1 .. MaxCalls) \cup {None}]
    BY Zenon, <1>0, CpuCallAssumption DEF TypeOK
  <2>4. ASSUME NEW i \in 1 .. MaxCalls, wait[<<c, i>>]
        PROVE  i \in 1 .. used'[c] /\ ~(loop[c] = "loop1" /\ call'[c] = i)
    <3>1. i \in 1 .. used[c] BY Zenon, <1>6, <2>4
    <3>2. CASE UNCHANGED <<used, call>> /\ (loop[c] = "loop2" \/ ~b)
      BY Zenon, <2>1, <2>2, <2>4, <3>1, <3>2
    <3>3. CASE call' = [call EXCEPT ![c] = None] /\ UNCHANGED used BY Zenon, <2>3, <3>1, <3>3
    <3>4. CASE /\ used[c] < MaxCalls /\ used' = [used EXCEPT ![c] = @ + 1]
               /\ call' = [call EXCEPT ![c] = used[c] + 1]
      BY <2>3, <3>1, <3>4
    <3> QED BY Zenon, <2>1, <2>2, <3>2, <3>3, <3>4 DEF NextCall
  <2>5. CallerOf(c)' BY Zenon, <1>0, <1>1, <1>2, <1>6, <2>1, <2>4, OwnStep
  <2> QED BY Zenon, <1>2, <1>5, <2>5 DEF CallInv
<1> QED BY Zenon, <1>7, <1>8, <1>9, <1>10, <1>11

\* The next remote_call(), up to the queue
LEMMA CallSteps ==
  ASSUME TypeInv, CallInv, ~Async, NEW c \in Cpus, NEW i \in 1 .. used[c], NEW l \in {"loop1", "loop2"},
         NEW a \in todo[c], pc[c] \in {"loop1", "loop2"}, l = pc[c], ~wait[<<c, i>>],
         CallSelf(c, a, l) \/ CallOther(c, a, <<c, i>>),
         todo' = [todo EXCEPT ![c] = @ \ {a}], call' = [call EXCEPT ![c] = i],
         l = "loop1" => call[c] = i,
         UNCHANGED <<q, hvars, used, mask>>
  PROVE  CallInv'
<1>0. TypeOK /\ LocalsOf(c) /\ CallerOf(c) /\ OnePlace /\ WaitInv BY Zenon DEF TypeInv, CallInv
<1>1. i \in 1 .. MaxCalls /\ <<c, i>> \in Calls
  <2>1. i \in 1 .. MaxCalls BY <1>0, CpuCallAssumption DEF TypeOK
  <2> QED BY Zenon, <2>1, CallFacts
<1>2. /\ QueueInv' /\ OnePlace' /\ \A d \in Cpus, r \in Calls : At(d, r)' <=> At(d, r)
  <2>1. \A d \in Cpus, r \in Calls : At(d, r)' <=> At(d, r) BY Zenon DEF At, hvars
  <2>2. QueueInv' BY Zenon DEF CallInv, QueueInv, hvars
  <2> QED BY Zenon, <1>0, <2>1, <2>2 DEF OnePlace
<1>3. \A d \in Cpus : ~At(d, <<c, i>>) BY Zenon, <1>0, <1>1 DEF WaitInv
<1>4. /\ \A d \in Cpus : ran[d] \subseteq ran'[d] /\ skipped'[d] = skipped[d]
      /\ \A d \in Cpus \ {c} : pc'[d] = pc[d] /\ n'[d] = n[d]
      /\ \A r \in Calls : wait[r] => wait'[r]
      /\ \A r \in Calls \ {<<c, i>>} : wait'[r] => wait[r]
      /\ \/ pc'[c] = pc[c] /\ a \in ran'[c] /\ wait' = wait
         \/ pc'[c] = "enq" /\ n'[c] = a /\ wait'[<<c, i>>]
  <2>1. CASE CallSelf(c, a, l) BY Zenon, <1>0, <2>1 DEF CallSelf, Goto, TypeOK
  <2>2. CASE CallOther(c, a, <<c, i>>)
    <3>1. /\ n' = [n EXCEPT ![c] = a] /\ wait' = [wait EXCEPT ![<<c, i>>] = TRUE]
          /\ pc' = [pc EXCEPT ![c] = "enq"] /\ UNCHANGED <<ran, skipped>>
      BY Zenon, <2>2 DEF CallOther, Goto
    <3> QED BY <1>0, <1>1, <3>1 DEF TypeOK
  <2> QED BY Zenon, <2>1, <2>2
<1>5. /\ todo'[c] = todo[c] \ {a} /\ call'[c] = i
      /\ \A d \in Cpus \ {c} : todo'[d] = todo[d] /\ call'[d] = call[d]
  BY Zenon, <1>0 DEF TypeOK
<1>6. WaitInv' BY Zenon, <1>0, <1>2, <1>4 DEF WaitInv
<1>7. RanInv'
  <2> SUFFICES ASSUME NEW d \in Cpus, hst[d] = "done" PROVE d \in ran'[hnd[d][1]]
    BY Zenon DEF RanInv, hvars
  <2>1. hnd[d] \in Calls BY Zenon DEF TypeInv, LocalsOf
  <2>2. hnd[d][1] \in Cpus /\ d \in ran[hnd[d][1]] BY Zenon, <2>1, CallFacts DEF CallInv, RanInv
  <2> QED BY Zenon, <1>4, <2>2
<1>8. ASSUME NEW d \in Cpus \ {c} PROVE CallerOf(d)'
  <2>1. \A j \in 1 .. MaxCalls : <<d, j>> \in Calls \ {<<c, i>>} BY Zenon, CallFacts
  <2>2. Kept(d) BY Zenon, <1>2, <1>4, <1>5, <2>1 DEF Kept
  <2> QED BY Zenon, <2>2, KeptCaller DEF CallInv
<1>9. CallerOf(c)'
  <2>1. mask[c] \subseteq Cpus BY Zenon, <1>0 DEF TypeOK
  <2>2. ASSUME NEW d \in mask[c] PROVE Served(c, d)'
    <3>1. Served(c, d) /\ d \in Cpus /\ pc[c] # "enq" BY Zenon, <1>0, <2>1 DEF CallerOf
    <3> QED BY Zenon, <1>2, <1>4, <1>5, <3>1, CallFacts DEF Served
  <2>3. ASSUME NEW j \in 1 .. MaxCalls, wait'[<<c, j>>]
        PROVE  j \in 1 .. used[c] /\ pc'[c] \notin {"user", "returned"} /\ ~(pc'[c] = "loop1" /\ i = j)
    <3>1. CASE j = i BY Zenon, <1>4, <2>3, <3>1
    <3>2. CASE j # i
      <4>1. <<c, j>> \in Calls \ {<<c, i>>} BY Zenon, <3>2, CallFacts
      <4>2. j \in 1 .. used[c] BY Zenon, <1>0, <1>4, <2>3, <4>1 DEF CallerOf
      <4> QED BY Zenon, <1>4, <3>2, <4>2
    <3> QED BY Zenon, <3>1, <3>2
  <2>4. pc'[c] # "returned" /\ (pc'[c] = "enq" => wait'[<<c, i>>]) BY Zenon, <1>4
  <2> QED BY Zenon, <1>1, <1>2, <1>3, <1>5, <2>2, <2>3, <2>4 DEF CallerOf
<1> QED BY Zenon, <1>2, <1>6, <1>7, <1>8, <1>9 DEF CallInv

\* A Cpu_call is put into the queue of the CPU to call, or taken back
LEMMA RemoteFacts ==
  ASSUME TypeInv, CallInv, NEW c \in Cpus, pc[c] \in RemoteLabels
  PROVE  /\ n[c] \in Cpus /\ call[c] \in 1 .. MaxCalls /\ <<c, call[c]>> \in Calls /\ pc[c] # "user"
         /\ q[n[c]] \in Seq(Calls) /\ IsInjective(q[n[c]]) /\ TypeOK /\ CallerOf(c)
<1>1. used[c] \in 0 .. MaxCalls /\ MaxCalls \in Nat BY Zenon, CpuCallAssumption DEF TypeInv, TypeOK
<1>2. n[c] \in Cpus /\ call[c] \in 1 .. MaxCalls BY <1>1 DEF TypeInv, LocalsOf
<1> QED BY Zenon, <1>2, CallFacts DEF TypeInv, TypeOK, CallInv, QueueInv, RemoteLabels

\* enqueue()
LEMMA EnqueueStep == ASSUME TypeInv, CallInv, NEW c \in Cpus, Enqueue(c) PROVE CallInv'
<1> DEFINE r == <<c, call[c]>>
<1>0. pc[c] = "enq" /\ pc[c] \in RemoteLabels BY Zenon DEF Enqueue, RemoteLabels
<1>1. /\ n[c] \in Cpus /\ call[c] \in 1 .. MaxCalls /\ r \in Calls
      /\ q[n[c]] \in Seq(Calls) /\ IsInjective(q[n[c]]) /\ TypeOK /\ CallerOf(c)
  BY Zenon, <1>0, RemoteFacts
<1>2. wait[r] /\ \A d \in Cpus : ~At(d, r) BY Zenon, <1>0, <1>1 DEF CallerOf
<1>3. /\ UNCHANGED <<hst, hnd, wait, ran, skipped, todo, n, call, used, mask>>
      /\ pc'[c] = "test_online" /\ \A d \in Cpus \ {c} : pc'[d] = pc[d]
      /\ q'[n[c]] = Append(q[n[c]], r) /\ \A d \in Cpus \ {n[c]} : q'[d] = q[d]
  BY Zenon, <1>1 DEF Enqueue, Goto, hvars, TypeOK
<1> HIDE DEF r
<1>4. Range(q'[n[c]]) = Range(q[n[c]]) \cup {r} /\ IsInjective(q'[n[c]])
  <2>1. r \notin Range(q[n[c]]) BY Zenon, <1>1, <1>2 DEF At
  <2> DEFINE s == q[n[c]]
  <2>2. Range(Append(s, r)) = Range(s) \cup {r} /\ IsInjective(Append(s, r))
    <3> HIDE DEF s
    <3>1. s \in Seq(Calls) /\ IsInjective(s) /\ r \notin Range(s) /\ r \in Calls BY Zenon, <1>1, <2>1 DEF s
    <3> QED BY <3>1, AppendList
  <2> QED BY Zenon, <1>3, <2>2
<1>5. \A d \in Cpus, x \in Calls : At(d, x)' <=> At(d, x) \/ (d = n[c] /\ x = r)
  BY Zenon, <1>1, <1>3, <1>4 DEF At
<1>6. QueueInv'
  <2> SUFFICES ASSUME NEW d \in Cpus PROVE IsInjective(q'[d]) /\ hnd[d] \notin Range(q'[d])
    BY Zenon, <1>3 DEF QueueInv
  <2>1. CASE d = n[c] BY Zenon, <1>1, <1>2, <1>4, <2>1 DEF CallInv, QueueInv, At
  <2>2. CASE d # n[c] BY Zenon, <1>3, <2>2 DEF CallInv, QueueInv
  <2> QED BY Zenon, <2>1, <2>2
<1>7. OnePlace'
  <2> SUFFICES ASSUME NEW d \in Cpus, NEW e \in Cpus, NEW x \in Calls, At(d, x)', At(e, x)' PROVE d = e
    BY Zenon DEF OnePlace
  <2>1. CASE x = r BY Zenon, <1>2, <1>5, <2>1
  <2>2. CASE x # r BY Zenon, <1>5, <2>2 DEF CallInv, OnePlace
  <2> QED BY Zenon, <2>1, <2>2
<1>8. WaitInv' BY Zenon, <1>2, <1>3, <1>5 DEF CallInv, WaitInv
<1>9. RanInv' BY Zenon, <1>3 DEF CallInv, RanInv
<1>10. ASSUME NEW d \in Cpus \ {c} PROVE CallerOf(d)'
  <2>1. \A i \in 1 .. MaxCalls : <<d, i>> \in Calls /\ <<d, i>> # r BY Zenon, CallFacts DEF r
  <2>2. Kept(d) BY Zenon, <1>3, <1>5, <2>1 DEF Kept
  <2> QED BY Zenon, <2>2, KeptCaller DEF CallInv
<1>11. CallerOf(c)'
  <2>1. mask[c] \subseteq Cpus BY Zenon, <1>1 DEF TypeOK
  <2>2. ASSUME NEW d \in mask[c] PROVE Served(c, d)'
    <3>1. Served(c, d) /\ d \in Cpus BY Zenon, <1>1, <2>1 DEF CallerOf
    <3>2. CASE d = n[c]
      <4>1. PICK i \in 1 .. MaxCalls : r = <<c, i>> BY Zenon, <1>1 DEF r
      <4>2. At(d, <<c, i>>)' BY Zenon, <1>1, <1>5, <3>1, <3>2, <4>1
      <4> QED BY Zenon, <4>2 DEF Served
    <3>3. CASE d # n[c] BY Zenon, <1>3, <1>5, <3>1, <3>3, CallFacts DEF Served
    <3> QED BY Zenon, <3>2, <3>3
  <2>3. pc'[c] \notin {"enq", "user", "returned", "loop1"} BY Zenon, <1>3
  <2> QED BY Zenon, <1>1, <1>3, <2>2, <2>3 DEF CallerOf
<1> QED BY Zenon, <1>6, <1>7, <1>8, <1>9, <1>10, <1>11 DEF CallInv

\* dequeue() for a CPU that is offline
LEMMA TakeBackStep == ASSUME TypeInv, CallInv, NEW c \in Cpus, TakeBack(c) PROVE CallInv'
<1> DEFINE r == <<c, call[c]>>
<1>0. pc[c] = "dequeue" /\ pc[c] \in RemoteLabels BY Zenon DEF TakeBack, RemoteLabels
<1>1. /\ n[c] \in Cpus /\ call[c] \in 1 .. MaxCalls /\ r \in Calls
      /\ q[n[c]] \in Seq(Calls) /\ IsInjective(q[n[c]]) /\ TypeOK /\ CallerOf(c)
  BY Zenon, <1>0, RemoteFacts
<1>2. /\ UNCHANGED <<hst, hnd, ran, todo, n, call, used, mask>>
      /\ pc'[c] = "assert_done" /\ \A d \in Cpus \ {c} : pc'[d] = pc[d]
  BY Zenon, <1>1 DEF TakeBack, Goto, hvars, TypeOK
<1>3. CASE r \notin Range(q[n[c]])
  <2>1. UNCHANGED <<q, wait, skipped>> BY Zenon, <1>3 DEF TakeBack
  <2>2. /\ QueueInv' /\ OnePlace' /\ WaitInv' /\ RanInv'
        /\ \A d \in Cpus, x \in Calls : At(d, x)' <=> At(d, x)
    BY Zenon, <1>2, <2>1, SamePlaces
  <2>3. ASSUME NEW d \in Cpus \ {c} PROVE CallerOf(d)'
    <3>1. Kept(d) BY Zenon, <1>2, <2>1, <2>2, CallFacts DEF Kept
    <3> QED BY Zenon, <3>1, KeptCaller DEF CallInv
  <2>4. \A i \in 1 .. MaxCalls : wait[<<c, i>>] => i \in 1 .. used'[c] BY Zenon, <1>1, <1>2 DEF CallerOf
  <2>5. CallerOf(c)' BY Zenon, <1>0, <1>1, <1>2, <2>1, <2>2, <2>4, OwnStep
  <2> QED BY Zenon, <2>2, <2>3, <2>5 DEF CallInv
<1>4. CASE r \in Range(q[n[c]])
  <2>1. /\ q'[n[c]] = Dequeue(q[n[c]], r) /\ \A d \in Cpus \ {n[c]} : q'[d] = q[d]
        /\ wait'[r] = FALSE /\ \A x \in Calls \ {r} : wait'[x] = wait[x]
        /\ skipped'[c] = skipped[c] \cup {n[c]} /\ \A d \in Cpus \ {c} : skipped'[d] = skipped[d]
    <3>1. /\ q' = [q EXCEPT ![n[c]] = Dequeue(q[n[c]], r)]
          /\ wait' = [wait EXCEPT ![r] = FALSE]
          /\ skipped' = [skipped EXCEPT ![c] = skipped[c] \cup {n[c]}]
      BY Zenon, <1>4 DEF TakeBack
    <3> HIDE DEF r
    <3> QED BY Zenon, <1>1, <3>1 DEF TypeOK
  <2> HIDE DEF r
  <2>2. Range(q'[n[c]]) = Range(q[n[c]]) \ {r} /\ IsInjective(q'[n[c]])
    <3> DEFINE s == q[n[c]]
    <3>1. Range(Dequeue(s, r)) = Range(s) \ {r} /\ IsInjective(Dequeue(s, r))
      <4> HIDE DEF s
      <4>1. s \in Seq(Calls) /\ IsInjective(s) /\ r \in Range(s) BY Zenon, <1>1, <1>4 DEF s
      <4> QED BY Zenon, <4>1, RemoveList
    <3> QED BY Zenon, <2>1, <3>1
  <2>3. \A d \in Cpus : hnd[d] # r /\ (d # n[c] => ~At(d, r))
    BY Zenon, <1>1, <1>4 DEF CallInv, QueueInv, OnePlace, At
  <2>4. \A d \in Cpus, x \in Calls : At(d, x)' <=> At(d, x) /\ x # r
    <3> SUFFICES ASSUME NEW d \in Cpus, NEW x \in Calls PROVE At(d, x)' <=> At(d, x) /\ x # r
      OBVIOUS
    <3>1. CASE d = n[c] BY Zenon, <1>2, <2>2, <2>3, <3>1 DEF At
    <3>2. CASE d # n[c] BY Zenon, <1>2, <2>1, <2>3, <3>2 DEF At
    <3> QED BY Zenon, <3>1, <3>2
  <2>5. QueueInv'
    <3> SUFFICES ASSUME NEW d \in Cpus PROVE IsInjective(q'[d]) /\ hnd[d] \notin Range(q'[d])
      BY Zenon, <1>2 DEF QueueInv
    <3>1. CASE d = n[c] BY Zenon, <1>1, <2>2, <3>1 DEF CallInv, QueueInv
    <3>2. CASE d # n[c] BY Zenon, <2>1, <3>2 DEF CallInv, QueueInv
    <3> QED BY Zenon, <3>1, <3>2
  <2>6. OnePlace' /\ WaitInv' BY Zenon, <2>1, <2>4 DEF CallInv, OnePlace, WaitInv
  <2>7. RanInv' BY Zenon, <1>2 DEF CallInv, RanInv
  <2>8. ASSUME NEW d \in Cpus \ {c} PROVE CallerOf(d)'
    <3>1. \A i \in 1 .. MaxCalls : <<d, i>> \in Calls \ {r} BY Zenon, CallFacts DEF r
    <3>2. Kept(d) BY Zenon, <1>2, <2>1, <2>4, <3>1 DEF Kept
    <3> QED BY Zenon, <3>2, KeptCaller DEF CallInv
  <2>9. CallerOf(c)'
    <3>1. mask[c] \subseteq Cpus BY Zenon, <1>1 DEF TypeOK
    <3>2. ASSUME NEW d \in mask[c] PROVE Served(c, d)'
      <4>1. Served(c, d) /\ d \in Cpus /\ pc[c] # "enq" BY Zenon, <1>0, <1>1, <3>1 DEF CallerOf
      <4>2. CASE d = n[c] BY Zenon, <2>1, <4>2 DEF Served
      <4>3. CASE d # n[c]
        <5>1. \A i \in 1 .. MaxCalls : At(d, <<c, i>>) => At(d, <<c, i>>)'
          BY Zenon, <2>3, <2>4, <4>1, <4>3, CallFacts
        <5> QED BY Zenon, <1>2, <2>1, <4>1, <5>1 DEF Served
      <4> QED BY Zenon, <4>2, <4>3
    <3>3. \A i \in 1 .. MaxCalls : wait'[<<c, i>>] => wait[<<c, i>>] BY Zenon, <2>1, CallFacts
    <3>4. pc'[c] \notin {"enq", "user", "returned", "loop1"} BY Zenon, <1>2
    <3> QED BY Zenon, <1>1, <1>2, <3>2, <3>3, <3>4 DEF CallerOf
  <2> QED BY Zenon, <2>5, <2>6, <2>7, <2>8, <2>9 DEF CallInv
<1> QED BY Zenon, <1>3, <1>4

(***************************************************************************)
(* The CPU that is called.                                                 *)
(***************************************************************************)
\* The callers do not move.
HandlerKeeps == UNCHANGED <<pc, used, call, todo, mask, n, skipped>>

\* Entering and leaving the handler
LEMMA HandlerMoves ==
  ASSUME TypeInv, CallInv, NEW c \in Cpus,
         TakeIpi(c) \/ HandlerEnd(c) \/ TakeOffline(c) \/ TakeOnline(c)
  PROVE  CallInv'
<1>1. UNCHANGED <<q, hnd, wait, ran>> /\ HandlerKeeps
  BY Zenon DEF TakeIpi, HandlerEnd, TakeOffline, TakeOnline, cvars, HandlerKeeps
<1>2. \A d \in Cpus : hst'[d] = "done" => hst[d] = "done"
  BY DEF TakeIpi, HandlerEnd, TakeOffline, TakeOnline, HGoto, TypeInv, TypeOK
<1>3. \A d \in Cpus, r \in Calls : At(d, r)' <=> At(d, r) BY Zenon, <1>1 DEF At
<1>4. QueueInv' BY Zenon, <1>1 DEF CallInv, QueueInv
<1>5. OnePlace' /\ WaitInv' BY Zenon, <1>1, <1>3 DEF CallInv, OnePlace, WaitInv
<1>6. RanInv' BY Zenon, <1>1, <1>2 DEF CallInv, RanInv
<1>7. ASSUME NEW d \in Cpus PROVE CallerOf(d)'
  <2>1. Kept(d) BY Zenon, <1>1, <1>3, CallFacts DEF Kept, HandlerKeeps
  <2> QED BY Zenon, <2>1, KeptCaller DEF CallInv
<1> QED BY Zenon, <1>4, <1>5, <1>6, <1>7 DEF CallInv

\* The handler takes the first Cpu_call.
LEMMA TakeFirstStep == ASSUME TypeInv, CallInv, NEW c \in Cpus, TakeFirst(c) PROVE CallInv'
<1>0. TypeOK /\ LocalsOf(c) BY Zenon DEF TypeInv
<1>1. UNCHANGED <<wait, ran>> /\ HandlerKeeps BY Zenon DEF TakeFirst, cvars, HandlerKeeps
<1>2. /\ hst[c] = "take" /\ hst'[c] = "run" /\ \A d \in Cpus \ {c} : hst'[d] = hst[d]
      /\ hnd'[c] = Head(q[c]) /\ \A d \in Cpus \ {c} : hnd'[d] = hnd[d]
      /\ q'[c] = Tail(q[c]) /\ \A d \in Cpus \ {c} : q'[d] = q[d]
      /\ q[c] # <<>> /\ q[c] \in Seq(Calls)
  BY Zenon, <1>0 DEF TakeFirst, HGoto, TypeOK
<1>3. hnd[c] = None /\ None \notin Calls BY Zenon, <1>0, <1>2, CallFacts DEF LocalsOf
<1>4. /\ Range(q[c]) = {hnd'[c]} \cup Range(q'[c]) /\ hnd'[c] \notin Range(q'[c])
      /\ IsInjective(q'[c]) /\ hnd'[c] \in Calls
  <2> DEFINE s == q[c]
  <2>1. s \in Seq(Calls) /\ s # <<>> /\ IsInjective(s) BY Zenon, <1>2 DEF CallInv, QueueInv
  <2> HIDE DEF s
  <2>2. /\ Head(s) \in Calls /\ Range(s) = {Head(s)} \cup Range(Tail(s))
        /\ IsInjective(Tail(s)) /\ Head(s) \notin Range(Tail(s))
    BY Zenon, <2>1, TailList
  <2> QED BY Zenon, <1>2, <2>2 DEF s
<1>5. \A d \in Cpus, r \in Calls : At(d, r)' <=> At(d, r)
  <2> SUFFICES ASSUME NEW d \in Cpus, NEW r \in Calls PROVE At(d, r)' <=> At(d, r) OBVIOUS
  <2>1. CASE d = c BY Zenon, <1>3, <1>4, <2>1 DEF At
  <2>2. CASE d # c BY Zenon, <1>2, <2>2 DEF At
  <2> QED BY Zenon, <2>1, <2>2
<1>6. QueueInv' BY Zenon, <1>2, <1>4 DEF CallInv, QueueInv
<1>7. OnePlace' /\ WaitInv' BY Zenon, <1>1, <1>5 DEF CallInv, OnePlace, WaitInv
<1>8. RanInv'
  <2> SUFFICES ASSUME NEW d \in Cpus, hst'[d] = "done" PROVE d \in ran'[hnd'[d][1]]
    BY Zenon DEF RanInv
  <2>1. d # c BY Zenon, <1>2
  <2> QED BY Zenon, <1>1, <1>2, <2>1 DEF CallInv, RanInv
<1>9. ASSUME NEW d \in Cpus PROVE CallerOf(d)'
  <2>1. Kept(d) BY Zenon, <1>1, <1>5, CallFacts DEF Kept, HandlerKeeps
  <2> QED BY Zenon, <2>1, KeptCaller DEF CallInv
<1> QED BY Zenon, <1>6, <1>7, <1>8, <1>9 DEF CallInv

\* The handler runs the function.
LEMMA RunStep == ASSUME TypeInv, CallInv, NEW c \in Cpus, Run(c) PROVE CallInv'
<1>0. TypeOK /\ LocalsOf(c) BY Zenon DEF TypeInv
<1>1. UNCHANGED <<q, hnd, wait>> /\ HandlerKeeps BY Zenon DEF Run, cvars, HandlerKeeps
<1>2. hst[c] = "run" /\ \A d \in Cpus \ {c} : hst'[d] = hst[d] BY Zenon, <1>0 DEF Run, HGoto, TypeOK
<1>3. hnd[c] \in Calls BY Zenon, <1>0, <1>2 DEF LocalsOf
<1>4. c \in ran'[hnd[c][1]] /\ \A d \in Cpus : ran[d] \subseteq ran'[d]
  <2>1. hnd[c][1] \in Cpus BY Zenon, <1>3, CallFacts
  <2> QED BY Zenon, <1>0, <2>1 DEF Run, TypeOK
<1>5. \A d \in Cpus, r \in Calls : At(d, r)' <=> At(d, r) BY Zenon, <1>1 DEF At
<1>6. QueueInv' BY Zenon, <1>1 DEF CallInv, QueueInv
<1>7. OnePlace' /\ WaitInv' BY Zenon, <1>1, <1>5 DEF CallInv, OnePlace, WaitInv
<1>8. RanInv'
  <2> SUFFICES ASSUME NEW d \in Cpus, hst'[d] = "done" PROVE d \in ran'[hnd[d][1]]
    BY Zenon, <1>1 DEF RanInv
  <2>1. CASE d = c BY Zenon, <1>4, <2>1
  <2>2. CASE d # c
    <3>1. hst[d] = "done" /\ hnd[d] \in Calls BY Zenon, <1>2, <2>2 DEF TypeInv, LocalsOf
    <3>2. hnd[d][1] \in Cpus /\ d \in ran[hnd[d][1]] BY Zenon, <3>1, CallFacts DEF CallInv, RanInv
    <3> QED BY Zenon, <1>4, <3>2
  <2> QED BY Zenon, <2>1, <2>2
<1>9. ASSUME NEW d \in Cpus PROVE CallerOf(d)'
  <2>1. Kept(d) BY Zenon, <1>1, <1>4, <1>5, CallFacts DEF Kept, HandlerKeeps
  <2> QED BY Zenon, <2>1, KeptCaller DEF CallInv
<1> QED BY Zenon, <1>6, <1>7, <1>8, <1>9 DEF CallInv

\* The handler is done with a Cpu_call.
LEMMA RunDoneStep == ASSUME TypeInv, CallInv, NEW c \in Cpus, RunDone(c) PROVE CallInv'
<1>0. TypeOK /\ LocalsOf(c) /\ QueueInv /\ OnePlace /\ WaitInv BY Zenon DEF TypeInv, CallInv
<1>1. UNCHANGED <<q, ran>> /\ HandlerKeeps BY Zenon DEF RunDone, cvars, HandlerKeeps
<1>2. /\ hst[c] = "done" /\ hst'[c] = "take" /\ \A d \in Cpus \ {c} : hst'[d] = hst[d]
      /\ hnd'[c] = None /\ \A d \in Cpus \ {c} : hnd'[d] = hnd[d]
  BY Zenon, <1>0 DEF RunDone, HGoto, TypeOK
<1>3. hnd[c] \in Calls /\ c \in ran[hnd[c][1]] /\ None \notin Calls
  BY Zenon, <1>0, <1>2, CallFacts DEF LocalsOf, CallInv, RanInv
<1>4. wait'[hnd[c]] = FALSE /\ \A r \in Calls \ {hnd[c]} : wait'[r] = wait[r]
  BY Zenon, <1>0, <1>3 DEF RunDone, TypeOK
<1>5. \A d \in Cpus : At(d, hnd[c]) => d = c /\ hnd[c] \notin Range(q[c])
  <2>1. At(c, hnd[c]) BY Zenon DEF At
  <2> QED BY Zenon, <1>0, <1>3, <2>1 DEF OnePlace, QueueInv
<1>6. \A d \in Cpus, r \in Calls : At(d, r)' <=> At(d, r) /\ r # hnd[c]
  <2> SUFFICES ASSUME NEW d \in Cpus, NEW r \in Calls PROVE At(d, r)' <=> At(d, r) /\ r # hnd[c]
    OBVIOUS
  <2>1. CASE d = c
    <3>1. hnd[c] \notin Range(q[c]) BY Zenon, <1>0 DEF QueueInv
    <3> QED BY Zenon, <1>1, <1>2, <1>3, <2>1, <3>1 DEF At
  <2>2. CASE d # c
    <3>1. At(d, r)' <=> At(d, r) BY Zenon, <1>1, <1>2, <2>2 DEF At
    <3>2. ~At(d, hnd[c]) BY Zenon, <1>5, <2>2
    <3> QED BY Zenon, <3>1, <3>2
  <2> QED BY Zenon, <2>1, <2>2
<1>7. QueueInv'
  <2> SUFFICES ASSUME NEW d \in Cpus PROVE IsInjective(q[d]) /\ hnd'[d] \notin Range(q[d])
    BY Zenon, <1>1 DEF QueueInv
  <2>1. CASE d = c
    <3>1. Range(q[c]) \subseteq Calls
      <4>1. q[c] \in Seq(Calls) BY Zenon, <1>0 DEF TypeOK
      <4> QED BY <4>1 DEF Range
    <3> QED BY Zenon, <1>0, <1>2, <1>3, <2>1, <3>1 DEF QueueInv
  <2>2. CASE d # c BY Zenon, <1>0, <1>2, <2>2 DEF QueueInv
  <2> QED BY Zenon, <2>1, <2>2
<1>8. OnePlace' /\ WaitInv' BY Zenon, <1>0, <1>4, <1>6 DEF OnePlace, WaitInv
<1>9. RanInv'
  <2> SUFFICES ASSUME NEW d \in Cpus, hst'[d] = "done" PROVE d \in ran[hnd'[d][1]]
    BY Zenon, <1>1 DEF RanInv
  <2>1. d # c BY Zenon, <1>2
  <2> QED BY Zenon, <1>2, <2>1 DEF CallInv, RanInv
<1>10. ASSUME NEW d \in Cpus PROVE CallerOf(d)'
  <2>1. ASSUME NEW i \in 1 .. MaxCalls
        PROVE  /\ wait'[<<d, i>>] => wait[<<d, i>>]
               /\ wait[<<d, i>>] => wait'[<<d, i>>] \/ \E e \in Cpus : At(e, <<d, i>>)
               /\ \A e \in Cpus : /\ At(e, <<d, i>>)' => At(e, <<d, i>>)
                                  /\ At(e, <<d, i>>) => At(e, <<d, i>>)' \/ e \in ran'[d]
    <3>1. <<d, i>> \in Calls /\ <<d, i>>[1] = d BY Zenon, CallFacts
    <3>2. CASE <<d, i>> = hnd[c]
      <4>1. At(c, <<d, i>>) BY Zenon, <3>2 DEF At
      <4>2. c \in ran[d] BY Zenon, <1>3, <3>1, <3>2
      <4>3. \A e \in Cpus : At(e, <<d, i>>) => e \in ran'[d] BY Zenon, <1>1, <1>5, <3>2, <4>2
      <4> QED BY Zenon, <1>4, <1>6, <3>1, <3>2, <4>1, <4>3
    <3>3. CASE <<d, i>> # hnd[c] BY Zenon, <1>4, <1>6, <3>1, <3>3
    <3> QED BY Zenon, <3>2, <3>3
  <2>2. Kept(d) BY Zenon, <1>1, <2>1 DEF Kept, HandlerKeeps
  <2> QED BY Zenon, <2>2, KeptCaller DEF CallInv
<1> QED BY Zenon, <1>7, <1>8, <1>9, <1>10 DEF CallInv

\* Every step from a state in which the assertion holds preserves the invariant.
LEMMA CallStep ==
  ASSUME ~Async
  PROVE  TypeInv /\ CallInv /\ ReusableIsDone /\ [Next]_vars => CallInv'
<1> SUFFICES ASSUME TypeInv, CallInv, ReusableIsDone, [Next]_vars PROVE CallInv' OBVIOUS
<1>1. CASE UNCHANGED vars
  <2>1. /\ UNCHANGED <<q, hnd, wait, hst, ran>> /\ HandlerKeeps
    BY Zenon, <1>1 DEF vars, hvars, cvars, HandlerKeeps
  <2>2. /\ QueueInv' /\ OnePlace' /\ WaitInv' /\ RanInv'
        /\ \A d \in Cpus, r \in Calls : At(d, r)' <=> At(d, r)
    BY Zenon, <2>1, SamePlaces
  <2>3. ASSUME NEW d \in Cpus PROVE CallerOf(d)'
    <3>1. Kept(d) BY Zenon, <2>1, <2>2, CallFacts DEF Kept, HandlerKeeps
    <3> QED BY Zenon, <3>1, KeptCaller DEF CallInv
  <2> QED BY Zenon, <2>2, <2>3 DEF CallInv
<1>2. ASSUME NEW c \in Cpus, Loop1(c) PROVE CallInv'
  <2>1. /\ call[c] \in 1 .. used[c] /\ pc[c] = "loop1" /\ call' = [call EXCEPT ![c] = call[c]]
    BY Zenon, <1>2 DEF Loop1, TypeInv, TypeOK, LocalsOf
  <2>2. call[c] \in 1 .. MaxCalls BY <2>1, CpuCallAssumption DEF TypeInv, TypeOK
  <2>3. ~wait[<<c, call[c]>>] BY Zenon, <2>1, <2>2 DEF CallInv, CallerOf
  <2>4. PICK a \in todo[c] : /\ todo' = [todo EXCEPT ![c] = @ \ {a}]
                             /\ CallSelf(c, a, "loop1") \/ CallOther(c, a, <<c, call[c]>>)
    BY Zenon, <1>2 DEF Loop1, Lowest
  <2> QED BY Zenon, <1>2, <2>1, <2>3, <2>4, CallSteps DEF Loop1
<1>3. ASSUME NEW c \in Cpus, Loop2(c) PROVE CallInv'
  <2>1. PICK a \in todo[c], i \in 1 .. used[c] :
          /\ is_done(<<c, i>>)
          /\ todo' = [todo EXCEPT ![c] = @ \ {a}] /\ call' = [call EXCEPT ![c] = i]
          /\ CallSelf(c, a, "loop2") \/ CallOther(c, a, <<c, i>>)
    BY Zenon, <1>3 DEF Loop2, Lowest
  <2>2. ~wait[<<c, i>>] /\ pc[c] = "loop2" /\ "loop2" # "loop1" BY Zenon, <1>3, <2>1 DEF is_done, Loop2
  <2> QED BY Zenon, <1>3, <2>1, <2>2, CallSteps DEF Loop2
<1> QED BY Zenon, <1>1, <1>2, <1>3, LocalSteps, EnqueueStep, TakeBackStep, HandlerMoves, TakeFirstStep,
           RunStep, RunDoneStep DEF Next, Caller, Handler, Enter

\* What the invariant says to the caller
LEMMA CallInvFinished == TypeInv /\ CallInv => CallFinished
<1> SUFFICES ASSUME TypeInv, CallInv PROVE CallFinished OBVIOUS
<1>1. ASSUME NEW c \in Cpus, NEW r \in Calls, At(c, r) PROVE pc[r[1]] # "returned"
  <2>1. r[1] \in Cpus /\ r[2] \in 1 .. MaxCalls /\ r = <<r[1], r[2]>> BY Zenon, CallFacts
  <2>2. wait[<<r[1], r[2]>>] BY Zenon, <1>1, <2>1 DEF CallInv, WaitInv
  <2>3. CallerOf(r[1]) BY Zenon, <2>1 DEF CallInv
  <2> QED BY Zenon, <2>1, <2>2, <2>3 DEF CallerOf
<1>2. ASSUME NEW c \in Cpus, pc[c] = "returned", NEW d \in mask[c] PROVE d \in ran[c] \cup skipped[c]
  <2>1. Served(c, d) /\ todo[c] = {} /\ d \in Cpus BY Zenon, <1>2 DEF CallInv, CallerOf, TypeInv, TypeOK
  <2>2. ASSUME NEW i \in 1 .. MaxCalls PROVE ~At(d, <<c, i>>)
    <3>1. <<c, i>> \in Calls /\ <<c, i>>[1] = c BY Zenon, CallFacts
    <3> QED BY Zenon, <1>1, <1>2, <2>1, <3>1
  <2> QED BY Zenon, <1>2, <2>1, <2>2 DEF Served
<1>3. ASSUME NEW c \in Cpus, NEW r \in Calls, hnd[c] = r
      PROVE  ~queued(r) /\ \A d \in Cpus \ {c} : hnd[d] # r
  <2>1. At(c, r) BY Zenon, <1>3 DEF At
  <2>2. \A d \in Cpus : At(d, r) => d = c BY Zenon, <2>1 DEF CallInv, OnePlace
  <2> QED BY Zenon, <1>3, <2>2 DEF At, queued, CallInv, QueueInv
<1> QED BY Zenon, <1>1, <1>2, <1>3 DEF CallFinished, At

\* For any number of CPUs, callers, masks and Cpu_calls: as long as the assertion at the
\* end of remote_call() holds, cpu_call_many() without `async' returns only when its
\* function has run on every CPU of the mask that was online, and none of its Cpu_calls
\* is queued or executed then, nor ever in two places.
THEOREM CallsFinish ==
  ASSUME ~Async
  PROVE  Spec /\ []ReusableIsDone => []CallFinished
<1>1. Init => TypeInv /\ CallInv BY Zenon, TypeInit, CallInit
<1>2. TypeInv /\ CallInv /\ ReusableIsDone /\ [Next]_vars => TypeInv' /\ CallInv' BY Zenon, TypeStep, CallStep
<1>3. TypeInv /\ CallInv => CallFinished BY Zenon, CallInvFinished
<1> QED BY <1>1, <1>2, <1>3, PTL DEF Spec

\* Without CPU hotplug no CPU is ever found offline.
NoHotplug == \A s \in Systems : s.hotplug = {}
OnlineInv == \A c \in Cpus : online[c] /\ pc[c] \notin {"dequeue", "assert_done"}

\* Where CPUs do not go offline, the assertion holds and every call finishes.
THEOREM CallsFinishOnline ==
  ASSUME ~Async, NoHotplug
  PROVE  Spec => []CallFinished
<1>1. Init => TypeInv /\ OnlineInv BY Zenon, TypeInit DEF Init, OnlineInv
<1>2. TypeInv /\ OnlineInv /\ [Next]_vars => OnlineInv'
  <2> SUFFICES ASSUME TypeInv, OnlineInv, [Next]_vars PROVE OnlineInv' OBVIOUS
  <2>1. CASE UNCHANGED vars BY Zenon, <2>1 DEF vars, cvars, OnlineInv
  <2>2. ASSUME NEW c \in Cpus, Caller(c) PROVE OnlineInv'
    <3>1. pc[c] = "test_online" => n[c] \in Cpus /\ online[n[c]] BY Zenon DEF TypeInv, LocalsOf, RemoteLabels, OnlineInv
    <3>2. UNCHANGED online
      BY Zenon, <2>2 DEF Caller, Loop1, Loop1End, Loop2, WaitAll, Enqueue, TestOnline, TakeBack, AssertDone, SendIpi
    <3>3. PICK l : Goto(c, l) /\ l \notin {"dequeue", "assert_done"}
      <4>1. loop[c] \in {"loop1", "loop2"} BY Zenon DEF TypeInv, TypeOK
      <4>2. pc[c] \notin {"dequeue", "assert_done"} BY Zenon DEF OnlineInv
      <4>3. CASE Loop1(c) \/ Loop2(c)
        <5>1. PICK l \in {"loop1", "loop2", "enq"} : Goto(c, l)
          BY Zenon, <4>3 DEF Loop1, Loop2, CallSelf, CallOther
        <5> QED BY Zenon, <5>1
      <4>4. CASE ~(Loop1(c) \/ Loop2(c))
        <5>1. PICK l \in {"loop2", "returned", "test_online", "test_queued", loop[c]} : Goto(c, l)
          BY Zenon, <2>2, <3>1, <4>2, <4>4
             DEF Caller, Loop1End, WaitAll, Enqueue, TestOnline, TakeBack, AssertDone, SendIpi
        <5> QED BY Zenon, <4>1, <5>1
      <4> QED BY Zenon, <4>3, <4>4
    <3> QED BY Zenon, <3>2, <3>3 DEF OnlineInv, Goto, TypeInv, TypeOK
  <2>3. ASSUME NEW c \in Cpus, Handler(c) \/ Enter(c) PROVE OnlineInv'
    <3>1. ~TakeOffline(c) BY Zenon DEF TakeOffline, NoHotplug, TypeInv, TypeOK
    <3>2. \A d \in Cpus : online'[d]
      BY <2>3, <3>1 DEF Handler, Enter, Start, TakeOnline, TakeIpi, TakeFirst, Run, RunDone, HandlerEnd,
                        OnlineInv, TypeInv, TypeOK
    <3>3. UNCHANGED pc \/ Goto(c, "loop1")
      BY Zenon, <2>3, <3>1 DEF Handler, Enter, Start, TakeOnline, TakeIpi, TakeFirst, Run, RunDone, HandlerEnd, cvars
    <3> QED BY <3>2, <3>3 DEF OnlineInv, Goto, TypeInv, TypeOK
  <2> QED BY Zenon, <2>1, <2>2, <2>3 DEF Next
<1>3. OnlineInv => ReusableIsDone BY Zenon DEF OnlineInv, ReusableIsDone
<1> QED BY <1>1, <1>2, <1>3, TypeStep, CallsFinish, PTL DEF Spec

==============================================================================
