-------------------------- MODULE UsageStoreProofs --------------------------
(***************************************************************************)
(* The usage store is type correct, records calls once and in order, and   *)
(* implements UsageLog, for every set of calls, capacity and batch size.   *)
(***************************************************************************)
EXTENDS UsageStore, SequenceTheorems, TLAPS

-----------------------------------------------------------------------------
(* Sequences *)

\* Moving the head of one sequence to the end of the one before it leaves
\* their concatenation as it is.
LEMMA MoveHead ==
    ASSUME NEW S, NEW s \in Seq(S), NEW r \in Seq(S), r # << >>
    PROVE  Append(s, Head(r)) \o Tail(r) = s \o r
<1> DEFINE a == Append(s, Head(r))
           t == Tail(r)
<1>1. Head(r) \in S /\ t \in Seq(S) /\ Len(t) = Len(r) - 1
      /\ \A i \in 1..Len(t) : t[i] = r[i + 1]
  BY HeadTailProperties
<1>2. Head(r) = r[1]
  OBVIOUS
<1>3. a \in Seq(S) /\ Len(a) = Len(s) + 1 /\ (\A i \in 1..Len(s) : a[i] = s[i])
      /\ a[Len(s) + 1] = Head(r)
  BY <1>1, AppendProperties
<1>4. /\ a \o t \in Seq(S) /\ Len(a \o t) = Len(a) + Len(t)
      /\ \A i \in 1..Len(a) + Len(t) : (a \o t)[i] = IF i <= Len(a) THEN a[i] ELSE t[i - Len(a)]
  BY <1>1, <1>3, ConcatProperties
<1>5. /\ s \o r \in Seq(S) /\ Len(s \o r) = Len(s) + Len(r)
      /\ \A i \in 1..Len(s) + Len(r) : (s \o r)[i] = IF i <= Len(s) THEN s[i] ELSE r[i - Len(s)]
  BY ConcatProperties
<1>6. Len(s) \in Nat /\ Len(r) \in Nat \ {0}
  BY LenProperties, EmptySeq
<1> HIDE DEF a, t
<1>7. Len(a \o t) = Len(s \o r)
  BY <1>1, <1>3, <1>4, <1>5, <1>6
<1>8. ASSUME NEW i \in 1..Len(a \o t) PROVE (a \o t)[i] = (s \o r)[i]
  <2>1. CASE i <= Len(s)
    BY <2>1, <1>1, <1>3, <1>4, <1>5, <1>6
  <2>2. CASE i = Len(s) + 1
    BY <2>2, <1>1, <1>2, <1>3, <1>4, <1>5, <1>6
  <2>3. CASE i > Len(s) + 1
    <3>1. (a \o t)[i] = t[i - Len(a)] /\ i - Len(a) \in 1..Len(t)
      BY <2>3, <1>1, <1>3, <1>4, <1>6
    <3>2. t[i - Len(a)] = r[(i - Len(a)) + 1]
      BY <3>1, <1>1
    <3>3. (i - Len(a)) + 1 = i - Len(s)
      BY <1>3, <1>6
    <3>4. (s \o r)[i] = r[i - Len(s)]
      BY <2>3, <1>4, <1>5, <1>6, <1>7
    <3> QED BY <3>1, <3>2, <3>3, <3>4
  <2> QED BY <2>1, <2>2, <2>3, <1>6, <1>4, <1>1, <1>3
<1>9. a \o t = s \o r
  BY <1>4, <1>5, <1>7, <1>8, SeqEqual
<1> QED BY <1>9 DEF a, t

\* Appending to the second of two sequences appends to their concatenation.
LEMMA AppendToSecond ==
    ASSUME NEW S, NEW s \in Seq(S), NEW r \in Seq(S), NEW e \in S
    PROVE  s \o Append(r, e) = Append(s \o r, e)
<1>1. <<e>> \in Seq(S)
  OBVIOUS
<1>2. Append(r, e) = r \o <<e>>
  BY AppendIsConcat
<1>3. s \o r \in Seq(S)
  BY ConcatProperties
<1>4. Append(s \o r, e) = (s \o r) \o <<e>>
  BY <1>3, AppendIsConcat
<1> QED BY <1>1, <1>2, <1>4, ConcatAssociative

\* The parts of a concatenation that belong to the first and to the second.
LEMMA SplitConcat ==
    ASSUME NEW S, NEW s \in Seq(S), NEW r \in Seq(S), NEW n \in 0..Len(s)
    PROVE  /\ SubSeq(s \o r, 1, n) = SubSeq(s, 1, n)
           /\ SubSeq(s \o r, Len(s) + 1, Len(s \o r)) = r
<1>1. Len(s) \in Nat /\ Len(r) \in Nat /\ Len(s \o r) = Len(s) + Len(r)
  BY LenProperties, ConcatProperties
<1>2. SubSeq(s \o r, 1, n) = SubSeq(s, 1, n)
  <2>1. CASE n = 0
    BY <2>1, SubSeqEmpty
  <2>2. CASE n # 0
    <3>1. 1 \in 1..Len(s) /\ n \in 1..Len(s)
      BY <2>2, <1>1
    <3> QED BY <3>1, SubSeqOfConcat1
  <2> QED BY <2>1, <2>2
<1>3. SubSeq(s \o r, Len(s) + 1, Len(s \o r)) = r
  <2>1. CASE Len(r) = 0
    <3>1. r = << >>
      BY <2>1, EmptySeq
    <3>2. Len(s \o r) < Len(s) + 1 /\ Len(s \o r) \in Int /\ Len(s) + 1 \in Int
      BY <2>1, <1>1
    <3> QED BY <3>1, <3>2, SubSeqEmpty
  <2>2. CASE Len(r) # 0
    <3>1. /\ Len(s) + 1 \in Len(s)+1 .. Len(s)+Len(r)
          /\ Len(s) + Len(r) \in Len(s)+1 .. Len(s)+Len(r)
      BY <2>2, <1>1
    <3>2. SubSeq(s \o r, Len(s) + 1, Len(s) + Len(r))
            = SubSeq(r, Len(s) + 1 - Len(s), Len(s) + Len(r) - Len(s))
      BY <3>1, SubSeqOfConcat2
    <3>3. Len(s) + 1 - Len(s) = 1 /\ Len(s) + Len(r) - Len(s) = Len(r)
      BY <1>1
    <3> QED BY <3>2, <3>3, <1>1, SubSeqFull
  <2> QED BY <2>1, <2>2
<1> QED BY <1>2, <1>3

-----------------------------------------------------------------------------
(* Type correctness *)

\* The initial state is well typed.
LEMMA TypeInit == Init => TypeOK
  BY StoreAssumption, EmptySeq DEF Init, TypeOK

\* Every step preserves the types, the channel's capacity and the batch size.
LEMMA TypeStep == TypeOK /\ [Next]_vars => TypeOK'
<1> SUFFICES ASSUME TypeOK, [Next]_vars PROVE TypeOK'
  OBVIOUS
<1> USE StoreAssumption
<1>1. ASSUME NEW c \in Calls, RecordCheck(c) PROVE TypeOK'
  BY <1>1 DEF RecordCheck, TypeOK, history, Closed
<1>2. ASSUME NEW c \in Calls, RecordSend(c) PROVE TypeOK'
  <2>1. ch' \in Seq(Calls) /\ Len(ch') = Len(ch) + 1
    BY <1>2, AppendProperties DEF RecordSend, TypeOK
  <2>2. Len(ch) \in Nat
    BY LenProperties DEF TypeOK
  <2> QED BY <1>2, <2>1, <2>2 DEF RecordSend, TypeOK
<1>3. ASSUME NEW c \in Calls, RecordDrop(c) PROVE TypeOK'
  BY <1>3 DEF RecordDrop, TypeOK, history
<1>4. CASE Receive
  <2>1. /\ Head(ch) \in Calls /\ ch' \in Seq(Calls) /\ Len(ch') = Len(ch) - 1
        /\ Len(ch) \in Nat /\ Len(buf) \in Nat
    BY <1>4, HeadTailProperties, LenProperties DEF Receive, TypeOK
  <2>2. buf' \in Seq(Calls) /\ Len(buf') = Len(buf) + 1
    BY <1>4, <2>1, AppendProperties DEF Receive, TypeOK
  <2> QED BY <1>4, <2>1, <2>2 DEF Receive, TypeOK, history
<1>5. CASE Tick
  BY <1>5 DEF Tick, TypeOK, history
<1>6. CASE SeeClose
  BY <1>6 DEF SeeClose, TypeOK, history
<1>7. CASE Drained
  BY <1>7 DEF Drained, TypeOK, history
<1>8. ASSUME NEW n \in 0..Len(buf), Flush(n) PROVE TypeOK'
  <2>1. Len(buf) \in Nat /\ \A i \in 1..Len(buf) : buf[i] \in Calls
    BY LenProperties, ElementOfSeq DEF TypeOK
  <2>2. \A i \in 1..n : buf[i] \in Calls
    BY <2>1
  <2>3. SubSeq(buf, 1, n) \in Seq(Calls)
    BY <2>1, <2>2, SubSeqProperties
  <2>4. table' \in Seq(Calls)
    BY <1>8, <2>3, ConcatProperties DEF Flush, TypeOK
  <2>5. SubSeq(buf, n + 1, Len(buf)) \in Seq(Calls)
    BY <2>1, SubSeqProperties
  <2>6. Elems(SubSeq(buf, n + 1, Len(buf))) \subseteq Calls
    BY <2>5, LenProperties, ElementOfSeq DEF Elems
  <2>7. worker' \in {"loop", "drain", "exited"}
    BY <1>8 DEF Flush, AfterFlush
  <2>8. buf' = << >> /\ Len(buf') = 0 /\ buf' \in Seq(Calls)
    BY <1>8, EmptySeq DEF Flush
  <2> QED BY <1>8, <2>4, <2>6, <2>7, <2>8 DEF Flush, TypeOK
<1>9. ASSUME NEW k \in 1..Len(table), Prune(k) PROVE TypeOK'
  <2>1. Len(table) \in Nat /\ \A i \in 1..Len(table) : table[i] \in Calls
    BY LenProperties, ElementOfSeq DEF TypeOK
  <2>2. SubSeq(table, k + 1, Len(table)) \in Seq(Calls)
    BY <2>1, SubSeqProperties
  <2>3. \A i \in 1..k : table[i] \in Calls
    BY <2>1
  <2>4. SubSeq(table, 1, k) \in Seq(Calls)
    BY <2>1, <2>3, SubSeqProperties
  <2>5. Elems(SubSeq(table, 1, k)) \subseteq Calls
    BY <2>4, LenProperties, ElementOfSeq DEF Elems
  <2> QED BY <1>9, <2>2, <2>5 DEF Prune, TypeOK, memory
<1>10. CASE CloseSet
  BY <1>10 DEF CloseSet, TypeOK, history
<1>11. CASE CloseSignal
  BY <1>11 DEF CloseSignal, TypeOK, history
<1>12. CASE CloseDone
  BY <1>12 DEF CloseDone, TypeOK, history
<1>13. CASE Crash
  <2>1. Elems(ch) \subseteq Calls /\ Elems(buf) \subseteq Calls
    BY LenProperties, ElementOfSeq DEF Elems, TypeOK
  <2>2. /\ ch' = << >> /\ Len(ch') = 0 /\ ch' \in Seq(Calls)
        /\ buf' = << >> /\ Len(buf') = 0 /\ buf' \in Seq(Calls)
    BY <1>13, EmptySeq DEF Crash
  <2> QED BY <1>13, <2>1, <2>2 DEF Crash, TypeOK
<1>14. CASE UNCHANGED vars
  BY <1>14 DEF TypeOK, vars, memory, history
<1> QED BY <1>1, <1>2, <1>3, <1>4, <1>5, <1>6, <1>7, <1>8, <1>9, <1>10, <1>11, <1>12,
           <1>13, <1>14 DEF Next, Record, Run, Close

\* The types, the channel's capacity and the batch size hold throughout.
THEOREM StoreTypeCorrect == Spec => []TypeOK
<1> QED BY TypeInit, TypeStep, PTL DEF Spec

-----------------------------------------------------------------------------
(* Order.  The table alone does not tell why a flush keeps its order: what  *)
(* waits has to be in order too, and younger than what is in the table.    *)

Ordered(s)   == \A i, j \in DOMAIN s : i < j => turn[s[i]] < turn[s[j]]
Older(s, r)  == \A i \in DOMAIN s, j \in DOMAIN r : turn[s[i]] < turn[r[j]]
Numbered(s)  == \A i \in DOMAIN s : turn[s[i]] \in 1..accepts

\* The rows, the buffer and the channel are one sequence of accepted calls,
\* oldest first, and a call that was not accepted has no number.
PipelineInOrder ==
    /\ Ordered(table) /\ Ordered(buf) /\ Ordered(ch)
    /\ Older(table, buf) /\ Older(table, ch) /\ Older(buf, ch)
    /\ Numbered(table) /\ Numbered(buf) /\ Numbered(ch)
    /\ \A c \in Calls : caller[c] # "accepted" => turn[c] = 0

\* Nothing is in order at the start but the empty pipeline.
LEMMA OrderInit == Init => PipelineInOrder
<1> SUFFICES ASSUME Init PROVE PipelineInOrder
  OBVIOUS
<1>1. DOMAIN table = {} /\ DOMAIN buf = {} /\ DOMAIN ch = {}
  BY DEF Init
<1>2. \A c \in Calls : turn[c] = 0
  BY DEF Init
<1> QED BY <1>1, <1>2 DEF PipelineInOrder, Ordered, Older, Numbered

\* Every step keeps the pipeline in order.
LEMMA OrderPreserved == TypeOK /\ TypeOK' /\ PipelineInOrder /\ [Next]_vars => PipelineInOrder'
<1> SUFFICES ASSUME TypeOK, TypeOK', PipelineInOrder, [Next]_vars PROVE PipelineInOrder'
  OBVIOUS
<1> USE StoreAssumption
<1>a. /\ DOMAIN table = 1..Len(table) /\ Len(table) \in Nat
      /\ DOMAIN buf = 1..Len(buf) /\ Len(buf) \in Nat
      /\ DOMAIN ch = 1..Len(ch) /\ Len(ch) \in Nat
  BY LenProperties DEF TypeOK
<1>b. /\ \A i \in DOMAIN table : table[i] \in Calls
      /\ \A i \in DOMAIN buf : buf[i] \in Calls
      /\ \A i \in DOMAIN ch : ch[i] \in Calls
  BY <1>a, ElementOfSeq DEF TypeOK
<1>1. ASSUME NEW c \in Calls, RecordCheck(c) PROVE PipelineInOrder'
  BY <1>1 DEF RecordCheck, TypeOK, PipelineInOrder, Ordered, Older, Numbered, history, Closed
<1>2. ASSUME NEW c \in Calls, RecordSend(c) PROVE PipelineInOrder'
  <2>1. turn[c] = 0
    BY <1>2 DEF RecordSend, PipelineInOrder
  <2>2. /\ \A i \in DOMAIN table : table[i] # c
        /\ \A i \in DOMAIN buf : buf[i] # c
        /\ \A i \in DOMAIN ch : ch[i] # c
    BY <2>1 DEF PipelineInOrder, Numbered, TypeOK
  <2>3. \A d \in Calls : turn'[d] = IF d = c THEN accepts + 1 ELSE turn[d]
    BY <1>2 DEF RecordSend, TypeOK
  <2>4. /\ \A i \in DOMAIN table : turn'[table[i]] = turn[table[i]]
        /\ \A i \in DOMAIN buf : turn'[buf[i]] = turn[buf[i]]
        /\ \A i \in DOMAIN ch : turn'[ch[i]] = turn[ch[i]]
    BY <2>2, <2>3, <1>b
  <2>5. /\ Len(ch') = Len(ch) + 1 /\ DOMAIN ch' = 1..(Len(ch) + 1)
        /\ (\A i \in 1..Len(ch) : ch'[i] = ch[i]) /\ ch'[Len(ch) + 1] = c
    BY <1>2, AppendProperties, LenProperties DEF RecordSend, TypeOK
  <2>6. table' = table /\ buf' = buf /\ accepts' = accepts + 1 /\ accepts \in Nat
        /\ \A d \in Calls : caller'[d] # "accepted" => caller[d] # "accepted" /\ d # c
    BY <1>2 DEF RecordSend, TypeOK
  <2>7. turn'[ch'[Len(ch) + 1]] = accepts + 1
        /\ \A i \in 1..Len(ch) : turn'[ch'[i]] = turn[ch[i]] /\ turn[ch[i]] \in 1..accepts
    BY <2>3, <2>4, <2>5, <1>a DEF PipelineInOrder, Numbered
  <2>8. Ordered(ch)' /\ Numbered(ch)'
    <3>1. ASSUME NEW i \in 1..(Len(ch) + 1), NEW j \in 1..(Len(ch) + 1), i < j
          PROVE  turn'[ch'[i]] < turn'[ch'[j]]
      <4>1. CASE j = Len(ch) + 1
        <5>1. i \in 1..Len(ch)
          BY <3>1, <4>1, <1>a
        <5>2. turn'[ch'[i]] \in 1..accepts
          BY <5>1, <2>7
        <5> QED BY <5>2, <4>1, <2>6, <2>7
      <4>2. CASE j # Len(ch) + 1
        <5>1. i \in DOMAIN ch /\ j \in DOMAIN ch
          BY <3>1, <4>2, <1>a
        <5>2. turn[ch[i]] < turn[ch[j]]
          BY <3>1, <5>1 DEF PipelineInOrder, Ordered
        <5> QED BY <5>1, <5>2, <2>7, <1>a
      <4> QED BY <4>1, <4>2
    <3>2. ASSUME NEW i \in 1..(Len(ch) + 1) PROVE turn'[ch'[i]] \in 1..(accepts + 1)
      <4>1. CASE i = Len(ch) + 1
        BY <4>1, <2>6, <2>7
      <4>2. CASE i # Len(ch) + 1
        <5>1. i \in 1..Len(ch)
          BY <4>2, <1>a
        <5>2. turn'[ch'[i]] \in 1..accepts
          BY <5>1, <2>7
        <5> QED BY <5>2, <2>6
      <4> QED BY <4>1, <4>2
    <3> QED BY <3>1, <3>2, <2>5, <2>6 DEF Ordered, Numbered
  <2>9. Ordered(table)' /\ Ordered(buf)' /\ Older(table, buf)' /\ Numbered(table)' /\ Numbered(buf)'
    BY <2>4, <2>6 DEF PipelineInOrder, Ordered, Older, Numbered
  <2>10. Older(table, ch)' /\ Older(buf, ch)'
    <3>1. ASSUME NEW x \in 1..accepts, NEW j \in 1..(Len(ch) + 1),
                 \A m \in 1..Len(ch) : x < turn[ch[m]]
          PROVE  x < turn'[ch'[j]]
      <4>1. CASE j = Len(ch) + 1
        BY <4>1, <2>6, <2>7
      <4>2. CASE j # Len(ch) + 1
        <5>1. j \in 1..Len(ch)
          BY <4>2, <1>a
        <5> QED BY <5>1, <3>1, <2>7
      <4> QED BY <4>1, <4>2
    <3>2. \A i \in DOMAIN table : turn[table[i]] \in 1..accepts
                                 /\ \A m \in 1..Len(ch) : turn[table[i]] < turn[ch[m]]
      BY <1>a DEF PipelineInOrder, Older, Numbered
    <3>3. \A i \in DOMAIN buf : turn[buf[i]] \in 1..accepts
                                 /\ \A m \in 1..Len(ch) : turn[buf[i]] < turn[ch[m]]
      BY <1>a DEF PipelineInOrder, Older, Numbered
    <3> QED BY <3>1, <3>2, <3>3, <2>4, <2>5, <2>6 DEF Older
  <2>11. \A d \in Calls : caller'[d] # "accepted" => turn'[d] = 0
    BY <2>3, <2>6 DEF PipelineInOrder
  <2> QED BY <2>8, <2>9, <2>10, <2>11 DEF PipelineInOrder
<1>3. ASSUME NEW c \in Calls, RecordDrop(c) PROVE PipelineInOrder'
  BY <1>3 DEF RecordDrop, TypeOK, PipelineInOrder, Ordered, Older, Numbered, history
<1>4. CASE Receive
  <2>1. /\ Len(ch') = Len(ch) - 1 /\ DOMAIN ch' = 1..(Len(ch) - 1)
        /\ \A i \in 1..(Len(ch) - 1) : ch'[i] = ch[i + 1]
        /\ Head(ch) \in Calls /\ Head(ch) = ch[1] /\ Len(ch) >= 1
    BY <1>4, HeadTailProperties, LenProperties, EmptySeq DEF Receive, TypeOK
  <2>2. /\ Len(buf') = Len(buf) + 1 /\ DOMAIN buf' = 1..(Len(buf) + 1)
        /\ \A i \in 1..Len(buf) : buf'[i] = buf[i]
        /\ buf'[Len(buf) + 1] = ch[1]
    BY <1>4, <2>1, AppendProperties, LenProperties DEF Receive, TypeOK
  <2>3. table' = table /\ turn' = turn /\ accepts' = accepts /\ caller' = caller
    BY <1>4 DEF Receive, history
  <2>c. \A i \in DOMAIN ch' : i + 1 \in DOMAIN ch /\ ch'[i] = ch[i + 1] /\ i \in Nat
    BY <2>1, <1>a
  <2>b. /\ 1 \in DOMAIN ch
        /\ \A i \in DOMAIN buf' : (i \in DOMAIN buf /\ buf'[i] = buf[i])
                                  \/ (i = Len(buf) + 1 /\ buf'[i] = ch[1])
    <3>1. \A i \in DOMAIN buf' : i \in 1..Len(buf) \/ i = Len(buf) + 1
      BY <2>2, <1>a
    <3> QED BY <3>1, <2>1, <2>2, <1>a
  <2>4. Ordered(ch)' /\ Numbered(ch)' /\ Older(table, ch)'
    <3>1. \A i, j \in DOMAIN ch' : i < j => i + 1 < j + 1
      BY <2>c
    <3> QED BY <3>1, <2>c, <2>3 DEF PipelineInOrder, Ordered, Numbered, Older
  <2>5. Ordered(buf)' /\ Numbered(buf)' /\ Older(table, buf)'
    <3>1. Numbered(buf)' /\ Older(table, buf)'
      BY <2>b, <2>3 DEF PipelineInOrder, Numbered, Older
    <3>2. ASSUME NEW i \in DOMAIN buf', NEW j \in DOMAIN buf', i < j
          PROVE  turn[buf'[i]] < turn[buf'[j]]
      <4>1. i \in DOMAIN buf /\ buf'[i] = buf[i]
        <5>1. i # Len(buf) + 1
          BY <3>2, <2>2, <1>a
        <5> QED BY <5>1, <2>b
      <4>2. CASE j \in DOMAIN buf /\ buf'[j] = buf[j]
        BY <3>2, <4>1, <4>2 DEF PipelineInOrder, Ordered
      <4>3. CASE buf'[j] = ch[1]
        BY <4>1, <4>3, <2>b DEF PipelineInOrder, Older
      <4> QED BY <4>2, <4>3, <2>b
    <3> QED BY <3>1, <3>2, <2>3 DEF Ordered
  <2>6. Older(buf, ch)'
    <3> SUFFICES ASSUME NEW i \in DOMAIN buf', NEW j \in DOMAIN ch'
                 PROVE  turn[buf'[i]] < turn[ch'[j]]
      BY <2>3 DEF Older
    <3>1. ch'[j] = ch[j + 1] /\ j + 1 \in DOMAIN ch /\ 1 \in DOMAIN ch /\ 1 < j + 1
      BY <2>1, <1>a
    <3>2. CASE i = Len(buf) + 1
      BY <3>1, <3>2, <2>2 DEF PipelineInOrder, Ordered
    <3>3. CASE i # Len(buf) + 1
      BY <3>1, <3>3, <2>2, <1>a DEF PipelineInOrder, Older
    <3> QED BY <3>2, <3>3
  <2> QED BY <2>3, <2>4, <2>5, <2>6 DEF PipelineInOrder, Ordered, Numbered
<1>5. CASE Tick \/ SeeClose \/ Drained \/ CloseSet \/ CloseSignal \/ CloseDone
  BY <1>5 DEF Tick, SeeClose, Drained, CloseSet, CloseSignal, CloseDone, history,
              PipelineInOrder, Ordered, Older, Numbered
<1>6. ASSUME NEW n \in 0..Len(buf), Flush(n) PROVE PipelineInOrder'
  <2> DEFINE head == SubSeq(buf, 1, n)
  <2>1. \A i \in 1..n : buf[i] \in Calls
    BY <1>a, <1>b
  <2>2. head \in Seq(Calls) /\ Len(head) = n /\ \A i \in 1..n : head[i] = buf[i]
    <3>1. head \in Seq(Calls) /\ Len(head) = (IF 1 <= n THEN n - 1 + 1 ELSE 0)
          /\ \A i \in 1..(n - 1 + 1) : head[i] = buf[1 + i - 1]
      BY <2>1, SubSeqProperties
    <3> QED BY <3>1
  <2> HIDE DEF head
  <2>3. /\ Len(table') = Len(table) + n /\ DOMAIN table' = 1..(Len(table) + n)
        /\ \A i \in 1..(Len(table) + n) :
               table'[i] = IF i <= Len(table) THEN table[i] ELSE head[i - Len(table)]
    <3>1. table' = table \o head /\ table \in Seq(Calls) /\ table' \in Seq(Calls)
      BY <1>6 DEF Flush, TypeOK, head
    <3>2. /\ Len(table \o head) = Len(table) + n
          /\ \A i \in 1..(Len(table) + n) :
                (table \o head)[i] = IF i <= Len(table) THEN table[i] ELSE head[i - Len(table)]
      BY <2>2, <3>1, ConcatProperties
    <3> QED BY <3>1, <3>2, LenProperties
  <2>4. \A i \in 1..(Len(table) + n) : i > Len(table) =>
           i - Len(table) \in 1..n /\ table'[i] = buf[i - Len(table)]
    BY <2>2, <2>3, <1>a
  <2>5. turn' = turn /\ accepts' = accepts /\ caller' = caller /\ ch' = ch /\ DOMAIN buf' = {}
    BY <1>6, EmptySeq DEF Flush
  <2>6. n <= Len(buf) /\ n \in Nat
    BY <1>a
  <2>7. Ordered(table)'
    <3> SUFFICES ASSUME NEW i \in 1..(Len(table) + n), NEW j \in 1..(Len(table) + n), i < j
                 PROVE  turn[table'[i]] < turn[table'[j]]
      BY <2>3, <2>5 DEF Ordered
    <3>1. CASE j <= Len(table)
      BY <3>1, <2>3, <1>a DEF PipelineInOrder, Ordered
    <3>2. CASE i <= Len(table) /\ j > Len(table)
      <4>1. i \in DOMAIN table /\ table'[i] = table[i]
        BY <3>2, <2>3, <1>a
      <4>2. j - Len(table) \in DOMAIN buf /\ table'[j] = buf[j - Len(table)]
        BY <3>2, <2>4, <2>6, <1>a
      <4> QED BY <4>1, <4>2 DEF PipelineInOrder, Older
    <3>3. CASE i > Len(table)
      <4>1. i - Len(table) \in DOMAIN buf /\ table'[i] = buf[i - Len(table)]
        BY <3>3, <2>4, <2>6, <1>a
      <4>2. j - Len(table) \in DOMAIN buf /\ table'[j] = buf[j - Len(table)]
        BY <3>3, <2>4, <2>6, <1>a
      <4>3. i - Len(table) < j - Len(table)
        BY <1>a
      <4> QED BY <4>1, <4>2, <4>3 DEF PipelineInOrder, Ordered
    <3> QED BY <3>1, <3>2, <3>3, <1>a
  <2>8. \A i \in DOMAIN table' : turn[table'[i]] \in 1..accepts
                                 /\ \A j \in DOMAIN ch : turn[table'[i]] < turn[ch[j]]
    <3> SUFFICES ASSUME NEW i \in 1..(Len(table) + n)
                 PROVE  turn[table'[i]] \in 1..accepts
                        /\ \A j \in DOMAIN ch : turn[table'[i]] < turn[ch[j]]
      BY <2>3
    <3>1. CASE i <= Len(table)
      BY <3>1, <2>3, <1>a DEF PipelineInOrder, Numbered, Older
    <3>2. CASE i > Len(table)
      <4>1. i - Len(table) \in DOMAIN buf /\ table'[i] = buf[i - Len(table)]
        BY <3>2, <2>4, <2>6, <1>a
      <4> QED BY <4>1 DEF PipelineInOrder, Numbered, Older
    <3> QED BY <3>1, <3>2, <1>a
  <2> QED BY <2>5, <2>7, <2>8 DEF PipelineInOrder, Ordered, Older, Numbered
<1>7. ASSUME NEW k \in 1..Len(table), Prune(k) PROVE PipelineInOrder'
  <2>1. \A i \in (k + 1)..Len(table) : table[i] \in Calls
    BY <1>a, <1>b
  <2>2. /\ Len(table') = (IF k + 1 <= Len(table) THEN Len(table) - (k + 1) + 1 ELSE 0)
        /\ \A i \in 1..(Len(table) - (k + 1) + 1) : table'[i] = table[(k + 1) + i - 1]
    BY <1>7, <2>1, <1>a, SubSeqProperties DEF Prune
  <2>3. DOMAIN table' = 1..(Len(table) - k) /\ \A i \in 1..(Len(table) - k) : table'[i] = table[k + i]
    <3>1. k \in Nat /\ k <= Len(table) /\ Len(table) - (k + 1) + 1 = Len(table) - k
      BY <1>a
    <3>2. Len(table') = Len(table) - k
      <4>0. k = Len(table) \/ k < Len(table)
        <5> DEFINE m == Len(table)
        <5>1. m \in Nat /\ k \in Nat /\ k <= m
          BY <3>1, <1>a
        <5> HIDE DEF m
        <5>2. k = m \/ k < m
          BY <5>1
        <5> QED BY <5>2 DEF m
      <4>1. CASE k = Len(table)
        <5>1. ~(k + 1 <= Len(table))
          BY <4>1, <1>a
        <5>2. Len(table') = 0
          BY <5>1, <2>2, Zenon
        <5>3. Len(table) - k = 0
          BY <4>1, <1>a
        <5> QED BY <5>2, <5>3
      <4>2. CASE k < Len(table)
        <5>1. k + 1 <= Len(table)
          <6> DEFINE m == Len(table)
          <6>1. m \in Nat /\ k \in Nat /\ k < m
            BY <4>2, <3>1, <1>a
          <6> HIDE DEF m
          <6>2. k + 1 <= m
            BY <6>1
          <6> QED BY <6>2 DEF m
        <5>2. Len(table') = Len(table) - (k + 1) + 1
          BY <5>1, <2>2
        <5> QED BY <5>2, <3>1
      <4> QED BY <4>0, <4>1, <4>2
    <3>3. DOMAIN table' = 1..Len(table')
      BY LenProperties DEF TypeOK
    <3>4. \A i \in 1..(Len(table) - k) : (k + 1) + i - 1 = k + i
      BY <3>1
    <3>5. \A i \in 1..(Len(table) - k) : table'[i] = table[(k + 1) + i - 1]
      BY <2>2, <3>1
    <3> QED BY <3>2, <3>3, <3>4, <3>5
  <2>4. \A i \in DOMAIN table' : k + i \in DOMAIN table /\ table'[i] = table[k + i]
    BY <2>3, <1>a
  <2>5. \A i, j \in DOMAIN table' : i < j => k + i < k + j
    BY <2>3, <1>a
  <2>6. turn' = turn /\ accepts' = accepts /\ caller' = caller /\ ch' = ch /\ buf' = buf
    BY <1>7 DEF Prune, memory
  <2> QED BY <2>4, <2>5, <2>6 DEF PipelineInOrder, Ordered, Older, Numbered
<1>8. CASE Crash
  <2>1. DOMAIN ch' = {} /\ DOMAIN buf' = {} /\ table' = table /\ turn' = turn /\ accepts' = accepts
    BY <1>8, EmptySeq DEF Crash
  <2>2. \A c \in Calls : caller'[c] # "accepted" => caller[c] # "accepted"
    BY <1>8 DEF Crash
  <2> QED BY <2>1, <2>2 DEF PipelineInOrder, Ordered, Older, Numbered
<1>9. CASE UNCHANGED vars
  BY <1>9 DEF vars, memory, history, PipelineInOrder, Ordered, Older, Numbered
<1> QED BY <1>1, <1>2, <1>3, <1>4, <1>5, <1>6, <1>7, <1>8, <1>9 DEF Next, Record, Run, Close

\* The table lists the accepted calls in order and without repetition, whatever
\* fails or crashes.
THEOREM RecordedOnceInOrder == Spec => []OnceInOrder
<1>1. Init => TypeOK /\ PipelineInOrder
  BY TypeInit, OrderInit
<1>2. (TypeOK /\ PipelineInOrder) /\ [Next]_vars => (TypeOK /\ PipelineInOrder)'
  BY TypeStep, OrderPreserved
<1>3. PipelineInOrder => OnceInOrder
  BY DEF PipelineInOrder, Ordered, OnceInOrder
<1> QED BY <1>1, <1>2, <1>3, PTL DEF Spec

-----------------------------------------------------------------------------
(* The store implements the log *)

\* An empty store is an empty log.
LEMMA LogInitially == Init => Log!LogInit
<1> SUFFICES ASSUME Init PROVE Log!LogInit
  OBVIOUS
<1>1. {c \in Calls : caller[c] = "accepted"} = {}
  BY DEF Init
<1>2. buf \o ch = << >>
  BY ConcatEmptySeq, EmptySeq DEF Init
<1> QED BY <1>1, <1>2 DEF Init, Log!LogInit

\* Every step of the store is a step of the log or leaves it unchanged.
LEMMA LogStep == TypeOK /\ [Next]_vars => [Log!LogNext]_(Log!logVars)
<1> SUFFICES ASSUME TypeOK, [Next]_vars PROVE [Log!LogNext]_(Log!logVars)
  OBVIOUS
<1> DEFINE taken == {c \in Calls : caller[c] = "accepted"}
           waiting == buf \o ch
<1>a. buf \in Seq(Calls) /\ ch \in Seq(Calls) /\ table \in Seq(Calls)
      /\ waiting \in Seq(Calls) /\ Len(waiting) = Len(buf) + Len(ch)
      /\ Len(buf) \in Nat /\ Len(ch) \in Nat
  BY ConcatProperties, LenProperties DEF TypeOK
<1>s. ASSUME taken' = taken, waiting' = waiting, table' = table PROVE [Log!LogNext]_(Log!logVars)
  BY <1>s DEF Log!logVars
<1>1. ASSUME NEW c \in Calls, RecordCheck(c) PROVE [Log!LogNext]_(Log!logVars)
  <2>1. \A d \in Calls : caller'[d] = "accepted" <=> caller[d] = "accepted"
    BY <1>1 DEF RecordCheck, TypeOK
  <2> QED BY <2>1, <1>1, <1>s DEF RecordCheck
<1>2. ASSUME NEW c \in Calls, RecordSend(c) PROVE [Log!LogNext]_(Log!logVars)
  <2>1. c \notin taken /\ taken' = taken \cup {c}
    BY <1>2 DEF RecordSend, TypeOK
  <2>2. waiting' = Append(waiting, c)
    BY <1>2, <1>a, AppendToSecond DEF RecordSend
  <2>3. table' = table
    BY <1>2 DEF RecordSend
  <2>4. Log!Accept(c)
    BY <2>1, <2>2, <2>3 DEF Log!Accept
  <2> QED BY <2>4 DEF Log!LogNext
<1>3. ASSUME NEW c \in Calls, RecordDrop(c) PROVE [Log!LogNext]_(Log!logVars)
  <2>1. \A d \in Calls : caller'[d] = "accepted" <=> caller[d] = "accepted"
    BY <1>3 DEF RecordDrop, TypeOK
  <2> QED BY <2>1, <1>3, <1>s DEF RecordDrop
<1>4. CASE Receive
  <2>1. waiting' = waiting
    BY <1>4, <1>a, MoveHead DEF Receive
  <2> QED BY <2>1, <1>4, <1>s DEF Receive
<1>5. CASE Tick \/ SeeClose \/ Drained \/ CloseSet \/ CloseSignal \/ CloseDone
  BY <1>5, <1>s DEF Tick, SeeClose, Drained, CloseSet, CloseSignal, CloseDone
<1>6. ASSUME NEW n \in 0..Len(buf), Flush(n) PROVE [Log!LogNext]_(Log!logVars)
  <2>1. waiting' = ch
    BY <1>6, <1>a, ConcatEmptySeq DEF Flush
  <2>2. waiting' = SubSeq(waiting, Len(buf) + 1, Len(waiting))
    BY <2>1, <1>a, SplitConcat
  <2>3. table' = table \o SubSeq(waiting, 1, n)
    BY <1>6, <1>a, SplitConcat DEF Flush
  <2>4. Log!Settle(Len(buf), n)
    BY <2>2, <2>3, <1>6 DEF Flush, Log!Settle
  <2>5. Len(buf) \in 0..Len(waiting)
    BY <1>a
  <2> QED BY <2>4, <2>5 DEF Log!LogNext
<1>7. ASSUME NEW k \in 1..Len(table), Prune(k) PROVE [Log!LogNext]_(Log!logVars)
  <2>1. Log!Expire(k)
    BY <1>7 DEF Prune, memory, Log!Expire
  <2> QED BY <2>1 DEF Log!LogNext
<1>8. CASE Crash
  <2>1. taken' = taken
    <3>1. \A d \in Calls : caller'[d] = "accepted" <=> caller[d] = "accepted"
      BY <1>8 DEF Crash
    <3> QED BY <3>1
  <2>2. waiting' = << >>
    BY <1>8, ConcatEmptySeq, EmptySeq DEF Crash
  <2>3. SubSeq(waiting, Len(waiting) + 1, Len(waiting)) = << >> /\ SubSeq(waiting, 1, 0) = << >>
    BY <1>a, SubSeqEmpty
  <2>4. table' = table \o SubSeq(waiting, 1, 0)
    BY <1>8, <2>3, <1>a, ConcatEmptySeq DEF Crash
  <2>5. Log!Settle(Len(waiting), 0)
    BY <2>1, <2>2, <2>3, <2>4 DEF Log!Settle
  <2>6. Len(waiting) \in 0..Len(waiting) /\ 0 \in 0..Len(waiting)
    BY <1>a
  <2> QED BY <2>5, <2>6 DEF Log!LogNext
<1>9. CASE UNCHANGED vars
  BY <1>9, <1>s DEF vars, memory
<1> QED BY <1>1, <1>2, <1>3, <1>4, <1>5, <1>6, <1>7, <1>8, <1>9 DEF Next, Record, Run, Close

\* The store implements UsageLog, for every set of calls, every capacity and
\* batch size, and any number of failed transactions and crashes.
THEOREM StoreImplementsLog == Spec => ImplementsLog
<1>1. TypeOK /\ [Next]_vars => [Log!LogNext]_(Log!logVars)
  BY LogStep
<1> QED BY LogInitially, <1>1, StoreTypeCorrect, PTL DEF Spec, ImplementsLog, Log!LogSpec
=============================================================================
