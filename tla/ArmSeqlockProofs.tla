------------------------- MODULE ArmSeqlockProofs -------------------------
(***************************************************************************)
(* The segment protocol for every ring size of at least two slots, every   *)
(* way of cutting a record into words and any number of records and        *)
(* writers.  The heart of it is SlotsKept: all records the reader can      *)
(* accept are in slots the writer is not working in, because two record    *)
(* numbers less than NSlots apart never share a slot (DistinctSlots).      *)
(***************************************************************************)
EXTENDS ArmSeqlock, TLAPS

\* Record numbers less than NSlots apart lie in different slots of the ring:
\* why _write_slot's slot of write_seq + 1 is none a current reader copies.
LEMMA DistinctSlots ==
    ASSUME NEW m \in Nat, NEW n \in Nat, m < n, n - m < NSlots
    PROVE  SlotOf(m) # SlotOf(n)
<1>1. NSlots \in Nat /\ NSlots > 0
  BY NSlotsAssumption
<1>2. SUFFICES ASSUME m % NSlots = n % NSlots PROVE FALSE
  BY DEF SlotOf
<1> DEFINE k == n \div NSlots - m \div NSlots
<1>3. m = NSlots * (m \div NSlots) + (m % NSlots)
  BY <1>1
<1>4. n = NSlots * (n \div NSlots) + (n % NSlots)
  BY <1>1
<1>5. m \div NSlots \in Int /\ n \div NSlots \in Int
  BY <1>1
<1>6. k \in Int /\ n - m = NSlots * k
  BY <1>1, <1>2, <1>3, <1>4, <1>5
<1>7. k >= 1
  BY <1>1, <1>6
<1>8. NSlots * k >= NSlots
  BY <1>1, <1>6, <1>7
<1>9. QED
  BY <1>1, <1>6, <1>8

\* A record number always names a slot of the ring.
LEMMA SlotInRing ==
    ASSUME NEW n \in Nat
    PROVE  SlotOf(n) \in Slots
  BY NSlotsAssumption DEF SlotOf, Slots
-----------------------------------------------------------------------------

\* Every variable of the segment and of its reader keeps its type, whatever
\* writers come and go.
THEOREM TypeCorrect == ReopenSpec => []TypeOK
<1>1. Init => TypeOK
  <2>1. Blank \in Record
    BY DEF Blank, Record
  <2>2. 0 \in 0 .. MaxRetries
    BY MaxRetriesAssumption
  <2>3. Init => /\ slots \in [Slots -> [Words -> Record]]
                /\ buf \in [Words -> Record]
                /\ got \in [Words -> Record]
    BY <2>1 DEF Init
  <2>4. Init => /\ write_seq \in Nat /\ life \in Nat /\ s1 \in Nat
                /\ last_seq \in Nat /\ rlife \in Nat /\ since \in Nat
                /\ tries \in 0 .. MaxRetries
    BY <2>2 DEF Init
  <2>5. Init => /\ filling \in BOOLEAN /\ filled \subseteq Words
                /\ copied \subseteq Words
                /\ rpc = "idle" /\ rpc # "copy"
    BY DEF Init
  <2>6. QED
    BY <2>3, <2>4, <2>5 DEF TypeOK
<1>2. TypeOK /\ [ReopenNext]_vars => TypeOK'
  <2> SUFFICES ASSUME TypeOK, [ReopenNext]_vars PROVE TypeOK'
    OBVIOUS
  <2> USE DEF TypeOK
  <2>1. CASE BeginWrite
    BY <2>1 DEF BeginWrite, rvars
  <2>2. ASSUME NEW w \in Words, WriteWord(w) PROVE TypeOK'
    <3>1. [life |-> life, seq |-> write_seq + 1] \in Record
      BY DEF Record
    <3>2. slots' \in [Slots -> [Words -> Record]]
      BY <2>2, <3>1 DEF WriteWord
    <3>3. QED
      BY <2>2, <3>2 DEF WriteWord, rvars
  <2>3. CASE CommitSeq
    <3>1. write_seq' \in Nat
      BY <2>3 DEF CommitSeq
    <3>2. filling' = FALSE /\ UNCHANGED <<slots, life, filled, rvars>>
      BY <2>3 DEF CommitSeq
    <3>3. QED
      BY <3>1, <3>2 DEF rvars
  <2>4. CASE Reopen
    <3>1. write_seq' \in Nat /\ life' \in Nat
      BY <2>4 DEF Reopen
    <3>2. filling' = FALSE /\ filled' = {} /\ UNCHANGED <<slots, rvars>>
      BY <2>4 DEF Reopen
    <3>3. QED
      BY <3>1, <3>2 DEF rvars
  <2>5. ASSUME NEW onlyNew \in Calls, BeginRead(onlyNew) PROVE TypeOK'
    BY <2>5, MaxRetriesAssumption DEF BeginRead, wvars
  <2>6. CASE LoadSeq
    BY <2>6, MaxRetriesAssumption DEF LoadSeq, wvars
  <2>7. ASSUME NEW w \in Words, ReadWord(w) PROVE TypeOK'
    <3>1. slots[SlotOf(s1)][w] \in Record
      BY SlotInRing
    <3>2. QED
      BY <2>7, <3>1 DEF ReadWord, wvars
  <2>8. CASE Accept
    BY <2>8 DEF Accept, wvars
  <2>9. CASE Retry
    BY <2>9, MaxRetriesAssumption DEF Retry, wvars
  <2>10. CASE GiveUp
    BY <2>10 DEF GiveUp, wvars
  <2>11. CASE UNCHANGED vars
    BY <2>11 DEF vars
  <2>12. QED
    BY <2>1, <2>2, <2>3, <2>4, <2>5, <2>6, <2>7, <2>8, <2>9, <2>10, <2>11
    DEF ReopenNext, Next, WriterNext, ReaderNext
<1>3. QED
  BY <1>1, <1>2, PTL DEF ReopenSpec

-----------------------------------------------------------------------------

\* Every record that a reader may still accept is complete in its slot.
SlotsKept ==
    \A n \in 1 .. write_seq : n + NSlots > write_seq + 1 =>
        \A w \in Words : slots[SlotOf(n)][w] = [life |-> life, seq |-> n]

\* The words of the record being written are the new record's.
FillKept ==
    filling => \A w \in filled :
        slots[SlotOf(write_seq + 1)][w] = [life |-> life, seq |-> write_seq + 1]

\* As long as the writer has not come round, what was copied is record s1.
CopyKept ==
    rpc = "copy" /\ rlife = life =>
        /\ s1 \in 1 .. write_seq
        /\ NotOverwritten =>
              \A w \in copied : buf[w] = [life |-> life, seq |-> s1]

SeqlockInv == SlotsKept /\ FillKept /\ CopyKept /\ rlife <= life

LEMMA SeqlockInvInit == Init => SeqlockInv
  BY DEF Init, SeqlockInv, SlotsKept, FillKept, CopyKept

LEMMA SeqlockInvStep == TypeOK /\ SeqlockInv /\ [ReopenNext]_vars => SeqlockInv'
<1> SUFFICES ASSUME TypeOK, SeqlockInv, [ReopenNext]_vars PROVE SeqlockInv'
  OBVIOUS
<1>a. NSlots \in Nat /\ NSlots >= 2 /\ write_seq \in Nat /\ s1 \in Nat
      /\ life \in Nat /\ rlife \in Nat
  BY NSlotsAssumption DEF TypeOK
<1>1. CASE BeginWrite
  BY <1>1 DEF BeginWrite, rvars, SeqlockInv, SlotsKept, FillKept, CopyKept,
     NotOverwritten
<1>2. ASSUME NEW v \in Words, WriteWord(v) PROVE SeqlockInv'
  <2> DEFINE here == SlotOf(write_seq + 1)
             new == [life |-> life, seq |-> write_seq + 1]
  <2>1. here \in Slots
    BY <1>a, SlotInRing
  <2>2. /\ slots' = [slots EXCEPT ![here][v] = new]
        /\ filled' = filled \cup {v}
        /\ UNCHANGED <<write_seq, life, filling, rpc, s1, buf, copied, rlife>>
    BY <1>2 DEF WriteWord, rvars
  <2>3. slots \in [Slots -> [Words -> Record]]
    BY DEF TypeOK
  <2>4. SlotsKept'
    <3> SUFFICES ASSUME NEW n \in 1 .. write_seq, n + NSlots > write_seq + 1,
                        NEW w \in Words
                 PROVE  slots'[SlotOf(n)][w] = [life |-> life, seq |-> n]
      BY <2>2 DEF SlotsKept
    <3>1. SlotOf(n) # here
      BY <1>a, DistinctSlots
    <3>2. slots'[SlotOf(n)] = slots[SlotOf(n)]
      BY <2>1, <2>2, <2>3, <3>1
    <3>3. slots[SlotOf(n)][w] = [life |-> life, seq |-> n]
      BY <1>a DEF SeqlockInv, SlotsKept
    <3>4. QED
      BY <3>2, <3>3
  <2>5. FillKept'
    <3> SUFFICES ASSUME NEW w \in filled', filling
                 PROVE  slots'[here][w] = new
      BY <2>2 DEF FillKept
    <3>1. CASE w = v
      BY <2>1, <2>2, <2>3, <3>1
    <3>2. CASE w # v
      <4>1. w \in filled /\ w \in Words
        BY <2>2, <3>2 DEF TypeOK
      <4>2. slots[here][w] = new
        BY <4>1 DEF SeqlockInv, FillKept
      <4>3. slots'[here][w] = slots[here][w]
        BY <2>1, <2>2, <2>3, <3>2, <4>1
      <4>4. QED
        BY <4>2, <4>3
    <3>3. QED
      BY <3>1, <3>2
  <2>6. CopyKept' /\ (rlife <= life)'
    BY <2>2 DEF SeqlockInv, CopyKept, NotOverwritten
  <2>7. QED
    BY <2>4, <2>5, <2>6 DEF SeqlockInv
<1>3. CASE CommitSeq
  <2>1. /\ filling /\ filled = Words
        /\ write_seq' = write_seq + 1
        /\ filling' = FALSE
        /\ UNCHANGED <<slots, life, rpc, s1, buf, copied, rlife>>
    BY <1>3 DEF CommitSeq, rvars
  <2>2. SlotsKept'
    <3> SUFFICES ASSUME NEW n \in 1 .. (write_seq + 1),
                        n + NSlots > write_seq + 2,
                        NEW w \in Words
                 PROVE  slots[SlotOf(n)][w] = [life |-> life, seq |-> n]
      BY <1>a, <2>1 DEF SlotsKept
    <3>1. CASE n = write_seq + 1
      BY <2>1, <3>1 DEF SeqlockInv, FillKept
    <3>2. CASE n # write_seq + 1
      BY <1>a, <3>2 DEF SeqlockInv, SlotsKept
    <3>3. QED
      BY <3>1, <3>2
  <2>3. FillKept' /\ CopyKept' /\ (rlife <= life)'
    BY <1>a, <2>1 DEF SeqlockInv, FillKept, CopyKept, NotOverwritten
  <2>4. QED
    BY <2>2, <2>3 DEF SeqlockInv
<1>4. CASE Reopen
  BY <1>a, <1>4 DEF Reopen, rvars, SeqlockInv, SlotsKept, FillKept, CopyKept
<1>5. ASSUME NEW onlyNew \in Calls, BeginRead(onlyNew) PROVE SeqlockInv'
  BY <1>5 DEF BeginRead, wvars, SeqlockInv, SlotsKept, FillKept, CopyKept
<1>6. CASE LoadSeq
  BY <1>a, <1>6 DEF LoadSeq, wvars, SeqlockInv, SlotsKept, FillKept, CopyKept,
     NotOverwritten
<1>7. ASSUME NEW v \in Words, ReadWord(v) PROVE SeqlockInv'
  <2>1. /\ rpc = "copy"
        /\ buf' = [buf EXCEPT ![v] = slots[SlotOf(s1)][v]]
        /\ copied' = copied \cup {v}
        /\ UNCHANGED <<write_seq, slots, life, filling, filled, rpc, s1, rlife>>
    BY <1>7 DEF ReadWord, wvars
  <2>2. CopyKept'
    <3> SUFFICES ASSUME rlife = life
                 PROVE  /\ s1 \in 1 .. write_seq
                        /\ NotOverwritten => \A w \in copied' :
                              buf'[w] = [life |-> life, seq |-> s1]
      BY <2>1 DEF CopyKept, NotOverwritten
    <3>1. s1 \in 1 .. write_seq
      BY <2>1 DEF SeqlockInv, CopyKept
    <3>2. ASSUME NotOverwritten, NEW w \in copied'
          PROVE  buf'[w] = [life |-> life, seq |-> s1]
      <4>1. slots[SlotOf(s1)][v] = [life |-> life, seq |-> s1]
        BY <1>a, <3>1, <3>2 DEF SeqlockInv, SlotsKept, NotOverwritten
      <4>2. CASE w = v
        BY <2>1, <4>1, <4>2 DEF TypeOK
      <4>3. CASE w # v
        <5>1. w \in copied
          BY <2>1, <4>3
        <5>2. buf'[w] = buf[w]
          BY <2>1, <4>3, <5>1 DEF TypeOK
        <5>3. QED
          BY <2>1, <3>2, <5>1, <5>2 DEF SeqlockInv, CopyKept
      <4>4. QED
        BY <4>2, <4>3
    <3>3. QED
      BY <3>1, <3>2
  <2>3. SlotsKept' /\ FillKept' /\ (rlife <= life)'
    BY <2>1 DEF SeqlockInv, SlotsKept, FillKept
  <2>4. QED
    BY <2>2, <2>3 DEF SeqlockInv
<1>8. CASE Accept
  BY <1>8 DEF Accept, wvars, SeqlockInv, SlotsKept, FillKept, CopyKept
<1>9. CASE Retry
  BY <1>9 DEF Retry, wvars, SeqlockInv, SlotsKept, FillKept, CopyKept
<1>10. CASE GiveUp
  BY <1>10 DEF GiveUp, wvars, SeqlockInv, SlotsKept, FillKept, CopyKept
<1>11. CASE UNCHANGED vars
  BY <1>11 DEF vars, SeqlockInv, SlotsKept, FillKept, CopyKept, NotOverwritten
<1>12. QED
  BY <1>1, <1>2, <1>3, <1>4, <1>5, <1>6, <1>7, <1>8, <1>9, <1>10, <1>11
  DEF ReopenNext, Next, WriterNext, ReaderNext

\* The ring never tears a record within one writer's life: for every NSlots of
\* at least two, every Words and any succession of writers.
THEOREM RingIsClean == ReopenSpec => []CleanWithinLife
<1>1. TypeOK /\ SeqlockInv => CleanWithinLife
  BY DEF SeqlockInv, CopyKept, CleanWithinLife
<1>2. QED
  BY <1>1, TypeCorrect, SeqlockInvInit, SeqlockInvStep, PTL DEF ReopenSpec
-----------------------------------------------------------------------------

\* With one writer: numbers only grow, a read under way is not behind the
\* record returned before it, and the words returned last agree.
OneWriterInv ==
    /\ life = 0 /\ rlife = 0
    /\ filling => write_seq < MaxSeq
    /\ since <= write_seq /\ last_seq <= write_seq
    /\ rpc = "copy" => since <= s1 /\ last_seq <= s1
    /\ \A w \in Words : got[w] = [life |-> 0, seq |-> last_seq]

LEMMA SpecIsReopenSpec == Spec => ReopenSpec
<1>1. [Next]_vars => [ReopenNext]_vars
  BY DEF ReopenNext
<1>2. QED
  BY <1>1, PTL DEF Spec, ReopenSpec

LEMMA OneWriterStep ==
    TypeOK /\ SeqlockInv /\ OneWriterInv /\ [Next]_vars => OneWriterInv'
<1> SUFFICES ASSUME TypeOK, SeqlockInv, OneWriterInv, [Next]_vars
             PROVE  OneWriterInv'
  OBVIOUS
<1>a. /\ write_seq \in Nat /\ s1 \in Nat /\ last_seq \in Nat /\ since \in Nat
      /\ MaxSeq \in Nat
  BY BoundsAssumption DEF TypeOK
<1>1. CASE BeginWrite
  BY <1>1 DEF BeginWrite, rvars, OneWriterInv
<1>2. ASSUME NEW v \in Words, WriteWord(v) PROVE OneWriterInv'
  BY <1>2 DEF WriteWord, rvars, OneWriterInv
<1>3. CASE CommitSeq
  BY <1>a, <1>3 DEF CommitSeq, rvars, OneWriterInv
<1>4. ASSUME NEW onlyNew \in Calls, BeginRead(onlyNew) PROVE OneWriterInv'
  BY <1>a, <1>4 DEF BeginRead, wvars, OneWriterInv
<1>5. CASE LoadSeq
  BY <1>a, <1>5 DEF LoadSeq, wvars, OneWriterInv
<1>6. ASSUME NEW v \in Words, ReadWord(v) PROVE OneWriterInv'
  BY <1>6 DEF ReadWord, wvars, OneWriterInv
<1>7. CASE Accept
  <2>1. /\ s1 \in 1 .. write_seq
        /\ \A w \in Words : buf[w] = [life |-> 0, seq |-> s1]
    BY <1>7 DEF Accept, OneWriterInv, SeqlockInv, CopyKept
  <2>2. QED
    BY <1>a, <1>7, <2>1 DEF Accept, wvars, OneWriterInv
<1>8. CASE Retry
  BY <1>8 DEF Retry, wvars, OneWriterInv
<1>9. CASE GiveUp
  BY <1>9 DEF GiveUp, wvars, OneWriterInv
<1>10. CASE UNCHANGED vars
  BY <1>10 DEF vars, OneWriterInv
<1>11. QED
  BY <1>1, <1>2, <1>3, <1>4, <1>5, <1>6, <1>7, <1>8, <1>9, <1>10
  DEF Next, WriterNext, ReaderNext

LEMMA OneWriterInvariant == Spec => [](TypeOK /\ SeqlockInv /\ OneWriterInv)
<1>1. Init => OneWriterInv
  BY DEF Init, OneWriterInv, Blank
<1>2. [Next]_vars => [ReopenNext]_vars
  BY DEF ReopenNext
<1>3. QED
  BY <1>1, <1>2, TypeCorrect, SpecIsReopenSpec, SeqlockInvInit,
     SeqlockInvStep, OneWriterStep, PTL DEF Spec

\* A reader of a segment with one writer never returns a torn record.
THEOREM NeverTorn == Spec => []NoTornRecord
<1>1. OneWriterInv => NoTornRecord
  BY DEF OneWriterInv, NoTornRecord
<1>2. QED
  BY <1>1, OneWriterInvariant, PTL

\* The ring with one writer implements LatestRecord: each CommitSeq is a
\* Publish, each Accept a Return of record s1, and the copying in between is
\* invisible.
THEOREM RingKeepsPromise == Spec => ReadsAreLatest
<1>1. Init => Promise!Init
  BY DEF Init, Promise!Init, Agreed, Blank
<1>2. TypeOK /\ SeqlockInv /\ OneWriterInv /\ OneWriterInv' /\ [Next]_vars
         => [Promise!Next]_Promise!vars
  <2> SUFFICES ASSUME TypeOK, SeqlockInv, OneWriterInv, OneWriterInv',
                      [Next]_vars
               PROVE  [Promise!Next]_Promise!vars
    OBVIOUS
  <2>a. Agreed = last_seq /\ Agreed' = last_seq'
    BY DEF Agreed, OneWriterInv
  <2>b. /\ write_seq \in Nat /\ s1 \in Nat /\ last_seq \in Nat
        /\ since \in Nat
    BY DEF TypeOK
  <2> USE DEF Promise!vars, Promise!Next
  <2>1. CASE BeginWrite
    BY <2>1, <2>a DEF BeginWrite, rvars
  <2>2. ASSUME NEW v \in Words, WriteWord(v) PROVE UNCHANGED Promise!vars
    BY <2>2, <2>a DEF WriteWord, rvars
  <2>3. CASE CommitSeq
    BY <2>3, <2>a DEF CommitSeq, rvars, Promise!Publish, OneWriterInv
  <2>4. ASSUME NEW onlyNew \in Calls, BeginRead(onlyNew) PROVE Promise!Begin
    BY <2>4, <2>a DEF BeginRead, wvars, Promise!Begin
  <2>5. CASE LoadSeq
    <3>1. CASE write_seq = 0
      BY <2>5, <2>a, <3>1 DEF LoadSeq, wvars, Promise!GiveUp
    <3>2. CASE write_seq # 0
      BY <2>5, <2>a, <3>2 DEF LoadSeq, wvars
    <3>3. QED
      BY <3>1, <3>2
  <2>6. ASSUME NEW v \in Words, ReadWord(v) PROVE UNCHANGED Promise!vars
    BY <2>6, <2>a DEF ReadWord, wvars
  <2>7. CASE Accept
    <3>1. s1 \in since .. write_seq /\ s1 > 0 /\ s1 >= last_seq
      BY <2>7, <2>b DEF Accept, OneWriterInv, SeqlockInv, CopyKept
    <3>2. Promise!Return
      BY <2>7, <2>a, <3>1 DEF Accept, wvars, Promise!Return
    <3>3. QED
      BY <3>2
  <2>8. CASE Retry
    BY <2>8, <2>a DEF Retry, wvars
  <2>9. CASE GiveUp
    BY <2>9, <2>a DEF GiveUp, wvars, Promise!GiveUp
  <2>10. CASE UNCHANGED vars
    BY <2>10, <2>a DEF vars
  <2>11. QED
    BY <2>1, <2>2, <2>3, <2>4, <2>5, <2>6, <2>7, <2>8, <2>9, <2>10
    DEF Next, WriterNext, ReaderNext
<1>3. QED
  BY <1>1, <1>2, OneWriterInvariant, PTL DEF Spec, ReadsAreLatest, Promise!Spec

-----------------------------------------------------------------------------

\* Every attempt used up so far was lapped for itself: the records published since
\* the call began, up to what this attempt has loaded, are n_slots - 1 for each.
LapsCounted ==
    /\ rpc = "load" => write_seq - since >= tries * (NSlots - 1)
    /\ rpc = "copy" => s1 <= write_seq /\ s1 - since >= tries * (NSlots - 1)

LEMMA OneMoreLap ==
    ASSUME NEW n \in Nat, NEW k \in Nat
    PROVE  n * k \in Nat /\ (n + 1) * k = n * k + k
  OBVIOUS

LEMMA LapsStep == TypeOK /\ LapsCounted /\ [Next]_vars => LapsCounted'
<1> SUFFICES ASSUME TypeOK, LapsCounted, [Next]_vars PROVE LapsCounted'
  OBVIOUS
<1> DEFINE laps == tries * (NSlots - 1)
<1>a. /\ write_seq \in Nat /\ s1 \in Nat /\ since \in Nat /\ tries \in Nat
      /\ NSlots - 1 \in Nat
  BY NSlotsAssumption, MaxRetriesAssumption DEF TypeOK
<1>b. laps \in Nat /\ (tries + 1) * (NSlots - 1) = laps + (NSlots - 1)
  BY <1>a, OneMoreLap
<1>c. /\ rpc = "load" => write_seq - since >= laps
      /\ rpc = "copy" => s1 <= write_seq /\ s1 - since >= laps
  BY DEF LapsCounted
<1>1. CASE BeginWrite
  BY <1>1 DEF BeginWrite, rvars, LapsCounted
<1>2. ASSUME NEW v \in Words, WriteWord(v) PROVE LapsCounted'
  BY <1>2 DEF WriteWord, rvars, LapsCounted
<1>3. CASE CommitSeq
  <2>1. write_seq' = write_seq + 1 /\ laps' = laps /\ UNCHANGED <<rpc, s1, since, tries>>
    BY <1>3 DEF CommitSeq, rvars
  <2>. HIDE DEF laps
  <2>2. /\ rpc' = "load" => write_seq' - since' >= laps'
        /\ rpc' = "copy" => s1' <= write_seq' /\ s1' - since' >= laps'
    BY <1>a, <1>b, <1>c, <2>1
  <2>. QED
    BY <2>2 DEF laps, LapsCounted
<1>4. ASSUME NEW onlyNew \in Calls, BeginRead(onlyNew) PROVE LapsCounted'
  <2>1. rpc' = "load" /\ tries' = 0 /\ since' = write_seq /\ write_seq' = write_seq
    BY <1>4 DEF BeginRead, wvars
  <2>2. 0 * (NSlots - 1) = 0
    BY <1>a
  <2>. QED
    BY <1>a, <2>1, <2>2 DEF LapsCounted
<1>5. CASE LoadSeq
  <2>1. /\ rpc = "load" /\ rpc' \in {"idle", "copy"} /\ s1' = write_seq
        /\ laps' = laps /\ UNCHANGED <<write_seq, since, tries>>
    BY <1>5 DEF LoadSeq, wvars
  <2>. HIDE DEF laps
  <2>2. rpc' = "copy" => s1' <= write_seq' /\ s1' - since' >= laps'
    BY <1>a, <1>b, <1>c, <2>1
  <2>. QED
    BY <2>1, <2>2 DEF laps, LapsCounted
<1>6. ASSUME NEW v \in Words, ReadWord(v) PROVE LapsCounted'
  BY <1>6 DEF ReadWord, wvars, LapsCounted
<1>7. CASE Accept
  BY <1>7 DEF Accept, LapsCounted
<1>8. CASE Retry
  <2>1. /\ rpc = "copy" /\ rpc' = "load" /\ tries' = tries + 1
        /\ write_seq - s1 >= NSlots - 1
        /\ UNCHANGED <<write_seq, since>>
    BY <1>a, <1>8 DEF Retry, wvars, NotOverwritten
  <2>. HIDE DEF laps
  <2>2. write_seq' - since' >= laps + (NSlots - 1)
    BY <1>a, <1>b, <1>c, <2>1
  <2>. QED
    BY <1>b, <2>1, <2>2 DEF LapsCounted
<1>9. CASE GiveUp
  BY <1>9 DEF GiveUp, LapsCounted
<1>10. CASE UNCHANGED vars
  BY <1>10 DEF vars, LapsCounted
<1>11. QED
  BY <1>1, <1>2, <1>3, <1>4, <1>5, <1>6, <1>7, <1>8, <1>9, <1>10
  DEF Next, WriterNext, ReaderNext

\* A reader comes back with nothing only from a writer that has lapped every one of
\* its attempts: for every ring, number of attempts and speed of the two.
THEOREM LappedEachTime == Spec => []GivesUpOnlyLapped
<1>1. Init => LapsCounted
  BY DEF Init, LapsCounted
<1>2. LapsCounted => GivesUpOnlyLapped
  BY DEF LapsCounted, GivesUpOnlyLapped
<1>3. QED
  BY <1>1, <1>2, LapsStep, OneWriterInvariant, PTL DEF Spec
=============================================================================
