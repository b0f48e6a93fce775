---------------------------- MODULE ArmSeqlock ----------------------------
(***************************************************************************)
(* One arm segment in /dev/shm (shm/piper_shm/arm.py): a header with       *)
(* write_seq and a ring of n_slots records.  One process writes it and     *)
(* takes no lock; a reader copies the slot write_seq points at and looks   *)
(* at write_seq again to learn whether the writer has come round to that   *)
(* slot meanwhile.                                                         *)
(*                                                                         *)
(* Neither copy is atomic, so a record is a set of Words that are written  *)
(* and read one at a time, in any order.  The stores themselves become     *)
(* visible in program order (x86-64 TSO, which arm.py:184 relies on).      *)
(* The content of a record is abstracted to which publication it belongs   *)
(* to: the lifetime of the writer and the record's number in it.           *)
(***************************************************************************)
EXTENDS Integers, FiniteSets

CONSTANTS
    NSlots,              \* n_slots of the header
    Words,               \* the parts a record is copied in
    MaxRetries,          \* max_retries of a reader
    Calls,               \* how it is called: TRUE is read_new, FALSE is read
    MaxSeq,              \* bound: records one writer publishes
    MaxLives             \* bound: times a writer opens the existing file again

ASSUME NSlotsAssumption == NSlots \in Nat /\ NSlots >= 2
ASSUME WordsAssumption == Words # {}
ASSUME MaxRetriesAssumption == MaxRetries \in Nat \ {0}
ASSUME CallsAssumption == Calls \subseteq BOOLEAN
ASSUME BoundsAssumption == MaxSeq \in Nat /\ MaxLives \in Nat

VARIABLES
    write_seq,           \* header: number of the last complete record
    slots,               \* the ring: slot -> word -> the record it belongs to
    life,                \* how often the header was initialised again
    filling,             \* the writer is copying record write_seq + 1
    filled,              \* the words of it that are already in its slot
    rpc,                 \* where the reader is
    s1,                  \* write_seq as _read_slot loaded it
    buf,                 \* the words copied so far
    copied,              \* which words these are
    tries,               \* attempts of this _read_slot call
    last_seq,            \* _last_seq: number of the record returned last
    got,                 \* the words of the record returned last
    rlife,               \* history: the writer's life when s1 was loaded
    since                \* history: write_seq when this read began

wvars == <<write_seq, slots, life, filling, filled>>
rvars == <<rpc, s1, buf, copied, tries, last_seq, got, rlife, since>>
vars == <<write_seq, slots, life, filling, filled,
          rpc, s1, buf, copied, tries, last_seq, got, rlife, since>>

Slots == 0 .. NSlots - 1
Record == [life : Nat, seq : Nat]
Blank == [life |-> 0, seq |-> 0]       \* the zero bytes of a fresh file
SlotOf(n) == n % NSlots

TypeOK ==
    /\ write_seq \in Nat
    /\ slots \in [Slots -> [Words -> Record]]
    /\ life \in Nat
    /\ filling \in BOOLEAN
    /\ filled \subseteq Words
    /\ rpc \in {"idle", "load", "copy"}
    /\ s1 \in Nat
    /\ buf \in [Words -> Record]
    /\ copied \subseteq Words
    /\ tries \in 0 .. MaxRetries
    /\ rpc = "copy" => tries < MaxRetries
    /\ last_seq \in Nat
    /\ got \in [Words -> Record]
    /\ rlife \in Nat
    /\ since \in Nat

Init ==
    /\ write_seq = 0
    /\ slots = [s \in Slots |-> [w \in Words |-> Blank]]
    /\ life = 0
    /\ filling = FALSE
    /\ filled = {}
    /\ rpc = "idle"
    /\ s1 = 0
    /\ buf = [w \in Words |-> Blank]
    /\ copied = {}
    /\ tries = 0
    /\ last_seq = 0
    /\ got = [w \in Words |-> Blank]
    /\ rlife = 0
    /\ since = 0

-----------------------------------------------------------------------------
(* The writer: _Writer._write_slot *)

BeginWrite ==
    /\ ~filling
    /\ write_seq < MaxSeq
    /\ filling' = TRUE
    /\ filled' = {}
    /\ UNCHANGED <<write_seq, slots, life, rvars>>

WriteWord(w) ==
    /\ filling
    /\ w \notin filled
    /\ slots' = [slots EXCEPT ![SlotOf(write_seq + 1)][w] =
                    [life |-> life, seq |-> write_seq + 1]]
    /\ filled' = filled \cup {w}
    /\ UNCHANGED <<write_seq, life, filling, rvars>>

\* write_seq is stored after the whole slot
CommitSeq ==
    /\ filling
    /\ filled = Words
    /\ write_seq' = write_seq + 1
    /\ filling' = FALSE
    /\ UNCHANGED <<slots, life, filled, rvars>>

\* The writer's process is gone, at whatever point it was, and a new writer
\* opens the file that is still there: the header starts again at zero, the
\* slots keep their bytes (_Writer.__init__ with O_CREAT on an existing file).
Reopen ==
    /\ life < MaxLives
    /\ life' = life + 1
    /\ write_seq' = 0
    /\ filling' = FALSE
    /\ filled' = {}
    /\ UNCHANGED <<slots, rvars>>

-----------------------------------------------------------------------------
(* The reader: _Reader.read_new and _Reader._read_slot *)

\* read_new asks for a record only when write_seq has moved on; StateReader.read
\* (onlyNew = FALSE) asks at any time.  Waiting and reaching the deadline of
\* read_new change nothing.
BeginRead(onlyNew) ==
    /\ rpc = "idle"
    /\ onlyNew => write_seq > last_seq
    /\ rpc' = "load"
    /\ tries' = 0
    /\ since' = write_seq
    /\ UNCHANGED <<wvars, s1, buf, copied, last_seq, got, rlife>>

\* Faulty variant of LoadSeq: write_seq is loaded once for all attempts.
LoadSeqOnce ==
    /\ rpc = "load"
    /\ tries < MaxRetries
    /\ s1' = IF tries = 0 THEN write_seq ELSE s1
    /\ rlife' = life
    /\ copied' = {}
    /\ rpc' = IF write_seq = 0 THEN "idle" ELSE "copy"
    /\ UNCHANGED <<wvars, buf, tries, last_seq, got, since>>

\* every attempt begins with the current write_seq
LoadSeq ==
    /\ rpc = "load"
    /\ tries < MaxRetries
    /\ s1' = write_seq
    /\ rlife' = life
    /\ copied' = {}
    /\ rpc' = IF write_seq = 0 THEN "idle" ELSE "copy"
    /\ UNCHANGED <<wvars, buf, tries, last_seq, got, since>>

ReadWord(w) ==
    /\ rpc = "copy"
    /\ w \notin copied
    /\ buf' = [buf EXCEPT ![w] = slots[SlotOf(s1)][w]]
    /\ copied' = copied \cup {w}
    /\ UNCHANGED <<wvars, rpc, s1, tries, last_seq, got, rlife, since>>

\* Faulty variant of NotOverwritten: off by one, the slot may be being written.
NotYetOverwritten == write_seq - s1 < NSlots

\* The writer cannot have reached the slot while it was being copied.
NotOverwritten == write_seq - s1 < NSlots - 1

\* Faulty variant of Accept: the record is given the number of the newest one.
AcceptAsNewest ==
    /\ rpc = "copy"
    /\ copied = Words
    /\ NotOverwritten
    /\ last_seq' = write_seq
    /\ got' = buf
    /\ rpc' = "idle"
    /\ UNCHANGED <<wvars, s1, buf, copied, tries, rlife, since>>

Accept ==
    /\ rpc = "copy"
    /\ copied = Words
    /\ NotOverwritten
    /\ last_seq' = s1
    /\ got' = buf
    /\ rpc' = "idle"
    /\ UNCHANGED <<wvars, s1, buf, copied, tries, rlife, since>>

Retry ==
    /\ rpc = "copy"
    /\ copied = Words
    /\ ~NotOverwritten
    /\ tries' = tries + 1
    /\ rpc' = "load"
    /\ UNCHANGED <<wvars, s1, buf, copied, last_seq, got, rlife, since>>

\* all attempts used up: _read_slot returns None
GiveUp ==
    /\ rpc = "load"
    /\ tries = MaxRetries
    /\ rpc' = "idle"
    /\ UNCHANGED <<wvars, s1, buf, copied, tries, last_seq, got, rlife, since>>

-----------------------------------------------------------------------------

WriterNext == BeginWrite \/ (\E w \in Words : WriteWord(w)) \/ CommitSeq

ReaderNext ==
    \/ \E onlyNew \in Calls : BeginRead(onlyNew)
    \/ LoadSeq
    \/ \E w \in Words : ReadWord(w)
    \/ Accept
    \/ Retry
    \/ GiveUp

Next == WriterNext \/ ReaderNext

\* One writer for as long as the reader is attached.
Spec == Init /\ [][Next]_vars

\* The writer may die and another may open the same file.
ReopenNext == Next \/ Reopen
ReopenSpec == Init /\ [][ReopenNext]_vars

\* The reader's thread keeps running: ArmBridge._command_loop calls read_new
\* in a loop, and every call runs to its end.
FairReopenSpec == ReopenSpec /\ WF_vars(ReaderNext)

-----------------------------------------------------------------------------

\* A record that was returned is one publication: no word of it is from an
\* earlier or a later one (_read_slot's comparison of write_seq with s1).
NoTornRecord == \A v, w \in Words : got[v] = got[w] /\ got[w].seq = last_seq

\* Whatever the writer's process does: a read during which no other writer
\* opened the file accepts only a record all of whose words belong to
\* publication s1 of that writer.
CleanWithinLife ==
    rpc = "copy" /\ copied = Words /\ rlife = life /\ NotOverwritten
        => \A w \in Words : buf[w] = [life |-> life, seq |-> s1]

\* The record the words returned last agree on; -1 when they do not agree.
Agreed ==
    IF \A w \in Words : got[w] = [life |-> 0, seq |-> last_seq]
    THEN last_seq
    ELSE -1

Promise == INSTANCE LatestRecord WITH
    published <- write_seq,
    reading <- rpc # "idle",
    since <- since,
    returned <- Agreed

\* The segment keeps the promise of LatestRecord: what a read returns was the
\* latest record at some moment of the read, and reads never go back.
ReadsAreLatest == Promise!Spec

\* A call of _read_slot comes back with nothing only if each of its attempts was
\* lapped for itself: the writer has published n_slots - 1 records per attempt
\* since the call began (arm.py:261-272).  A slow copy, a record being written or
\* an unlucky first attempt alone never cost a reader its record.
GivesUpOnlyLapped ==
    rpc = "load" /\ tries = MaxRetries => write_seq - since >= MaxRetries * (NSlots - 1)

\* The record returned last is publication n of life l or a later one.
Reached(l, n) ==
    \A w \in Words : got[w].life > l \/ (got[w].life = l /\ got[w].seq >= n)

\* read_new delivers: a published record, or a later one, is returned to a
\* reader that keeps asking, unless its writer is replaced first.  The writer
\* ends with MaxSeq records here; one that laps every attempt keeps a reader
\* without a record for as long as it does so (GivesUpOnlyLapped).
DeliversNew ==
    \A l \in 0 .. MaxLives : \A n \in 1 .. MaxSeq :
        (life = l /\ write_seq = n) ~> (Reached(l, n) \/ life > l)
=============================================================================
