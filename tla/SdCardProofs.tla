----------------------------- MODULE SdCardProofs -----------------------------
(***************************************************************************)
(* Proofs about SdCard for every medium, payload, queue size and backend.  *)
(*                                                                         *)
(* The invariant is about client and card together: for each thing the     *)
(* client can wait for, what is queued for it, and where the read, the     *)
(* stream or the write stands that the card has open for it.               *)
(***************************************************************************)
EXTENDS SdCard, FiniteSetTheorems, SequenceTheorems, TLAPS

USE SdAssumption

\* The room the client and the card agree on for a write.
SameWrite ==
    /\ client.command \in {"Write", "WriteMulti"}
    /\ client.lba = writing.lba
    /\ writing.multi <=> client.command = "WriteMulti"

Mode == IF writing.multi THEN "Multi" ELSE "Single"

\* A read the backend deferred: its response is on its way, or nothing is.
ReadInv ==
    pendingRead.active =>
        /\ select = "Selected" /\ card = "Transfer"
        /\ ~stream.active /\ pendingWrite = NoBlock
        /\ client.command \in {"Read", "ReadMulti"}
        /\ client.lba = pendingRead.lba
        /\ pendingRead.multi <=> client.command = "ReadMulti"
        /\ \/ client.awaits = "R1" /\ tx = <<R1(TRUE)>>
           \/ client.awaits = "Block" /\ tx = <<>>

\* A stream is one block ahead of its client, or waits for room with it.
StreamInv ==
    stream.active =>
        /\ select = "Selected" /\ card = "Transfer"
        /\ client.command = "ReadMulti"
        /\ \/ /\ client.awaits = "R1" /\ tx = <<R1(TRUE), DataBlock(client.lba)>>
              /\ stream.next = client.lba + 1
           \/ /\ client.awaits = "Block" /\ tx = <<DataBlock(client.lba)>>
              /\ stream.next = client.lba + 1
           \/ /\ client.awaits = "Block" /\ tx = <<>>
              /\ stream.next = client.lba

\* Where the two sides of a write are while the card is receiving.
WriteInv ==
    card = "ReceivingData" =>
        /\ select = "Selected" /\ writing.lba \in Lbas
        /\ \/ /\ client.awaits = "R1" /\ tx = <<R1(TRUE)>>
              /\ SameWrite /\ framer = Mode
           \/ client.awaits = "Frame" /\ SameWrite /\ framer = Mode
           \/ /\ client.awaits = "Verdict" /\ tx = <<>>
              /\ SameWrite /\ framer = (IF writing.multi THEN "Multi" ELSE "Idle")
              /\ pendingWrite = client.data
           \/ /\ client.awaits = "Verdict" /\ tx = <<Verdict("Accepted")>>
              /\ client.command = "WriteMulti" /\ writing.multi
              /\ writing.lba = client.lba + 1 /\ framer = "Multi"
           \/ client.awaits = "Verdict" /\ tx \in {<<Verdict("CrcError")>>, <<Verdict("WriteError")>>}
           \/ client.awaits = "Release"

FramerInv ==
    framer # "Idle" =>
        /\ select = "Selected"
        /\ \/ client.awaits = "R1" /\ card = "ReceivingData"
           \/ client.awaits = "Frame" /\ (framer = "Multi" <=> client.command = "WriteMulti")
           \/ client.awaits = "Verdict" /\ framer = "Multi" /\ client.command = "WriteMulti"
           \/ client.awaits = "Release"

DeferredWriteInv ==
    pendingWrite # NoBlock =>
        card = "ReceivingData" /\ client.awaits = "Verdict" /\ tx = <<>>

SelectInv ==
    /\ select = "Released" => client.awaits = "Nothing"
    /\ select = "TimedOut" => tx = <<>>
    /\ select = "Selected" /\ client.awaits = "R1" => tx # <<>>

StoredInv ==
    tx = <<Verdict("Accepted")>> =>
        /\ client.lba \in Lbas
        /\ disk[client.lba] = client.data /\ Stands(client.lba)

\* No late write can change a sector that is queued for the client.
Settled(item, writes) == item.type = "Block" => \A write \in writes : write[1] # item.lba
QueuedInv == \A i \in DOMAIN tx : Settled(tx[i], late)

SdInv ==
    /\ SdTypeOK /\ AnswersMatch /\ SelectInv
    /\ ReadInv /\ StreamInv
    /\ WriteInv /\ FramerInv /\ DeferredWriteInv /\ StoredInv
    /\ QueuedInv

-----------------------------------------------------------------------------
\* The room a short queue takes.
LEMMA UsedByNone == Used(<<>>) = 0
<1>1. Blocks(<<>>) = {}
  BY DEF Blocks
<1>2. Cardinality(Blocks(<<>>)) = 0
  BY <1>1, FS_EmptySet
<1> QED
  BY <1>2 DEF Used

LEMMA UsedByOne ==
    ASSUME NEW a \in Items
    PROVE  Used(<<a>>) = IF a.type = "Block" THEN BlockSize ELSE 1
<1>1. CASE a.type = "Block"
  <2>1. Blocks(<<a>>) = {1}
    BY <1>1 DEF Blocks
  <2>2. Cardinality(Blocks(<<a>>)) = 1
    BY <2>1, FS_Singleton
  <2> QED
    BY <1>1, <2>2 DEF Used
<1>2. CASE a.type # "Block"
  <2>1. Blocks(<<a>>) = {}
    BY <1>2 DEF Blocks
  <2>2. Cardinality(Blocks(<<a>>)) = 0
    BY <2>1, FS_EmptySet
  <2> QED
    BY <1>2, <2>2 DEF Used
<1> QED
  BY <1>1, <1>2

LEMMA UsedByTwo ==
    ASSUME NEW a \in Items, NEW b \in Items, ~(a.type = "Block" /\ b.type = "Block")
    PROVE  Used(<<a, b>>) = Used(<<a>>) + Used(<<b>>)
<1>1. Blocks(<<a, b>>) \in {{}, {1}, {2}}
  BY DEF Blocks
<1>2. CASE a.type = "Block"
  <2>1. Blocks(<<a, b>>) = {1}
    BY <1>2 DEF Blocks
  <2>2. Cardinality(Blocks(<<a, b>>)) = 1
    BY <2>1, FS_Singleton
  <2> QED
    BY <1>2, <2>2, UsedByOne DEF Used
<1>3. CASE b.type = "Block"
  <2>1. Blocks(<<a, b>>) = {2}
    BY <1>3 DEF Blocks
  <2>2. Cardinality(Blocks(<<a, b>>)) = 1
    BY <2>1, FS_Singleton
  <2> QED
    BY <1>3, <2>2, UsedByOne DEF Used
<1>4. CASE a.type # "Block" /\ b.type # "Block"
  <2>1. Blocks(<<a, b>>) = {}
    BY <1>4 DEF Blocks
  <2>2. Cardinality(Blocks(<<a, b>>)) = 0
    BY <2>1, FS_EmptySet
  <2> QED
    BY <1>4, <2>2, UsedByOne DEF Used
<1> QED
  BY <1>2, <1>3, <1>4

LEMMA ItemTypes ==
    /\ \A ok \in BOOLEAN : R1(ok) \in Items /\ R1(ok).type = "R1" /\ R1(ok).ok = ok
    /\ Register \in Items /\ Register.type = "Register"
    /\ \A v \in {"Accepted", "CrcError", "WriteError"} :
           /\ Verdict(v) \in Items
           /\ Verdict(v).type = "Verdict" /\ Verdict(v).verdict = v
BY DEF Items, R1, Register, Verdict

LEMMA BlockIsItem ==
    ASSUME SdTypeOK, NEW lba \in Lbas
    PROVE  /\ DataBlock(lba) \in Items
           /\ DataBlock(lba).type = "Block" /\ DataBlock(lba).lba = lba
BY DEF SdTypeOK, Items, DataBlock

\* What is not a block is settled, and a block when its sector stands.
LEMMA SettledItems ==
    /\ \A writes, ok : Settled(R1(ok), writes)
    /\ \A writes : Settled(Register, writes)
    /\ \A writes, v : Settled(Verdict(v), writes)
    /\ \A lba : Settled(DataBlock(lba), late) <=> Stands(lba)
BY DEF Settled, R1, Register, Verdict, DataBlock, Stands

LEMMA ShortQueueSettled ==
    ASSUME \/ tx' = <<>>
           \/ \E a : tx' = <<a>> /\ Settled(a, late')
           \/ \E a, b : tx' = <<a, b>> /\ Settled(a, late') /\ Settled(b, late')
    PROVE  QueuedInv'
<1>1. CASE tx' = <<>>
  BY <1>1 DEF QueuedInv
<1>2. ASSUME NEW a, tx' = <<a>>, Settled(a, late') PROVE QueuedInv'
  BY <1>2 DEF QueuedInv
<1>3. ASSUME NEW a, NEW b, tx' = <<a, b>>, Settled(a, late'), Settled(b, late') PROVE QueuedInv'
  BY <1>3 DEF QueuedInv
<1> QED
  BY <1>1, <1>2, <1>3

LEMMA QueuedStands ==
    ASSUME QueuedInv, NEW lba,
           \/ tx = <<DataBlock(lba)>>
           \/ \E other : tx = <<other, DataBlock(lba)>> \/ tx = <<DataBlock(lba), other>>
    PROVE  Stands(lba)
<1>1. \E i \in DOMAIN tx : tx[i] = DataBlock(lba)
  <2>1. CASE tx = <<DataBlock(lba)>>
    BY <2>1
  <2>2. ASSUME NEW other, tx = <<other, DataBlock(lba)>>
        PROVE  \E i \in DOMAIN tx : tx[i] = DataBlock(lba)
    BY <2>2
  <2>3. ASSUME NEW other, tx = <<DataBlock(lba), other>>
        PROVE  \E i \in DOMAIN tx : tx[i] = DataBlock(lba)
    BY <2>3
  <2> QED
    BY <2>1, <2>2, <2>3
<1> QED
  BY <1>1, SettledItems DEF QueuedInv

\* Every answer fits: an emptied queue takes a response and a block, and a queued
\* block leaves room for a response.
LEMMA AnswersFit ==
    /\ Enqueued(<<>>, <<>>) = <<>>
    /\ \A a \in Items : Enqueued(<<>>, <<a>>) = <<a>>
    /\ \A a, b \in Items : a.type # "Block" => Enqueued(<<>>, <<a, b>>) = <<a, b>>
    /\ \A a, b \in Items : b.type # "Block" => Enqueued(<<a>>, <<b>>) = <<a, b>>
<1>1. ASSUME NEW a \in Items PROVE Used(<<a>>) \in Nat /\ Used(<<a>>) <= BlockSize
  BY <1>1, UsedByOne
<1>2. ASSUME NEW a \in Items, NEW b \in Items, a.type # "Block"
      PROVE  Used(<<a, b>>) \in Nat /\ Used(<<a, b>>) <= TransmitCapacity
  <2>1. Used(<<a, b>>) = Used(<<a>>) + Used(<<b>>) /\ Used(<<a>>) = 1
    BY <1>2, UsedByOne, UsedByTwo
  <2> QED
    BY <1>1, <2>1
<1>3. ASSUME NEW a \in Items, NEW b \in Items, b.type # "Block"
      PROVE  Used(<<a>>) + Used(<<b>>) <= TransmitCapacity
  BY <1>3, UsedByOne
<1>4. Enqueued(<<>>, <<>>) = <<>>
  BY UsedByNone DEF Enqueued
<1>5. ASSUME NEW a \in Items PROVE Enqueued(<<>>, <<a>>) = <<a>>
  BY <1>1, <1>5, UsedByNone DEF Enqueued
<1>6. ASSUME NEW a \in Items, NEW b \in Items, a.type # "Block"
      PROVE  Enqueued(<<>>, <<a, b>>) = <<a, b>>
  BY <1>2, <1>6, UsedByNone DEF Enqueued
<1>7. ASSUME NEW a \in Items, NEW b \in Items, b.type # "Block"
      PROVE  Enqueued(<<a>>, <<b>>) = <<a, b>>
  <2>1. <<a>> \o <<b>> = <<a, b>>
    <3>1. <<a>> \in Seq(Items) /\ <<b>> \in Seq(Items) /\ <<a, b>> \in Seq(Items)
      BY <1>7
    <3>2. /\ <<a>> \o <<b>> \in Seq(Items)
          /\ Len(<<a>> \o <<b>>) = 2
          /\ \A i \in 1 .. 2 : (<<a>> \o <<b>>)[i] = <<a, b>>[i]
      BY <3>1, ConcatProperties
    <3> QED
      BY <3>1, <3>2, SeqEqual
  <2> QED
    BY <1>3, <1>7, <2>1 DEF Enqueued
<1> QED
  BY <1>4, <1>5, <1>6, <1>7

\* Short queues of items are within the capacity.
LEMMA ShortQueues ==
    /\ <<>> \in Seq(Items) /\ Used(<<>>) <= TransmitCapacity
    /\ \A a \in Items : <<a>> \in Seq(Items) /\ Used(<<a>>) <= TransmitCapacity
    /\ \A a, b \in Items : ~(a.type = "Block" /\ b.type = "Block") =>
           <<a, b>> \in Seq(Items) /\ Used(<<a, b>>) <= TransmitCapacity
<1>1. ASSUME NEW a \in Items PROVE <<a>> \in Seq(Items) /\ Used(<<a>>) <= TransmitCapacity
  BY <1>1, UsedByOne
<1>2. ASSUME NEW a \in Items, NEW b \in Items, ~(a.type = "Block" /\ b.type = "Block")
      PROVE  <<a, b>> \in Seq(Items) /\ Used(<<a, b>>) <= TransmitCapacity
  <2>1. Used(<<a, b>>) = Used(<<a>>) + Used(<<b>>)
    BY <1>2, UsedByTwo
  <2>2. /\ Used(<<a>>) = IF a.type = "Block" THEN BlockSize ELSE 1
        /\ Used(<<b>>) = IF b.type = "Block" THEN BlockSize ELSE 1
    BY UsedByOne
  <2>3. Used(<<a, b>>) <= TransmitCapacity
    BY <1>2, <2>1, <2>2
  <2> QED
    BY <1>2, <2>3
<1> QED
  BY <1>1, <1>2, UsedByNone

-----------------------------------------------------------------------------
LEMMA InitSdInv == SdInit => SdInv
<1> SUFFICES ASSUME SdInit PROVE SdInv
  OBVIOUS
<1>1. /\ card = "PowerUp" /\ app = FALSE /\ stream = NoStream /\ pendingRead = NoRead
      /\ writing = NoWriting /\ framer = "Idle" /\ pendingWrite = NoBlock /\ exposed = 0
      /\ tx = <<>> /\ select = "Released" /\ disk = [lba \in Lbas |-> Blank]
      /\ late = {} /\ client = Awaiting("Nothing")
  BY DEF SdInit
<1>2. SdTypeOK
  <2>1. 0 \in Lbas /\ 0 \in 0 .. CardBlocks
    BY DEF Lbas
  <2>2. /\ stream \in [active : BOOLEAN, next : 0 .. CardBlocks]
        /\ pendingRead \in [active : BOOLEAN, multi : BOOLEAN, lba : Lbas]
        /\ writing \in [lba : 0 .. CardBlocks, multi : BOOLEAN]
    BY <1>1, <2>1 DEF NoStream, NoRead, NoWriting
  <2>3. client \in [awaits : {"Nothing", "R1", "Block", "Register", "Frame", "Verdict", "Release"},
                    command : Commands, lba : 0 .. CardBlocks, data : Payloads]
    BY <1>1, <2>1 DEF Awaiting, Commands
  <2>4. disk \in [Lbas -> Payloads]
    BY <1>1
  <2> QED
    BY <1>1, <2>2, <2>3, <2>4, ShortQueues DEF SdTypeOK, CardStates
<1>3. client.awaits = "Nothing" /\ ~pendingRead.active /\ ~stream.active
  BY <1>1 DEF Awaiting, NoRead, NoStream
<1>4. tx # <<Verdict("Accepted")>>
  BY <1>1
<1> QED
  BY <1>1, <1>2, <1>3, <1>4 DEF SdInv, AnswersMatch, SelectInv, ReadInv, StreamInv, WriteInv,
     FramerInv, DeferredWriteInv, StoredInv, QueuedInv

-----------------------------------------------------------------------------
\* Steps of the medium and the backend leave the transaction alone.
LEMMA BackendSettlesKeeps == ASSUME SdInv, BackendSettles PROVE SdInv'
<1>1. /\ late' \in SUBSET late
      /\ UNCHANGED <<card, app, stream, pendingRead, writing, framer, pendingWrite, exposed, tx,
                     select, client>>
  BY DEF BackendSettles, Settles, modelVars, engineVars
<1>2. /\ disk' \in [Lbas -> Payloads]
      /\ \A lba : Stands(lba) => disk'[lba] = disk[lba]
  <2>1. CASE disk' = disk
    BY <2>1 DEF SdInv, SdTypeOK
  <2>2. ASSUME NEW write \in late, disk' = [disk EXCEPT ![write[1]] = write[2]]
        PROVE  /\ disk' \in [Lbas -> Payloads]
               /\ \A lba : Stands(lba) => disk'[lba] = disk[lba]
    <3>1. write[1] \in Lbas /\ write[2] \in Payloads
      BY DEF SdInv, SdTypeOK
    <3>2. ASSUME NEW lba, Stands(lba) PROVE disk'[lba] = disk[lba]
      BY <2>2, <3>1, <3>2 DEF SdInv, SdTypeOK, Stands
    <3> QED
      BY <2>2, <3>1, <3>2 DEF SdInv, SdTypeOK
  <2> QED
    BY <2>1, <2>2 DEF BackendSettles, Settles
<1>3. SdTypeOK'
  BY <1>1, <1>2 DEF SdInv, SdTypeOK
<1>4. QueuedInv'
  BY <1>1 DEF SdInv, QueuedInv, Settled
<1>5. StoredInv'
  BY <1>1, <1>2 DEF SdInv, StoredInv, Stands
<1>6. ASSUME NEW lba, Stands(lba) PROVE DataBlock(lba)' = DataBlock(lba)
  BY <1>2, <1>6 DEF DataBlock
<1>7. ASSUME NEW lba
      PROVE  /\ tx = <<DataBlock(lba)>> => tx' = <<DataBlock(lba)'>>
             /\ tx = <<R1(TRUE), DataBlock(lba)>> => tx' = <<R1(TRUE), DataBlock(lba)'>>
             /\ \A ok : tx = <<DataBlock(lba), R1(ok)>> => tx' = <<DataBlock(lba)', R1(ok)>>
  BY <1>1, <1>6, QueuedStands DEF SdInv
<1>8. AnswersMatch'
  BY <1>1, <1>7 DEF SdInv, AnswersMatch, DataBlock
<1>9. StreamInv'
  BY <1>1, <1>7 DEF SdInv, StreamInv, DataBlock
<1> QED
  BY <1>1, <1>3, <1>4, <1>5, <1>8, <1>9 DEF SdInv, SelectInv, ReadInv, WriteInv, SameWrite,
     Mode, FramerInv, DeferredWriteInv

LEMMA MediumChangesKeeps == ASSUME SdInv, MediumChanges PROVE SdInv'
<1>1. /\ exposed' \in {0, CardBlocks}
      /\ UNCHANGED <<card, app, stream, pendingRead, writing, framer, pendingWrite, tx,
                     select, disk, late, client>>
  BY DEF MediumChanges, modelVars, engineVars, storeVars
<1>2. SdTypeOK'
  BY <1>1 DEF SdInv, SdTypeOK
<1> QED
  BY <1>1, <1>2 DEF SdInv, AnswersMatch, SelectInv, ReadInv, StreamInv, WriteInv, SameWrite,
     Mode, FramerInv, DeferredWriteInv, StoredInv, Stands,
     QueuedInv, DataBlock

LEMMA AssertSelectKeeps == ASSUME SdInv, AssertSelect PROVE SdInv'
<1>1. /\ select = "Released" /\ select' = "Selected"
      /\ UNCHANGED <<card, app, stream, pendingRead, writing, framer, pendingWrite, exposed, tx,
                     disk, late, client>>
  BY DEF AssertSelect, modelVars, engineVars, storeVars
<1>2. SdTypeOK'
  BY <1>1 DEF SdInv, SdTypeOK
<1> QED
  BY <1>1, <1>2 DEF SdInv, AnswersMatch, SelectInv, ReadInv, StreamInv, WriteInv, SameWrite,
     Mode, FramerInv, DeferredWriteInv, StoredInv, Stands,
     QueuedInv, DataBlock

\* Whatever ends a transaction leaves nothing of it in the card.
LEMMA CleanupKeeps ==
    ASSUME SdInv, Cleanup, ~stream.active,
           \/ select' = "Released" /\ client' = Awaiting("Nothing")
           \/ select' = "TimedOut" /\ UNCHANGED client
    PROVE  SdInv'
<1>1. /\ tx' = <<>> /\ framer' = "Idle" /\ pendingWrite' = NoBlock
      /\ pendingRead' = [pendingRead EXCEPT !.active = FALSE]
      /\ card' = After(card, "finish_receiving_data")
      /\ writing' = [writing EXCEPT !.multi = FALSE]
      /\ UNCHANGED <<app, stream, exposed, disk, late>>
  BY DEF Cleanup, ReadDropped, storeVars
<1>2. card' \in CardStates \ {"Busy", "ReceivingData"}
  BY <1>1 DEF SdInv, SdTypeOK, CardStates, After, From, Into
<1>3. /\ pendingRead' \in [active : BOOLEAN, multi : BOOLEAN, lba : Lbas]
      /\ ~pendingRead'.active
      /\ writing' \in [lba : 0 .. CardBlocks, multi : BOOLEAN]
  BY <1>1 DEF SdInv, SdTypeOK
<1>4. client' \in [awaits : {"Nothing", "R1", "Block", "Register", "Frame", "Verdict", "Release"},
                   command : Commands, lba : 0 .. CardBlocks, data : Payloads]
  BY DEF SdInv, SdTypeOK, Awaiting, Commands
<1>5. SdTypeOK'
  BY <1>1, <1>2, <1>3, <1>4, ShortQueues DEF SdInv, SdTypeOK
<1>6. select' = "Released" => client'.awaits = "Nothing"
  BY DEF Awaiting
<1>7. tx' # <<Verdict("Accepted")>>
  BY <1>1
<1> QED
  BY <1>1, <1>2, <1>3, <1>5, <1>6, <1>7 DEF SdInv, AnswersMatch, SelectInv, ReadInv, StreamInv,
     WriteInv, FramerInv, DeferredWriteInv, StoredInv, QueuedInv

LEMMA TransactionEndKeeps ==
    ASSUME SdInv, ~DropsStreams, ReleaseSelect \/ TransactionTimeout
    PROVE  SdInv'
<1>1. ~stream.active
  BY DEF SdInv, StreamInv, ReleaseSelect, TransactionTimeout, Streaming
<1> QED
  BY <1>1, CleanupKeeps DEF ReleaseSelect, TransactionTimeout

-----------------------------------------------------------------------------
\* No answer is the acceptance of a block unless it is one.
LEMMA NotAccepted ==
    /\ <<>> # <<Verdict("Accepted")>>
    /\ \A a, b : <<a, b>> # <<Verdict("Accepted")>>
    /\ \A a \in Items : a.type # "Verdict" => <<a>> # <<Verdict("Accepted")>>
<1>1. ASSUME NEW a \in Items, <<a>> = <<Verdict("Accepted")>> PROVE a.type = "Verdict"
  <2>1. a = Verdict("Accepted")
    BY <1>1
  <2> QED
    BY <2>1 DEF Verdict
<1> QED
  BY <1>1

\* What a client that may send a command finds the card doing.
CommandSent(command, lba) ==
    /\ \/ client.awaits = "Nothing"
       \/ client.awaits = "Block" /\ command = "Stop"
    /\ client' = [awaits |-> "R1", command |-> command, lba |-> lba, data |-> Blank]
    /\ UNCHANGED <<exposed, select, disk, late>>

LEMMA CardIsFree ==
    ASSUME SdInv, NEW command, NEW lba, CommandSent(command, lba)
    PROVE  /\ card # "ReceivingData" /\ pendingWrite = NoBlock /\ framer = "Idle"
           /\ \/ tx = <<>>
              \/ /\ command = "Stop" /\ tx = <<DataBlock(client.lba)>> /\ client.lba \in Lbas
           /\ stream.active \/ pendingRead.active => command = "Stop" /\ card = "Transfer"
<1>1. client.awaits \in {"Nothing", "Block"}
  BY DEF CommandSent
<1>2. card # "ReceivingData"
  BY <1>1 DEF SdInv, WriteInv
<1>3. pendingWrite = NoBlock /\ framer = "Idle"
  BY <1>1 DEF SdInv, FramerInv, DeferredWriteInv
<1>4. \/ tx = <<>>
      \/ command = "Stop" /\ tx = <<DataBlock(client.lba)>> /\ client.lba \in Lbas
  <2>1. CASE client.awaits = "Nothing"
    BY <2>1 DEF SdInv, AnswersMatch
  <2>2. ASSUME tx = <<DataBlock(client.lba)>> PROVE client.lba \in Lbas
    <3>1. DataBlock(client.lba) \in Items
      <4>1. tx[1] \in Items /\ tx[1] = DataBlock(client.lba)
        BY <2>2, ElementOfSeq DEF SdInv, SdTypeOK
      <4> QED
        BY <4>1
    <3> QED
      BY <3>1 DEF Items, DataBlock, R1, Register, Verdict
  <2>3. CASE client.awaits = "Block"
    <3>1. tx = <<>> \/ tx = <<DataBlock(client.lba)>>
      BY <2>3 DEF SdInv, AnswersMatch
    <3>2. command = "Stop"
      BY <2>3 DEF CommandSent
    <3> QED
      BY <2>2, <3>1, <3>2
  <2> QED
    BY <1>1, <2>1, <2>3
<1>5. stream.active \/ pendingRead.active => command = "Stop" /\ card = "Transfer"
  BY DEF CommandSent, SdInv, StreamInv, ReadInv
<1> QED
  BY <1>2, <1>3, <1>4, <1>5

\* A command that opens nothing leaves its response behind a block at most.
LEMMA AnsweredKeeps ==
    ASSUME SdInv, NEW command \in Commands, NEW lba \in 0 .. CardBlocks,
           CommandSent(command, lba), select = "Selected",
           NEW ok \in BOOLEAN,
           \/ tx' = Enqueued(tx, <<R1(ok)>>)
           \/ ok /\ command = "ReadReg" /\ tx' = Enqueued(tx, <<R1(TRUE), Register>>),
           card' \in CardStates \ {"Busy", "ReceivingData"}, app' \in BOOLEAN,
           stream' \in [active : BOOLEAN, next : 0 .. CardBlocks], ~stream'.active,
           pendingRead' \in [active : BOOLEAN, multi : BOOLEAN, lba : Lbas], ~pendingRead'.active,
           writing' \in [lba : 0 .. CardBlocks, multi : BOOLEAN],
           framer' = "Idle", pendingWrite' = NoBlock
    PROVE  SdInv'
<1>0. /\ R1(ok) \in Items /\ R1(ok).type = "R1"
      /\ R1(TRUE) \in Items /\ R1(TRUE).type = "R1"
      /\ Register \in Items /\ Register.type = "Register"
  BY ItemTypes
<1>1. \/ tx' = <<R1(ok)>>
      \/ command = "ReadReg" /\ tx' = <<R1(TRUE), Register>>
      \/ command = "Stop" /\ \E l \in Lbas : Stands(l) /\ tx' = <<DataBlock(l), R1(ok)>>
  <2>1. CASE tx = <<>>
    <3>1. Enqueued(<<>>, <<R1(ok)>>) = <<R1(ok)>>
      BY <1>0, AnswersFit
    <3>2. Enqueued(<<>>, <<R1(TRUE), Register>>) = <<R1(TRUE), Register>>
      BY <1>0, AnswersFit
    <3> QED
      BY <2>1, <3>1, <3>2
  <2>2. CASE tx # <<>>
    <3>1. command = "Stop" /\ tx = <<DataBlock(client.lba)>> /\ client.lba \in Lbas
      BY <2>2, CardIsFree
    <3>2. Enqueued(<<DataBlock(client.lba)>>, <<R1(ok)>>) = <<DataBlock(client.lba), R1(ok)>>
      BY <1>0, <3>1, AnswersFit, BlockIsItem DEF SdInv
    <3>3. Stands(client.lba)
      BY <3>1, QueuedStands DEF SdInv
    <3> QED
      BY <3>1, <3>2, <3>3
  <2> QED
    BY <2>1, <2>2
<1>2. client'.awaits = "R1" /\ client'.command = command
  BY DEF CommandSent
<1>3. /\ tx' \in Seq(Items) /\ Used(tx') <= TransmitCapacity
      /\ tx' # <<>> /\ tx' # <<Verdict("Accepted")>>
  <2>1. CASE tx' = <<R1(ok)>>
    BY <1>0, <2>1, ShortQueues, NotAccepted
  <2>2. CASE tx' = <<R1(TRUE), Register>>
    BY <1>0, <2>2, ShortQueues, NotAccepted
  <2>3. ASSUME NEW l \in Lbas, tx' = <<DataBlock(l), R1(ok)>>
        PROVE  /\ tx' \in Seq(Items) /\ Used(tx') <= TransmitCapacity
               /\ tx' # <<>> /\ tx' # <<Verdict("Accepted")>>
    <3>1. DataBlock(l) \in Items
      BY BlockIsItem DEF SdInv
    <3> QED
      BY <1>0, <2>3, <3>1, ShortQueues, NotAccepted
  <2> QED
    BY <1>1, <2>1, <2>2, <2>3
<1>5. client' \in [awaits : {"Nothing", "R1", "Block", "Register", "Frame", "Verdict", "Release"},
                   command : Commands, lba : 0 .. CardBlocks, data : Payloads]
  BY DEF CommandSent
<1>6. SdTypeOK'
  BY <1>3, <1>5 DEF SdInv, SdTypeOK, CommandSent
<1>7. AnswersMatch'
  BY <1>1, <1>2 DEF AnswersMatch, CommandSent, DataBlock
<1>8. QueuedInv'
  BY <1>1, SettledItems, ShortQueueSettled DEF CommandSent
<1> QED
  BY <1>2, <1>3, <1>6, <1>7, <1>8 DEF SdInv, SelectInv, ReadInv, StreamInv, WriteInv, FramerInv,
     DeferredWriteInv, StoredInv, CommandSent

LEMMA SimpleKeeps ==
    ASSUME SdInv, NEW command \in Commands, NEW lba \in 0 .. CardBlocks,
           CommandSent(command, lba), select = "Selected",
           ExecuteSimple(command, lba), framer' = ModeAfter(command), UNCHANGED pendingWrite
    PROVE  SdInv'
<1> DEFINE refused == ~Legal(command) \/ (command \in BlockCommands /\ ~AddressValid(lba))
<1>1. refused \/ command \notin {"GoIdle", "Stop", "SendOp"} \cup BlockCommands
  BY DEF ExecuteSimple
<1>2. ~stream.active /\ ~pendingRead.active
  <2>1. Legal("Stop") <=> card = "Transfer"
    BY DEF Legal
  <2>2. CASE command = "Stop"
    BY <1>1, <2>1, <2>2, CardIsFree DEF BlockCommands
  <2> QED
    BY <2>2, CardIsFree
<1>3. card' \in CardStates \ {"Busy", "ReceivingData"}
  BY CardIsFree DEF ExecuteSimple, SdInv, SdTypeOK, CardStates, After, From, Into
<1>4. framer' = "Idle"
  BY <1>3, CardIsFree DEF ModeAfter
<1>5. app' \in BOOLEAN
  BY DEF ExecuteSimple, SdInv, SdTypeOK
<1>6. /\ stream' = stream /\ pendingRead' = pendingRead /\ writing' = writing
      /\ tx' = Enqueued(tx, IF ~refused /\ command = "ReadReg" THEN <<R1(TRUE), Register>>
                                                                ELSE <<R1(~refused)>>)
  BY DEF ExecuteSimple, Enqueue
<1>7. PICK ok \in BOOLEAN : ok = ~refused
  OBVIOUS
<1> HIDE DEF refused
<1>8. \/ tx' = Enqueued(tx, <<R1(ok)>>)
      \/ ok /\ command = "ReadReg" /\ tx' = Enqueued(tx, <<R1(TRUE), Register>>)
  BY <1>6, <1>7
<1> QED
  BY <1>2, <1>3, <1>4, <1>5, <1>6, <1>8, CardIsFree, AnsweredKeeps DEF SdInv, SdTypeOK

LEMMA ControlKeeps ==
    ASSUME SdInv, NEW command \in Commands, NEW lba \in 0 .. CardBlocks,
           CommandSent(command, lba), select = "Selected",
           \/ command = "GoIdle" /\ ExecuteGoIdle
           \/ command = "SendOp" /\ ExecuteSendOp
           \/ command = "Stop" /\ ExecuteStop,
           framer' = ModeAfter(command), UNCHANGED pendingWrite
    PROVE  SdInv'
<1>1. /\ tx' = Enqueued(tx, <<R1(TRUE)>>)
      /\ app' = FALSE
  BY DEF ExecuteGoIdle, ExecuteSendOp, ExecuteStop, Enqueue
<1>2. card' \in CardStates \ {"Busy", "ReceivingData"}
  BY CardIsFree DEF ExecuteGoIdle, ExecuteSendOp, ExecuteStop, SdInv, SdTypeOK, CardStates, After,
     From, Into
<1>3. framer' = "Idle"
  BY <1>2, CardIsFree DEF ModeAfter
<1>4. stream' \in [active : BOOLEAN, next : 0 .. CardBlocks] /\ ~stream'.active
  <2>1. stream' \in {[stream EXCEPT !.active = FALSE], stream}
    BY DEF ExecuteGoIdle, ExecuteSendOp, ExecuteStop, Stopped
  <2>2. command = "SendOp" => ~stream.active
    BY CardIsFree
  <2> QED
    BY <2>1, <2>2 DEF SdInv, SdTypeOK, ExecuteGoIdle, ExecuteSendOp, ExecuteStop, Stopped
<1>5. /\ pendingRead' \in [active : BOOLEAN, multi : BOOLEAN, lba : Lbas]
      /\ ~pendingRead'.active
  <2>1. command = "SendOp" => ~pendingRead.active
    BY CardIsFree
  <2> QED
    BY <2>1 DEF SdInv, SdTypeOK, ExecuteGoIdle, ExecuteSendOp, ExecuteStop
<1>6. writing' \in [lba : 0 .. CardBlocks, multi : BOOLEAN]
  BY DEF SdInv, SdTypeOK, ExecuteGoIdle, ExecuteSendOp, ExecuteStop
<1> QED
  BY <1>1, <1>2, <1>3, <1>4, <1>5, <1>6, CardIsFree, AnsweredKeeps

\* The queue holds nothing else when a transfer is opened.
LEMMA OpeningAnswers ==
    ASSUME SdTypeOK
    PROVE
    /\ R1(TRUE) \in Items
    /\ Enqueued(<<>>, <<R1(TRUE)>>) = <<R1(TRUE)>>
    /\ <<R1(TRUE)>> \in Seq(Items) /\ Used(<<R1(TRUE)>>) <= TransmitCapacity
    /\ <<R1(TRUE)>> # <<>> /\ <<R1(TRUE)>> # <<Verdict("Accepted")>>
    /\ \A lba \in Lbas :
           LET both == <<R1(TRUE), DataBlock(lba)>>
           IN  /\ Enqueued(<<>>, both) = both
               /\ both \in Seq(Items) /\ Used(both) <= TransmitCapacity
               /\ both # <<>> /\ both # <<Verdict("Accepted")>>
<1>1. R1(TRUE) \in Items /\ R1(TRUE).type = "R1"
  BY ItemTypes
<1>2. ASSUME NEW lba \in Lbas
      PROVE  LET both == <<R1(TRUE), DataBlock(lba)>>
             IN  /\ Enqueued(<<>>, both) = both
                 /\ both \in Seq(Items) /\ Used(both) <= TransmitCapacity
                 /\ both # <<>> /\ both # <<Verdict("Accepted")>>
  <2>1. DataBlock(lba) \in Items
    BY BlockIsItem
  <2> QED
    BY <1>1, <2>1, AnswersFit, ShortQueues, NotAccepted
<1> QED
  BY <1>1, <1>2, AnswersFit, ShortQueues, NotAccepted

LEMMA ReadKeeps ==
    ASSUME SdInv, NEW command \in {"Read", "ReadMulti"}, NEW lba \in 0 .. CardBlocks,
           CommandSent(command, lba), select = "Selected",
           ExecuteRead(command, lba), framer' = ModeAfter(command), UNCHANGED pendingWrite
    PROVE  SdInv'
<1>1. /\ tx = <<>> /\ ~stream.active /\ ~pendingRead.active
      /\ framer = "Idle" /\ pendingWrite = NoBlock
  BY CardIsFree
<1>2. lba \in Lbas
  BY DEF ExecuteRead, AddressValid, SdInv, SdTypeOK, Lbas
<1>3. card' = "Transfer" /\ app' = FALSE /\ UNCHANGED writing
  BY DEF ExecuteRead, InTransfer, After, From, Into
<1>4. framer' = "Idle"
  BY <1>1, <1>3 DEF ModeAfter
<1>5. /\ client' = [awaits |-> "R1", command |-> command, lba |-> lba, data |-> Blank]
      /\ client'.awaits = "R1" /\ client'.command = command /\ client'.lba = lba
  BY DEF CommandSent
<1>6. PICK result \in ReadResults :
          /\ StoreRead(lba, result)
          /\ pendingRead' = [active |-> Deferred(result), multi |-> command = "ReadMulti",
                             lba |-> lba]
          /\ stream' = IF command = "ReadMulti" /\ result = "Complete"
                         THEN [active |-> TRUE, next |-> lba + 1] ELSE stream
          /\ Enqueue(IF result = "Complete" THEN <<R1(TRUE), DataBlock(lba)>> ELSE <<R1(TRUE)>>)
  BY DEF ExecuteRead
<1>7. /\ tx' = IF result = "Complete" THEN <<R1(TRUE), DataBlock(lba)>> ELSE <<R1(TRUE)>>
      /\ tx' \in Seq(Items) /\ Used(tx') <= TransmitCapacity
      /\ tx' # <<>> /\ tx' # <<Verdict("Accepted")>>
  BY <1>1, <1>2, <1>6, OpeningAnswers DEF Enqueue, SdInv
<1>8. /\ pendingRead' \in [active : BOOLEAN, multi : BOOLEAN, lba : Lbas]
      /\ stream' \in [active : BOOLEAN, next : 0 .. CardBlocks]
      /\ pendingRead'.active <=> result = "Pending"
      /\ pendingRead'.multi <=> command = "ReadMulti"
      /\ pendingRead'.lba = lba
      /\ stream'.active => command = "ReadMulti" /\ result = "Complete" /\ stream'.next = lba + 1
  <2>1. /\ pendingRead' = [active |-> result = "Pending", multi |-> command = "ReadMulti",
                           lba |-> lba]
        /\ (result = "Pending") \in BOOLEAN /\ (command = "ReadMulti") \in BOOLEAN
    BY <1>6 DEF Deferred
  <2>2. CASE command = "ReadMulti" /\ result = "Complete"
    <3>1. stream' = [active |-> TRUE, next |-> lba + 1] /\ lba + 1 \in 0 .. CardBlocks
      BY <1>2, <1>6, <2>2 DEF Lbas
    <3> QED
      BY <1>2, <2>1, <2>2, <3>1
  <2>3. CASE ~(command = "ReadMulti" /\ result = "Complete")
    <3>1. stream' = stream
      BY <1>6, <2>3
    <3> QED
      BY <1>1, <1>2, <2>1, <3>1 DEF SdInv, SdTypeOK
  <2> QED
    BY <2>2, <2>3
<1>9. client' \in [awaits : {"Nothing", "R1", "Block", "Register", "Frame", "Verdict", "Release"},
                   command : Commands, lba : 0 .. CardBlocks, data : Payloads]
  BY <1>5 DEF Commands
<1>10. SdTypeOK'
  BY <1>1, <1>3, <1>4, <1>7, <1>8, <1>9 DEF SdInv, SdTypeOK, CommandSent, CardStates
<1>11. AnswersMatch'
  BY <1>5, <1>7 DEF AnswersMatch, CommandSent, DataBlock
<1>12. ReadInv' /\ StreamInv'
  BY <1>1, <1>3, <1>5, <1>7, <1>8 DEF ReadInv, StreamInv, CommandSent, DataBlock
<1>13. QueuedInv'
  <2>1. late' = late /\ (result = "Complete" => Settled(DataBlock(lba), late))
    BY <1>6, SettledItems DEF StoreRead, storeVars
  <2> QED
    BY <1>7, <2>1, SettledItems, ShortQueueSettled
<1> QED
  BY <1>1, <1>3, <1>4, <1>5, <1>7, <1>10, <1>11, <1>12, <1>13 DEF SdInv, SelectInv, WriteInv, FramerInv,
     DeferredWriteInv, StoredInv, CommandSent

LEMMA WriteKeeps ==
    ASSUME SdInv, NEW command \in {"Write", "WriteMulti"}, NEW lba \in 0 .. CardBlocks,
           CommandSent(command, lba), select = "Selected",
           ExecuteWrite(command, lba), framer' = ModeAfter(command), UNCHANGED pendingWrite
    PROVE  SdInv'
<1>1. /\ tx = <<>> /\ ~stream.active /\ ~pendingRead.active
      /\ framer = "Idle" /\ pendingWrite = NoBlock
  BY CardIsFree
<1>2. lba \in Lbas
  BY DEF ExecuteWrite, AddressValid, SdInv, SdTypeOK, Lbas
<1>3. card' = "ReceivingData" /\ app' = FALSE /\ UNCHANGED <<stream, pendingRead>>
  BY DEF ExecuteWrite, InTransfer, After, From, Into
<1>4. /\ writing' = [lba |-> lba, multi |-> command = "WriteMulti"]
      /\ writing' \in [lba : 0 .. CardBlocks, multi : BOOLEAN]
      /\ writing'.lba = lba /\ (writing'.multi <=> command = "WriteMulti")
  BY <1>2 DEF ExecuteWrite, Lbas
<1>5. framer' = IF command = "WriteMulti" THEN "Multi" ELSE "Single"
  BY <1>3 DEF ModeAfter
<1>6. /\ client' = [awaits |-> "R1", command |-> command, lba |-> lba, data |-> Blank]
      /\ client'.awaits = "R1" /\ client'.command = command /\ client'.lba = lba
  BY DEF CommandSent
<1>7. /\ tx' = <<R1(TRUE)>>
      /\ tx' \in Seq(Items) /\ Used(tx') <= TransmitCapacity
      /\ tx' # <<>> /\ tx' # <<Verdict("Accepted")>>
  BY <1>1, OpeningAnswers DEF ExecuteWrite, Enqueue, SdInv
<1>8. client' \in [awaits : {"Nothing", "R1", "Block", "Register", "Frame", "Verdict", "Release"},
                   command : Commands, lba : 0 .. CardBlocks, data : Payloads]
  BY <1>6 DEF Commands
<1>9. SdTypeOK'
  BY <1>1, <1>3, <1>4, <1>5, <1>7, <1>8 DEF SdInv, SdTypeOK, CommandSent, CardStates
<1>10. AnswersMatch'
  BY <1>6, <1>7 DEF AnswersMatch
<1>11. WriteInv'
  BY <1>2, <1>3, <1>4, <1>5, <1>6, <1>7 DEF WriteInv, SameWrite, Mode, CommandSent
<1>12. QueuedInv'
  BY <1>7, SettledItems, ShortQueueSettled
<1> QED
  BY <1>1, <1>3, <1>5, <1>6, <1>7, <1>9, <1>10, <1>11, <1>12 DEF SdInv, SelectInv, ReadInv, StreamInv,
     FramerInv, DeferredWriteInv, StoredInv, CommandSent

LEMMA SendCommandKeeps ==
    ASSUME SdInv, NEW command \in Commands, NEW lba \in 0 .. CardBlocks,
           SendCommand(command, lba)
    PROVE  SdInv'
<1>1. /\ select # "Released"
      /\ \/ client.awaits = "Nothing"
         \/ client.awaits = "Block" /\ command = "Stop"
      /\ client' = [awaits |-> "R1", command |-> command, lba |-> lba, data |-> Blank]
      /\ UNCHANGED <<exposed, select>>
  BY DEF SendCommand
<1>2. CASE select = "Selected" /\ framer = "Idle"
  <2>1. Execute(command, lba)
    BY <1>2 DEF SendCommand
  <2>2. UNCHANGED <<disk, late>>
    BY <2>1 DEF Execute, ExecuteSimple, ExecuteGoIdle, ExecuteSendOp, ExecuteStop, ExecuteRead,
       ExecuteWrite, StoreRead, storeVars
  <2>3. CommandSent(command, lba)
    BY <1>1, <2>2 DEF CommandSent
  <2> QED
    BY <1>2, <2>1, <2>3, SimpleKeeps, ControlKeeps, ReadKeeps, WriteKeeps DEF Execute
<1>3. CASE ~(select = "Selected" /\ framer = "Idle")
  <2>1. UNCHANGED <<card, app, stream, pendingRead, writing, framer, pendingWrite, tx, disk, late>>
    BY <1>3 DEF SendCommand, modelVars, engineVars, storeVars
  <2>2. select = "TimedOut"
    BY <1>1, <1>3 DEF SdInv, SdTypeOK, FramerInv
  <2>3. /\ ~stream.active /\ ~pendingRead.active
        /\ card # "ReceivingData" /\ framer = "Idle" /\ pendingWrite = NoBlock
    BY <2>2 DEF SdInv, StreamInv, ReadInv, WriteInv, FramerInv, DeferredWriteInv
  <2>4. CommandSent(command, lba)
    BY <1>1, <2>1 DEF CommandSent
  <2>5. client' \in [awaits : {"Nothing", "R1", "Block", "Register", "Frame", "Verdict", "Release"},
                     command : Commands, lba : 0 .. CardBlocks, data : Payloads]
    BY <1>1
  <2>6. SdTypeOK'
    BY <1>1, <2>1, <2>5 DEF SdInv, SdTypeOK
  <2>7. tx = <<>>
    BY <2>2 DEF SdInv, SelectInv
  <2>8. AnswersMatch' /\ tx' # <<Verdict("Accepted")>>
    BY <2>1, <2>7, <1>1, NotAccepted DEF AnswersMatch
  <2>9. QueuedInv'
    BY <2>1, <2>7, ShortQueueSettled
  <2> QED
    BY <1>1, <2>1, <2>2, <2>3, <2>6, <2>8, <2>9 DEF SdInv, SelectInv, ReadInv, StreamInv, WriteInv,
       FramerInv, DeferredWriteInv, StoredInv
<1> QED
  BY <1>2, <1>3

LEMMA DamagedCommandKeeps == ASSUME SdInv, DamagedCommand PROVE SdInv'
<1>1. /\ select = "Selected" /\ framer = "Idle" /\ client.awaits = "Nothing"
      /\ tx' = Enqueued(tx, <<R1(FALSE)>>)
      /\ client' = [awaits |-> "R1", command |-> "Stop", lba |-> 0, data |-> Blank]
      /\ UNCHANGED <<card, app, stream, pendingRead, writing, framer, pendingWrite, exposed, select,
                     disk, late>>
  BY DEF DamagedCommand, Enqueue, Awaiting, modelVars, engineVars, storeVars
<1>2. CommandSent("Stop", 0) /\ "Stop" \in Commands /\ 0 \in 0 .. CardBlocks
  BY <1>1 DEF CommandSent, Commands
<1>3. ~stream.active /\ ~pendingRead.active
  BY <1>1 DEF SdInv, StreamInv, ReadInv
<1> QED
  BY <1>1, <1>2, <1>3, CardIsFree, AnsweredKeeps DEF SdInv, SdTypeOK

-----------------------------------------------------------------------------
LEMMA VerdictsFit ==
    \A v \in {"Accepted", "CrcError", "WriteError"} :
        /\ Enqueued(<<>>, <<Verdict(v)>>) = <<Verdict(v)>>
        /\ <<Verdict(v)>> \in Seq(Items) /\ Used(<<Verdict(v)>>) <= TransmitCapacity
        /\ <<Verdict(v)>> # <<>>
        /\ v # "Accepted" => <<Verdict(v)>> # <<Verdict("Accepted")>>
<1> SUFFICES ASSUME NEW v \in {"Accepted", "CrcError", "WriteError"}
             PROVE  /\ Enqueued(<<>>, <<Verdict(v)>>) = <<Verdict(v)>>
                    /\ <<Verdict(v)>> \in Seq(Items) /\ Used(<<Verdict(v)>>) <= TransmitCapacity
                    /\ <<Verdict(v)>> # <<>>
                    /\ v # "Accepted" => <<Verdict(v)>> # <<Verdict("Accepted")>>
  OBVIOUS
<1>1. Verdict(v) \in Items /\ Verdict(v).verdict = v /\ Verdict("Accepted").verdict = "Accepted"
  BY ItemTypes
<1>2. ASSUME <<Verdict(v)>> = <<Verdict("Accepted")>> PROVE v = "Accepted"
  <2>1. Verdict(v) = Verdict("Accepted")
    BY <1>2
  <2> QED
    BY <1>1, <2>1
<1> QED
  BY <1>1, <1>2, AnswersFit, ShortQueues

\* A refused block: the client has its verdict, the medium is as it was.
LEMMA RefusedKeeps ==
    ASSUME SdInv, select = "Selected", tx = <<>>, client'.awaits = "Verdict",
           NEW data \in Payloads, client' = [client EXCEPT !.awaits = "Verdict", !.data = data],
           NEW v \in {"CrcError", "WriteError"}, tx' = Enqueued(tx, <<Verdict(v)>>),
           ~stream.active, ~pendingRead.active, pendingWrite' = NoBlock,
           framer' # "Idle" => framer' = "Multi" /\ client.command = "WriteMulti",
           framer' \in {"Idle", "Multi"},
           card' \in {card, "Fault"},
           UNCHANGED <<app, stream, pendingRead, writing, exposed, select, disk, late>>
    PROVE  SdInv'
<1>1. /\ tx' = <<Verdict(v)>> /\ tx' # <<>> /\ tx' # <<Verdict("Accepted")>>
      /\ tx' \in Seq(Items) /\ Used(tx') <= TransmitCapacity
  BY VerdictsFit
<1>2. /\ client' \in [awaits : {"Nothing", "R1", "Block", "Register", "Frame", "Verdict", "Release"},
                      command : Commands, lba : 0 .. CardBlocks, data : Payloads]
      /\ client'.command = client.command
  BY DEF SdInv, SdTypeOK
<1>3. SdTypeOK'
  BY <1>1, <1>2 DEF SdInv, SdTypeOK, CardStates
<1>4. AnswersMatch'
  BY <1>1 DEF AnswersMatch
<1>5. WriteInv'
  BY <1>1 DEF SdInv, WriteInv
<1>6. QueuedInv'
  BY <1>1, SettledItems, ShortQueueSettled
<1> QED
  BY <1>1, <1>2, <1>3, <1>4, <1>5, <1>6 DEF SdInv, SelectInv, ReadInv, StreamInv, FramerInv,
     DeferredWriteInv, StoredInv

\* A block the backend takes its time for stays with the engine.
LEMMA DeferredKeeps ==
    ASSUME SdInv, select = "Selected", tx = <<>>, card = "ReceivingData",
           NEW data \in Payloads, client' = [client EXCEPT !.awaits = "Verdict", !.data = data],
           pendingWrite' = data, ~stream.active, ~pendingRead.active,
           SameWrite, writing.lba \in Lbas, framer' = (IF writing.multi THEN "Multi" ELSE "Idle"),
           late' \in {late, late \cup {<<writing.lba, data>>}},
           UNCHANGED <<card, app, stream, pendingRead, writing, exposed, tx, select, disk>>
    PROVE  SdInv'
<1>1. /\ client' \in [awaits : {"Nothing", "R1", "Block", "Register", "Frame", "Verdict", "Release"},
                      command : Commands, lba : 0 .. CardBlocks, data : Payloads]
      /\ client'.command = client.command /\ client'.lba = client.lba
      /\ client'.data = data /\ client'.awaits = "Verdict"
  BY DEF SdInv, SdTypeOK
<1>2. late' \in SUBSET (Lbas \X Payloads)
  BY DEF SdInv, SdTypeOK
<1>3. SdTypeOK'
  BY <1>1, <1>2 DEF SdInv, SdTypeOK
<1>4. AnswersMatch' /\ tx' # <<Verdict("Accepted")>>
  BY <1>1, NotAccepted DEF AnswersMatch
<1>5. SameWrite' /\ WriteInv'
  BY <1>1 DEF SameWrite, WriteInv
<1>6. QueuedInv'
  BY ShortQueueSettled
<1> QED
  BY <1>1, <1>3, <1>4, <1>5, <1>6 DEF SdInv, SelectInv, ReadInv, StreamInv, FramerInv, SameWrite,
     DeferredWriteInv, StoredInv

\* A block the backend has stored is accepted, and nothing it still holds for
\* another transaction can overwrite it.
LEMMA AcceptedKeeps ==
    ASSUME SdInv, select = "Selected", tx = <<>>, card = "ReceivingData",
           NEW data \in Payloads, client' = [client EXCEPT !.awaits = "Verdict", !.data = data],
           ~stream.active, ~pendingRead.active,
           SameWrite, writing.lba \in Lbas, framer' = (IF writing.multi THEN "Multi" ELSE "Idle"),
           pendingWrite' = NoBlock, Advance, tx' = Enqueued(tx, <<Verdict("Accepted")>>),
           disk' = [disk EXCEPT ![writing.lba] = data],
           late' = {write \in late : write[1] # writing.lba},
           UNCHANGED <<app, stream, pendingRead, exposed, select>>
    PROVE  SdInv'
<1>1. /\ tx' = <<Verdict("Accepted")>> /\ tx' # <<>>
      /\ tx' \in Seq(Items) /\ Used(tx') <= TransmitCapacity
  BY VerdictsFit
<1>2. /\ client' \in [awaits : {"Nothing", "R1", "Block", "Register", "Frame", "Verdict", "Release"},
                      command : Commands, lba : 0 .. CardBlocks, data : Payloads]
      /\ client'.command = client.command /\ client'.lba = client.lba
      /\ client'.data = data /\ client'.awaits = "Verdict"
  BY DEF SdInv, SdTypeOK
<1>3. /\ disk' \in [Lbas -> Payloads] /\ disk'[client'.lba] = data
      /\ client'.lba \in Lbas
      /\ late' \in SUBSET (Lbas \X Payloads)
      /\ \A write \in late' : write[1] # client'.lba
  BY <1>2 DEF SdInv, SdTypeOK, SameWrite
<1>4. Committed = "Transfer" /\ After(Committed, "begin_receiving_data") = "ReceivingData"
  BY DEF Committed, After, From, Into
<1>5. /\ writing' \in [lba : 0 .. CardBlocks, multi : BOOLEAN]
      /\ \/ card' = "Transfer"
         \/ /\ card' = "ReceivingData" /\ writing.multi
            /\ writing'.multi /\ writing'.lba = writing.lba + 1 /\ writing'.lba \in Lbas
  <2>1. CASE ~writing.multi
    BY <1>4, <2>1 DEF Advance, SdInv, SdTypeOK
  <2>2. CASE writing.multi
    <3>1. PICK more \in BOOLEAN : more <=> writing.lba + 1 < exposed
      OBVIOUS
    <3>2. /\ writing' = [lba |-> writing.lba + 1, multi |-> more]
          /\ card' = IF more THEN "ReceivingData" ELSE "Transfer"
      BY <1>4, <2>2, <3>1 DEF Advance, AddressValid
    <3>3. writing.lba + 1 \in 0 .. CardBlocks /\ (more => writing.lba + 1 \in Lbas)
      BY <3>1 DEF Lbas, SdInv, SdTypeOK
    <3> QED
      BY <2>2, <3>2, <3>3
  <2> QED
    BY <2>1, <2>2
<1>6. SdTypeOK'
  BY <1>1, <1>2, <1>3, <1>5 DEF SdInv, SdTypeOK, CardStates
<1>7. AnswersMatch'
  BY <1>1, <1>2 DEF AnswersMatch
<1>8. WriteInv'
  BY <1>1, <1>2, <1>5 DEF WriteInv, SameWrite
<1>9. StoredInv'
  BY <1>2, <1>3 DEF StoredInv, Stands
<1>10. QueuedInv'
  BY <1>1, SettledItems, ShortQueueSettled
<1> QED
  BY <1>1, <1>2, <1>6, <1>7, <1>8, <1>9, <1>10 DEF SdInv, SelectInv, ReadInv, StreamInv, FramerInv,
     SameWrite, DeferredWriteInv

LEMMA WriteBlockKeeps ==
    ASSUME SdInv, select = "Selected", tx = <<>>,
           NEW data \in Payloads, client' = [client EXCEPT !.awaits = "Verdict", !.data = data],
           ~stream.active, ~pendingRead.active,
           card = "ReceivingData" =>
               /\ SameWrite /\ writing.lba \in Lbas
               /\ framer' = (IF writing.multi THEN "Multi" ELSE "Idle"),
           framer' # "Idle" => framer' = "Multi" /\ client.command = "WriteMulti",
           framer' \in {"Idle", "Multi"},
           WriteBlock(data),
           UNCHANGED <<app, stream, pendingRead, exposed, select>>
    PROVE  SdInv'
<1>1. client'.awaits = "Verdict"
  BY DEF SdInv, SdTypeOK
<1>2. CASE card # "ReceivingData"
  <2>1. /\ pendingWrite' = NoBlock
        /\ tx' = Enqueued(tx, <<Verdict("CrcError")>>)
        /\ UNCHANGED <<card, writing, disk, late>>
    BY <1>2 DEF WriteBlock, Enqueue, storeVars
  <2> QED
    BY <1>1, <2>1, RefusedKeeps
<1>3. CASE card = "ReceivingData"
  <2>1. PICK result \in ReadResults :
          /\ StoreWrite(writing.lba, data, result)
          /\ \/ /\ Accepted(result)
                /\ pendingWrite' = NoBlock
                /\ Advance
                /\ Enqueue(<<Verdict("Accepted")>>)
             \/ /\ result = "Failed"
                /\ pendingWrite' = NoBlock
                /\ card' = After(card, "fault")
                /\ Enqueue(<<Verdict("WriteError")>>)
                /\ UNCHANGED writing
             \/ /\ result = "Pending" /\ ~Accepted(result)
                /\ pendingWrite' = Remembered(data)
                /\ UNCHANGED <<card, writing, tx>>
    BY <1>3 DEF WriteBlock
  <2>2. CASE result = "Complete"
    <3>1. /\ disk' = [disk EXCEPT ![writing.lba] = data]
          /\ late' = {write \in late : write[1] # writing.lba}
      BY <2>1, <2>2 DEF StoreWrite
    <3>2. /\ pendingWrite' = NoBlock /\ Advance
          /\ tx' = Enqueued(tx, <<Verdict("Accepted")>>)
      BY <2>1, <2>2 DEF Enqueue
    <3> QED
      BY <1>3, <3>1, <3>2, AcceptedKeeps
  <2>3. CASE result = "Failed"
    <3>1. UNCHANGED <<disk, late>>
      BY <2>1, <2>3 DEF StoreWrite, storeVars
    <3>2. /\ pendingWrite' = NoBlock /\ card' = "Fault"
          /\ tx' = Enqueued(tx, <<Verdict("WriteError")>>)
          /\ UNCHANGED writing
      <4>1. card' = After(card, "fault")
        BY <2>1, <2>3 DEF Accepted
      <4>2. card' = "Fault"
        BY <1>3, <4>1 DEF After, From, Into, CardStates
      <4> QED
        BY <2>1, <2>3, <4>2 DEF Enqueue, Accepted
    <3> QED
      BY <1>1, <3>1, <3>2, RefusedKeeps
  <2>4. CASE result = "Pending"
    <3>1. late' \in {late, late \cup {<<writing.lba, data>>}} /\ UNCHANGED disk
      BY <2>1, <2>4 DEF StoreWrite
    <3>2. pendingWrite' = data /\ UNCHANGED <<card, writing, tx>>
      BY <2>1, <2>4 DEF Accepted, Remembered
    <3> QED
      BY <1>3, <3>1, <3>2, DeferredKeeps
  <2> QED
    BY <2>2, <2>3, <2>4 DEF ReadResults
<1> QED
  BY <1>2, <1>3

LEMMA SendDataKeeps == ASSUME SdInv, NEW data \in Payloads, SendData(data) PROVE SdInv'
<1>1. /\ select = "Selected" /\ framer # "Idle" /\ client.awaits = "Frame"
      /\ client' = [client EXCEPT !.awaits = "Verdict", !.data = data]
      /\ framer' = FramerAfterBlock
      /\ WriteBlock(data)
      /\ UNCHANGED <<app, stream, pendingRead, exposed, select>>
  BY DEF SendData
<1>2. tx = <<>>
  BY <1>1 DEF SdInv, AnswersMatch
<1>3. ~stream.active /\ ~pendingRead.active
  BY <1>1 DEF SdInv, StreamInv, ReadInv
<1>4. /\ framer' \in {"Idle", "Multi"}
      /\ framer' # "Idle" => framer' = "Multi" /\ client.command = "WriteMulti"
  BY <1>1 DEF FramerAfterBlock, SdInv, FramerInv
<1>5. card = "ReceivingData" =>
          /\ SameWrite /\ writing.lba \in Lbas
          /\ framer' = (IF writing.multi THEN "Multi" ELSE "Idle")
  BY <1>1 DEF FramerAfterBlock, SdInv, WriteInv, Mode
<1> QED
  BY <1>1, <1>2, <1>3, <1>4, <1>5, WriteBlockKeeps

LEMMA DamagedDataKeeps == ASSUME SdInv, DamagedData PROVE SdInv'
<1>1. /\ select = "Selected" /\ framer # "Idle" /\ client.awaits = "Frame"
      /\ client' = [client EXCEPT !.awaits = "Verdict"]
      /\ framer' = FramerAfterBlock
      /\ tx' = Enqueued(tx, <<Verdict("CrcError")>>)
      /\ UNCHANGED <<card, app, stream, pendingRead, writing, pendingWrite, exposed, select,
                     disk, late>>
  BY DEF DamagedData, Enqueue, modelVars, storeVars
<1>2. tx = <<>>
  BY <1>1 DEF SdInv, AnswersMatch
<1>3. ~stream.active /\ ~pendingRead.active /\ pendingWrite' = NoBlock
  BY <1>1 DEF SdInv, StreamInv, ReadInv, DeferredWriteInv
<1>4. /\ framer' \in {"Idle", "Multi"}
      /\ framer' # "Idle" => framer' = "Multi" /\ client.command = "WriteMulti"
  BY <1>1 DEF FramerAfterBlock, SdInv, FramerInv
<1>5. /\ client.data \in Payloads /\ client'.awaits = "Verdict"
      /\ client' = [client EXCEPT !.awaits = "Verdict", !.data = client.data]
  BY <1>1 DEF SdInv, SdTypeOK
<1> QED
  BY <1>1, <1>2, <1>3, <1>4, <1>5, RefusedKeeps

LEMMA SendStopTokenKeeps == ASSUME SdInv, SendStopToken PROVE SdInv'
<1>1. /\ select = "Selected" /\ framer = "Multi" /\ client.awaits = "Frame"
      /\ client' = Awaiting("Nothing") /\ framer' = "Idle"
      /\ writing' = [writing EXCEPT !.multi = FALSE]
      /\ card' = IF writing.multi THEN After(card, "finish_receiving_data") ELSE card
      /\ UNCHANGED <<app, stream, pendingRead, pendingWrite, exposed, tx, select, disk, late>>
  BY DEF SendStopToken, storeVars
<1>2. tx = <<>>
  BY <1>1 DEF SdInv, AnswersMatch
<1>3. ~stream.active /\ ~pendingRead.active /\ pendingWrite' = NoBlock
  BY <1>1 DEF SdInv, StreamInv, ReadInv, DeferredWriteInv
<1>4. card' \in CardStates \ {"Busy", "ReceivingData"}
  <2>1. card = "ReceivingData" => writing.multi
    BY <1>1 DEF SdInv, WriteInv, Mode
  <2> QED
    BY <1>1, <2>1 DEF SdInv, SdTypeOK, CardStates, After, From, Into
<1>5. /\ client' \in [awaits : {"Nothing", "R1", "Block", "Register", "Frame", "Verdict", "Release"},
                      command : Commands, lba : 0 .. CardBlocks, data : Payloads]
      /\ client'.awaits = "Nothing"
  BY <1>1 DEF Awaiting, Commands
<1>6. writing' \in [lba : 0 .. CardBlocks, multi : BOOLEAN]
  BY <1>1 DEF SdInv, SdTypeOK
<1>7. SdTypeOK'
  BY <1>1, <1>4, <1>5, <1>6 DEF SdInv, SdTypeOK
<1>8. AnswersMatch' /\ tx' # <<Verdict("Accepted")>>
  BY <1>1, <1>2, <1>5, NotAccepted DEF AnswersMatch
<1>9. QueuedInv'
  BY <1>1, <1>2, ShortQueueSettled
<1> QED
  BY <1>1, <1>3, <1>4, <1>5, <1>7, <1>8, <1>9 DEF SdInv, SelectInv, ReadInv, StreamInv, WriteInv,
     FramerInv, DeferredWriteInv, StoredInv
-----------------------------------------------------------------------------
\* The engine asks the backend again for the read the client waits for.
LEMMA RetryReadKeeps ==
    ASSUME SdInv, select = "Selected", tx = <<>>, RetryRead, UNCHANGED <<exposed, select, client>>
    PROVE  SdInv'
<1>1. /\ card = "Transfer" /\ ~stream.active /\ pendingWrite = NoBlock
      /\ client.command \in {"Read", "ReadMulti"}
      /\ client.lba = pendingRead.lba
      /\ pendingRead.multi <=> client.command = "ReadMulti"
      /\ client.awaits = "Block"
  BY DEF RetryRead, SdInv, ReadInv
<1>2. pendingRead.lba \in Lbas /\ pendingRead.multi \in BOOLEAN
  BY DEF SdInv, SdTypeOK
<1>3. PICK result \in ReadResults :
          /\ StoreRead(pendingRead.lba, result)
          /\ pendingRead' = [pendingRead EXCEPT !.active = Deferred(result)]
          /\ stream' = IF result = "Complete" /\ pendingRead.multi
                         THEN [active |-> TRUE, next |-> pendingRead.lba + 1] ELSE stream
          /\ card' = IF result = "Failed" THEN After(card, "fault") ELSE card
          /\ Enqueue(IF result = "Complete" THEN <<DataBlock(pendingRead.lba)>> ELSE <<>>)
  BY DEF RetryRead
<1>4. UNCHANGED <<app, writing, framer, pendingWrite, disk, late>>
  BY DEF RetryRead, engineVars, StoreRead, storeVars
<1>5. framer = "Idle"
  BY <1>1 DEF SdInv, FramerInv
<1>6. /\ pendingRead' \in [active : BOOLEAN, multi : BOOLEAN, lba : Lbas]
      /\ pendingRead'.active <=> result = "Pending"
      /\ pendingRead'.multi = pendingRead.multi /\ pendingRead'.lba = pendingRead.lba
  <2>1. (result = "Pending") \in BOOLEAN
    OBVIOUS
  <2> QED
    BY <1>3, <2>1 DEF Deferred, SdInv, SdTypeOK
<1>7. card' = IF result = "Failed" THEN "Fault" ELSE "Transfer"
  BY <1>1, <1>3 DEF After, From, Into, CardStates
<1>8. /\ stream' \in [active : BOOLEAN, next : 0 .. CardBlocks]
      /\ stream'.active => /\ result = "Complete" /\ client.command = "ReadMulti"
                           /\ stream'.next = client.lba + 1
  <2>1. CASE result = "Complete" /\ pendingRead.multi
    <3>1. stream' = [active |-> TRUE, next |-> pendingRead.lba + 1]
      BY <1>3, <2>1
    <3>2. pendingRead.lba + 1 \in 0 .. CardBlocks
      BY <1>2 DEF Lbas
    <3> QED
      BY <1>1, <2>1, <3>1, <3>2
  <2>2. CASE ~(result = "Complete" /\ pendingRead.multi)
    BY <1>1, <1>3, <2>2 DEF SdInv, SdTypeOK
  <2> QED
    BY <2>1, <2>2
<1>9. /\ tx' = IF result = "Complete" THEN <<DataBlock(client.lba)>> ELSE <<>>
      /\ tx' \in Seq(Items) /\ Used(tx') <= TransmitCapacity
      /\ tx' # <<Verdict("Accepted")>>
  <2>1. /\ DataBlock(client.lba) \in Items /\ DataBlock(client.lba).type = "Block"
    BY <1>1, <1>2, BlockIsItem DEF SdInv
  <2>2. tx' = IF result = "Complete" THEN <<DataBlock(client.lba)>> ELSE <<>>
    BY <1>1, <1>3, <2>1, AnswersFit DEF Enqueue
  <2> QED
    BY <2>1, <2>2, ShortQueues, NotAccepted
<1>10. SdTypeOK'
  BY <1>4, <1>6, <1>7, <1>8, <1>9 DEF SdInv, SdTypeOK, CardStates
<1>11. AnswersMatch'
  BY <1>1, <1>4, <1>9 DEF AnswersMatch, DataBlock
<1>12. ReadInv' /\ StreamInv'
  BY <1>1, <1>4, <1>6, <1>7, <1>8, <1>9 DEF ReadInv, StreamInv, DataBlock
<1>13. QueuedInv'
  <2>1. result = "Complete" => Settled(DataBlock(client.lba), late)
    BY <1>1, <1>3, SettledItems DEF StoreRead
  <2> QED
    BY <1>4, <1>9, <2>1, ShortQueueSettled
<1> QED
  BY <1>1, <1>4, <1>5, <1>7, <1>9, <1>10, <1>11, <1>12, <1>13 DEF SdInv, SelectInv, WriteInv, FramerInv,
     DeferredWriteInv, StoredInv

LEMMA PollPendingIoKeeps == ASSUME SdInv, PollPendingIo PROVE SdInv'
<1>1. select = "Selected" /\ tx = <<>> /\ UNCHANGED <<exposed, select, client>>
  BY DEF PollPendingIo
<1>2. CASE RetryRead
  BY <1>1, <1>2, RetryReadKeeps
<1>3. CASE RetryWrite
  <2>1. /\ ~pendingRead.active /\ pendingWrite # NoBlock
        /\ WriteBlock(pendingWrite)
        /\ UNCHANGED <<app, stream, pendingRead, framer>>
    BY <1>3 DEF RetryWrite
  <2>2. /\ card = "ReceivingData" /\ client.awaits = "Verdict"
        /\ pendingWrite \in Payloads
    BY <2>1 DEF SdInv, DeferredWriteInv, SdTypeOK
  <2>3. ~stream.active
    BY <2>2 DEF SdInv, StreamInv
  <2>4. tx # <<Verdict("Accepted")>> /\ tx \notin {<<Verdict("CrcError")>>, <<Verdict("WriteError")>>}
    BY <1>1, NotAccepted
  <2>5. /\ SameWrite /\ framer = (IF writing.multi THEN "Multi" ELSE "Idle")
        /\ pendingWrite = client.data /\ writing.lba \in Lbas
    BY <2>2, <2>4 DEF SdInv, WriteInv
  <2>6. client' = [client EXCEPT !.awaits = "Verdict", !.data = pendingWrite]
    BY <1>1, <2>2, <2>5 DEF SdInv, SdTypeOK
  <2>7. /\ framer' \in {"Idle", "Multi"}
        /\ framer' # "Idle" => framer' = "Multi" /\ client.command = "WriteMulti"
    BY <2>1, <2>5 DEF SameWrite
  <2> QED
    BY <1>1, <2>1, <2>2, <2>3, <2>5, <2>6, <2>7, WriteBlockKeeps
<1> QED
  BY <1>2, <1>3 DEF PollPendingIo

-----------------------------------------------------------------------------
\* What is left of the queue, and what the client waits for next, as the oldest
\* item is clocked out.
LEMMA Heads ==
    /\ \A a : Head(<<a>>) = a /\ Tail(<<a>>) = <<>> /\ <<a>> # <<>>
    /\ \A a, b : Head(<<a, b>>) = a /\ Tail(<<a, b>>) = <<b>> /\ <<a, b>> # <<>>
    /\ \A a, b, c : <<a>> # <<b, c>>
OBVIOUS

LEMMA RefillLeavesStore == Refill => UNCHANGED storeVars
BY DEF Refill, StoreRead

ClockedOut ==
    /\ select = "Selected" /\ tx # <<>>
    /\ client' = ClientAfter(Head(tx))
    /\ UNCHANGED <<card, app, pendingRead, writing, framer, pendingWrite, exposed, select, disk, late>>

LEMMA ClockedKeeps ==
    ASSUME SdInv, ClockedOut,
           client' \in [awaits : {"Nothing", "R1", "Block", "Register", "Frame", "Verdict", "Release"},
                        command : Commands, lba : 0 .. CardBlocks, data : Payloads],
           tx' \in Seq(Items), Used(tx') <= TransmitCapacity, tx' # <<Verdict("Accepted")>>,
           client'.awaits = "R1" => tx' # <<>>,
           stream' \in [active : BOOLEAN, next : 0 .. CardBlocks],
           AnswersMatch', ReadInv', StreamInv', WriteInv', FramerInv', QueuedInv'
    PROVE  SdInv'
<1>1. pendingWrite = NoBlock
  BY DEF ClockedOut, SdInv, DeferredWriteInv
<1>2. SdTypeOK'
  BY DEF ClockedOut, SdInv, SdTypeOK
<1> QED
  BY <1>1, <1>2 DEF ClockedOut, SdInv, SelectInv, DeferredWriteInv, StoredInv

LEMMA AwaitingFits ==
    ASSUME NEW what \in {"Nothing", "Release"}
    PROVE  /\ Awaiting(what).awaits = what
           /\ Awaiting(what) \in
                  [awaits : {"Nothing", "R1", "Block", "Register", "Frame", "Verdict", "Release"},
                   command : Commands, lba : 0 .. CardBlocks, data : Payloads]
BY DEF Awaiting, Commands

\* A response taken on its own: what it opened goes on.
LEMMA ResponseTaken ==
    ASSUME SdInv, ClockOut, client.awaits = "R1", NEW ok \in BOOLEAN, tx = <<R1(ok)>>
    PROVE  SdInv'
<1>1. /\ R1(ok).type = "R1" /\ R1(ok).ok = ok /\ Head(tx) = R1(ok) /\ Tail(tx) = <<>>
  BY ItemTypes, Heads
<1>2. ~stream.active
  BY Heads DEF SdInv, StreamInv
<1>3. tx' = <<>> /\ UNCHANGED stream
  BY <1>1, <1>2 DEF ClockOut, Refill
<1>4. ClockedOut
  BY RefillLeavesStore DEF ClockOut, ClockedOut, engineVars, storeVars
<1>5. /\ tx' \in Seq(Items) /\ Used(tx') <= TransmitCapacity /\ tx' # <<Verdict("Accepted")>>
      /\ QueuedInv'
  BY <1>3, ShortQueues, NotAccepted, ShortQueueSettled
<1>6. stream' \in [active : BOOLEAN, next : 0 .. CardBlocks] /\ StreamInv'
  BY <1>2, <1>3 DEF SdInv, SdTypeOK, StreamInv
<1>7. ~ok => card # "ReceivingData" /\ ~pendingRead.active
  <2>1. ASSUME ~ok PROVE tx # <<R1(TRUE)>>
    <3>1. R1(ok) # R1(TRUE)
      BY <2>1 DEF R1
    <3> QED
      BY <3>1
  <2> QED
    BY <2>1 DEF SdInv, WriteInv, ReadInv
<1>8. /\ card = "ReceivingData" => writing.lba \in Lbas /\ SameWrite /\ framer = Mode
      /\ framer # "Idle" => card = "ReceivingData"
  BY DEF SdInv, WriteInv, FramerInv
<1>9. /\ pendingRead.active =>
             /\ card = "Transfer" /\ pendingWrite = NoBlock
             /\ client.command \in {"Read", "ReadMulti"} /\ client.lba = pendingRead.lba
             /\ pendingRead.multi <=> client.command = "ReadMulti"
  BY DEF SdInv, ReadInv
<1>10. client' =
         IF ~ok THEN Awaiting("Nothing")
         ELSE IF client.command \in {"Read", "ReadMulti"} THEN [client EXCEPT !.awaits = "Block"]
         ELSE IF client.command = "ReadReg" THEN [client EXCEPT !.awaits = "Register"]
         ELSE IF client.command \in {"Write", "WriteMulti"} THEN [client EXCEPT !.awaits = "Frame"]
         ELSE Awaiting("Nothing")
  BY <1>1 DEF ClockOut, ClientAfter
<1>11. CASE ok /\ client.command \in {"Read", "ReadMulti"}
  <2>1. /\ client' = [client EXCEPT !.awaits = "Block"]
        /\ client' \in [awaits : {"Nothing", "R1", "Block", "Register", "Frame", "Verdict", "Release"},
                        command : Commands, lba : 0 .. CardBlocks, data : Payloads]
        /\ client'.awaits = "Block" /\ client'.command = client.command /\ client'.lba = client.lba
    BY <1>10, <1>11 DEF SdInv, SdTypeOK
  <2>2. card # "ReceivingData" /\ framer = "Idle"
    BY <1>8, <1>11 DEF SameWrite
  <2>3. AnswersMatch' /\ ReadInv' /\ WriteInv' /\ FramerInv'
    BY <1>2, <1>3, <1>4, <1>9, <2>1, <2>2 DEF ClockedOut, AnswersMatch, ReadInv, WriteInv, FramerInv
  <2> QED
    BY <1>4, <1>5, <1>6, <2>1, <2>3, ClockedKeeps
<1>12. CASE ok /\ client.command = "ReadReg"
  <2>1. /\ client' = [client EXCEPT !.awaits = "Register"]
        /\ client' \in [awaits : {"Nothing", "R1", "Block", "Register", "Frame", "Verdict", "Release"},
                        command : Commands, lba : 0 .. CardBlocks, data : Payloads]
        /\ client'.awaits = "Register"
    BY <1>10, <1>12 DEF SdInv, SdTypeOK
  <2>2. card # "ReceivingData" /\ framer = "Idle" /\ ~pendingRead.active
    BY <1>8, <1>9, <1>12 DEF SameWrite
  <2>3. AnswersMatch' /\ ReadInv' /\ WriteInv' /\ FramerInv'
    BY <1>3, <1>4, <2>1, <2>2 DEF ClockedOut, AnswersMatch, ReadInv, WriteInv, FramerInv
  <2> QED
    BY <1>4, <1>5, <1>6, <2>1, <2>3, ClockedKeeps
<1>13. CASE ok /\ client.command \in {"Write", "WriteMulti"}
  <2>1. /\ client' = [client EXCEPT !.awaits = "Frame"]
        /\ client' \in [awaits : {"Nothing", "R1", "Block", "Register", "Frame", "Verdict", "Release"},
                        command : Commands, lba : 0 .. CardBlocks, data : Payloads]
        /\ client'.awaits = "Frame" /\ client'.command = client.command /\ client'.lba = client.lba
    BY <1>10, <1>13 DEF SdInv, SdTypeOK
  <2>2. ~pendingRead.active
    BY <1>9, <1>13
  <2>3. AnswersMatch' /\ ReadInv'
    BY <1>3, <1>4, <2>1, <2>2 DEF ClockedOut, AnswersMatch, ReadInv
  <2>4. WriteInv'
    BY <1>4, <1>8, <2>1 DEF ClockedOut, WriteInv, SameWrite, Mode
  <2>5. FramerInv'
    BY <1>4, <1>8, <2>1 DEF ClockedOut, FramerInv, SameWrite, Mode
  <2> QED
    BY <1>4, <1>5, <1>6, <2>1, <2>3, <2>4, <2>5, ClockedKeeps
<1>14. CASE ~ok \/ client.command \notin {"Read", "ReadMulti", "ReadReg", "Write", "WriteMulti"}
  <2>1. client' = Awaiting("Nothing")
    BY <1>10, <1>14
  <2>2. card # "ReceivingData" /\ framer = "Idle" /\ ~pendingRead.active
    BY <1>7, <1>8, <1>9, <1>14 DEF SameWrite
  <2>3. AnswersMatch' /\ ReadInv' /\ WriteInv' /\ FramerInv'
    BY <1>3, <1>4, <2>1, <2>2, AwaitingFits DEF ClockedOut, AnswersMatch, ReadInv, WriteInv, FramerInv
  <2> QED
    BY <1>4, <1>5, <1>6, <2>1, <2>3, AwaitingFits, ClockedKeeps
<1> QED
  BY <1>11, <1>12, <1>13, <1>14

\* A response with what follows it still queued.
LEMMA ResponseAheadTaken ==
    ASSUME SdInv, ClockOut, client.awaits = "R1",
           \/ client.command = "ReadReg" /\ tx = <<R1(TRUE), Register>>
           \/ client.command \in {"Read", "ReadMulti"} /\ tx = <<R1(TRUE), DataBlock(client.lba)>>
    PROVE  SdInv'
<1>1. PICK next \in {Register, DataBlock(client.lba)} :
          /\ tx = <<R1(TRUE), next>>
          /\ client.command = "ReadReg" => next = Register
          /\ client.command \in {"Read", "ReadMulti"} => next = DataBlock(client.lba)
  OBVIOUS
<1>2. next \in Items
  <2>1. 2 \in 1 .. Len(tx) /\ tx[2] = next
    BY <1>1
  <2> QED
    BY <2>1, ElementOfSeq DEF SdInv, SdTypeOK
<1>3. next.type # "Verdict"
  BY DEF Register, DataBlock
<1>4. /\ R1(TRUE).type = "R1" /\ R1(TRUE).ok = TRUE /\ Head(tx) = R1(TRUE) /\ Tail(tx) = <<next>>
      /\ tx # <<R1(TRUE)>>
  <2>1. Head(tx) = R1(TRUE) /\ Tail(tx) = <<next>> /\ tx # <<R1(TRUE)>>
    BY <1>1, Heads
  <2> QED
    BY <2>1 DEF R1
<1>5. tx' = <<next>> /\ UNCHANGED stream
  BY <1>4, Heads DEF ClockOut, Refill
<1>6. ClockedOut
  BY RefillLeavesStore DEF ClockOut, ClockedOut, engineVars, storeVars
<1>7. /\ tx' \in Seq(Items) /\ Used(tx') <= TransmitCapacity /\ tx' # <<Verdict("Accepted")>>
      /\ tx' # <<>>
  BY <1>2, <1>3, <1>5, ShortQueues, NotAccepted, Heads
<1>8. ~pendingRead.active
  BY <1>4 DEF SdInv, ReadInv
<1>9. card # "ReceivingData" /\ framer = "Idle"
  <2>1. client.command \notin {"Write", "WriteMulti"}
    OBVIOUS
  <2>2. card # "ReceivingData"
    BY <2>1 DEF SdInv, WriteInv, SameWrite
  <2> QED
    BY <2>2 DEF SdInv, FramerInv
<1>10. client' = [client EXCEPT !.awaits = IF client.command = "ReadReg" THEN "Register" ELSE "Block"]
  BY <1>4 DEF ClockOut, ClientAfter
<1>11. /\ client' \in [awaits : {"Nothing", "R1", "Block", "Register", "Frame", "Verdict", "Release"},
                       command : Commands, lba : 0 .. CardBlocks, data : Payloads]
       /\ client'.awaits = IF client.command = "ReadReg" THEN "Register" ELSE "Block"
       /\ client'.command = client.command /\ client'.lba = client.lba
  BY <1>10 DEF SdInv, SdTypeOK
<1>12. AnswersMatch'
  BY <1>1, <1>5, <1>6, <1>11 DEF AnswersMatch, ClockedOut, DataBlock
<1>13. StreamInv'
  <2>1. stream.active => client.command = "ReadMulti" /\ stream.next = client.lba + 1
    BY DEF SdInv, StreamInv
  <2> QED
    BY <1>1, <1>5, <1>6, <1>11, <2>1 DEF ClockedOut, SdInv, StreamInv, DataBlock
<1>14. ReadInv' /\ WriteInv' /\ FramerInv'
  BY <1>6, <1>8, <1>9 DEF ClockedOut, ReadInv, WriteInv, FramerInv
<1>15. stream' \in [active : BOOLEAN, next : 0 .. CardBlocks]
  BY <1>5 DEF SdInv, SdTypeOK
<1>16. QueuedInv'
  <2>1. next = DataBlock(client.lba) => Stands(client.lba)
    BY <1>1, QueuedStands DEF SdInv
  <2>2. Settled(next, late)
    BY <2>1, SettledItems
  <2> QED
    BY <1>5, <1>6, <2>2, ShortQueueSettled DEF ClockedOut
<1> QED
  BY <1>6, <1>7, <1>11, <1>12, <1>13, <1>14, <1>15, <1>16, ClockedKeeps

\* The block that was queued before CMD12 reached the card.
LEMMA LastBlockTaken ==
    ASSUME SdInv, ClockOut, client.awaits = "R1", client.command = "Stop",
           NEW lba \in Lbas, NEW ok \in BOOLEAN, tx = <<DataBlock(lba), R1(ok)>>
    PROVE  SdInv'
<1>1. /\ DataBlock(lba).type = "Block" /\ R1(ok) \in Items /\ R1(ok).type = "R1"
      /\ Head(tx) = DataBlock(lba) /\ Tail(tx) = <<R1(ok)>>
  BY ItemTypes, BlockIsItem, Heads DEF SdInv
<1>2. tx' = <<R1(ok)>> /\ UNCHANGED stream
  BY <1>1, Heads DEF ClockOut, Refill
<1>3. ClockedOut
  BY RefillLeavesStore DEF ClockOut, ClockedOut, engineVars, storeVars
<1>4. /\ tx' \in Seq(Items) /\ Used(tx') <= TransmitCapacity /\ tx' # <<Verdict("Accepted")>>
      /\ tx' # <<>> /\ QueuedInv'
  BY <1>1, <1>2, ShortQueues, NotAccepted, Heads, SettledItems, ShortQueueSettled
<1>5. client' = client
  BY <1>1 DEF ClockOut, ClientAfter
<1>6. ~pendingRead.active /\ ~stream.active /\ card # "ReceivingData" /\ framer = "Idle"
  <2>1. card # "ReceivingData"
    BY DEF SdInv, WriteInv, SameWrite
  <2> QED
    BY <2>1 DEF SdInv, ReadInv, StreamInv, FramerInv
<1>7. AnswersMatch'
  BY <1>2, <1>5 DEF AnswersMatch
<1>8. ReadInv' /\ StreamInv' /\ WriteInv' /\ FramerInv'
  BY <1>2, <1>3, <1>6 DEF ClockedOut, ReadInv, StreamInv, WriteInv, FramerInv
<1> QED
  BY <1>2, <1>3, <1>4, <1>5, <1>7, <1>8, ClockedKeeps DEF SdInv, SdTypeOK

\* A block: the stream's next one is queued behind it, or the client waits for it.
LEMMA BlockTaken ==
    ASSUME SdInv, ClockOut, client.awaits = "Block", tx = <<DataBlock(client.lba)>>
    PROVE  SdInv'
<1>1. client.lba \in Lbas
  <2>1. DataBlock(client.lba) \in Items
    <3>1. tx[1] \in Items /\ tx[1] = DataBlock(client.lba)
      BY ElementOfSeq DEF SdInv, SdTypeOK
    <3> QED
      BY <3>1
  <2> QED
    BY <2>1 DEF Items, DataBlock, R1, Register, Verdict
<1>2. /\ Head(tx) = DataBlock(client.lba) /\ Tail(tx) = <<>>
      /\ DataBlock(client.lba).type = "Block"
  BY <1>1, BlockIsItem, Heads DEF SdInv
<1>3. ClockedOut
  BY RefillLeavesStore DEF ClockOut, ClockedOut, engineVars, storeVars
<1>4. ~pendingRead.active /\ card # "ReceivingData" /\ framer = "Idle"
  BY Heads DEF SdInv, ReadInv, WriteInv, FramerInv
<1>5. ReadInv' /\ WriteInv' /\ FramerInv'
  BY <1>3, <1>4 DEF ClockedOut, ReadInv, WriteInv, FramerInv
<1>6. stream.active =>
          /\ card = "Transfer" /\ client.command = "ReadMulti" /\ stream.next = client.lba + 1
  BY Heads DEF SdInv, StreamInv
<1>7. CASE client.command # "ReadMulti"
  <2>1. client' = Awaiting("Nothing")
    BY <1>2, <1>7 DEF ClockOut, ClientAfter
  <2>2. tx' = <<>> /\ UNCHANGED stream
    BY <1>2, <1>6, <1>7 DEF ClockOut, Refill
  <2>3. AnswersMatch' /\ StreamInv'
    BY <1>6, <1>7, <2>1, <2>2, AwaitingFits DEF AnswersMatch, StreamInv
  <2> QED
    BY <1>3, <1>5, <2>1, <2>2, <2>3, AwaitingFits, ShortQueues, NotAccepted, ShortQueueSettled,
       ClockedKeeps DEF SdInv, SdTypeOK
<1>8. CASE client.command = "ReadMulti"
  <2>1. /\ client' = [client EXCEPT !.lba = client.lba + 1]
        /\ client.lba + 1 \in 0 .. CardBlocks
    BY <1>1, <1>2, <1>8 DEF ClockOut, ClientAfter, Lbas
  <2>2. /\ client' \in [awaits : {"Nothing", "R1", "Block", "Register", "Frame", "Verdict", "Release"},
                        command : Commands, lba : 0 .. CardBlocks, data : Payloads]
        /\ client'.awaits = "Block" /\ client'.command = "ReadMulti"
        /\ client'.lba = client.lba + 1
    BY <1>8, <2>1 DEF SdInv, SdTypeOK
  <2>3. \/ /\ stream.active /\ stream.next < exposed /\ Stands(stream.next)
           /\ tx' = <<DataBlock(stream.next)>>
           /\ stream' = [stream EXCEPT !.next = stream.next + 1]
        \/ tx' = <<>> /\ UNCHANGED stream
    BY <1>2 DEF ClockOut, Refill, StoreRead
  <2>4. CASE tx' = <<>> /\ UNCHANGED stream
    <3>1. AnswersMatch' /\ StreamInv'
      BY <1>3, <1>6, <2>2, <2>4 DEF ClockedOut, AnswersMatch, StreamInv
    <3> QED
      BY <1>3, <1>5, <2>2, <2>4, <3>1, ShortQueues, NotAccepted, ShortQueueSettled, ClockedKeeps
         DEF SdInv, SdTypeOK
  <2>5. CASE /\ stream.active /\ stream.next < exposed /\ Stands(stream.next)
             /\ tx' = <<DataBlock(stream.next)>>
             /\ stream' = [stream EXCEPT !.next = stream.next + 1]
    <3>1. stream.next \in Lbas
      BY <2>5 DEF Lbas, SdInv, SdTypeOK
    <3>2. /\ stream' \in [active : BOOLEAN, next : 0 .. CardBlocks]
          /\ stream'.active /\ stream'.next = stream.next + 1
      <4>1. stream \in [active : BOOLEAN, next : 0 .. CardBlocks]
        BY DEF SdInv, SdTypeOK
      <4>2. stream.next + 1 \in 0 .. CardBlocks
        BY <3>1 DEF Lbas
      <4> QED
        BY <2>5, <4>1, <4>2
    <3>3. tx' = <<DataBlock(client'.lba)>>
      BY <1>6, <2>2, <2>5
    <3>4. DataBlock(stream.next) \in Items /\ DataBlock(stream.next).type = "Block"
      BY <3>1, BlockIsItem DEF SdInv
    <3>5. /\ tx' \in Seq(Items) /\ Used(tx') <= TransmitCapacity
          /\ tx' # <<Verdict("Accepted")>> /\ QueuedInv'
      BY <1>3, <2>5, <3>4, ShortQueues, NotAccepted, SettledItems, ShortQueueSettled DEF ClockedOut
    <3>6. AnswersMatch' /\ StreamInv'
      BY <1>3, <1>6, <2>2, <2>5, <3>2, <3>3 DEF ClockedOut, AnswersMatch, StreamInv, DataBlock
    <3> QED
      BY <1>3, <1>5, <2>2, <3>2, <3>5, <3>6, ClockedKeeps
  <2> QED
    BY <2>3, <2>4, <2>5
<1> QED
  BY <1>7, <1>8

LEMMA RegisterTaken ==
    ASSUME SdInv, ClockOut, client.awaits = "Register", tx = <<Register>>
    PROVE  SdInv'
<1>1. Head(tx) = Register /\ Tail(tx) = <<>> /\ Register.type = "Register"
  BY ItemTypes, Heads
<1>2. ClockedOut
  BY RefillLeavesStore DEF ClockOut, ClockedOut, engineVars, storeVars
<1>3. ~stream.active /\ ~pendingRead.active /\ card # "ReceivingData" /\ framer = "Idle"
  BY DEF SdInv, StreamInv, ReadInv, WriteInv, FramerInv
<1>4. tx' = <<>> /\ UNCHANGED stream
  BY <1>1, <1>3 DEF ClockOut, Refill
<1>5. client' = Awaiting("Nothing")
  BY <1>1 DEF ClockOut, ClientAfter
<1>6. AnswersMatch' /\ ReadInv' /\ StreamInv' /\ WriteInv' /\ FramerInv'
  BY <1>2, <1>3, <1>4, <1>5, AwaitingFits DEF ClockedOut, AnswersMatch, ReadInv, StreamInv, WriteInv,
     FramerInv
<1> QED
  BY <1>2, <1>4, <1>5, <1>6, AwaitingFits, ShortQueues, NotAccepted, ShortQueueSettled, ClockedKeeps
     DEF SdInv, SdTypeOK

\* A verdict: after an accepted block of a multiple write the client and the card
\* have both moved on to the next sector.
LEMMA VerdictTaken ==
    ASSUME SdInv, ClockOut, client.awaits = "Verdict",
           NEW v \in {"Accepted", "CrcError", "WriteError"}, tx = <<Verdict(v)>>
    PROVE  SdInv'
<1>1. /\ Head(tx) = Verdict(v) /\ Tail(tx) = <<>>
      /\ Verdict(v).type = "Verdict" /\ Verdict(v).verdict = v
  BY ItemTypes, Heads
<1>2. ClockedOut
  BY RefillLeavesStore DEF ClockOut, ClockedOut, engineVars, storeVars
<1>3. ~stream.active /\ ~pendingRead.active
  BY DEF SdInv, StreamInv, ReadInv
<1>4. tx' = <<>> /\ UNCHANGED stream
  BY <1>1, <1>3 DEF ClockOut, Refill
<1>5. framer # "Idle" => framer = "Multi" /\ client.command = "WriteMulti" /\ select = "Selected"
  BY DEF SdInv, FramerInv
<1>6. ReadInv' /\ StreamInv'
  BY <1>2, <1>3, <1>4 DEF ClockedOut, ReadInv, StreamInv
<1>7. stream' \in [active : BOOLEAN, next : 0 .. CardBlocks] /\ tx' \in Seq(Items)
      /\ Used(tx') <= TransmitCapacity /\ tx' # <<Verdict("Accepted")>> /\ QueuedInv'
  BY <1>4, ShortQueues, NotAccepted, ShortQueueSettled DEF SdInv, SdTypeOK
<1>8. CASE v # "Accepted"
  <2>1. client' = Awaiting("Release")
    BY <1>1, <1>8 DEF ClockOut, ClientAfter
  <2>2. AnswersMatch' /\ WriteInv' /\ FramerInv'
    BY <1>2, <1>4, <2>1, AwaitingFits DEF ClockedOut, AnswersMatch, WriteInv, FramerInv, SdInv
  <2> QED
    BY <1>2, <1>6, <1>7, <2>1, <2>2, AwaitingFits, ClockedKeeps
<1>9. CASE v = "Accepted"
  <2>1. /\ tx # <<>> /\ tx \notin {<<Verdict("CrcError")>>, <<Verdict("WriteError")>>}
        /\ tx = <<Verdict("Accepted")>>
    BY <1>9, VerdictsFit, Heads
  <2>2. card = "ReceivingData" =>
            /\ client.command = "WriteMulti" /\ writing.multi /\ writing.lba \in Lbas
            /\ writing.lba = client.lba + 1 /\ framer = "Multi" /\ select = "Selected"
    BY <2>1 DEF SdInv, WriteInv
  <2>3. client.lba \in Lbas
    BY <2>1 DEF SdInv, StoredInv
  <2>4. CASE client.command = "WriteMulti"
    <3>1. /\ client' = [client EXCEPT !.awaits = "Frame", !.lba = client.lba + 1]
          /\ client.lba + 1 \in 0 .. CardBlocks
      BY <1>1, <1>9, <2>3, <2>4 DEF ClockOut, ClientAfter, Lbas
    <3>2. /\ client' \in [awaits : {"Nothing", "R1", "Block", "Register", "Frame", "Verdict", "Release"},
                          command : Commands, lba : 0 .. CardBlocks, data : Payloads]
          /\ client'.awaits = "Frame" /\ client'.command = "WriteMulti"
          /\ client'.lba = client.lba + 1
      BY <2>4, <3>1 DEF SdInv, SdTypeOK
    <3>3. WriteInv'
      BY <1>2, <2>2, <3>2 DEF ClockedOut, WriteInv, SameWrite, Mode
    <3>4. AnswersMatch' /\ FramerInv'
      BY <1>2, <1>4, <1>5, <3>2 DEF ClockedOut, AnswersMatch, FramerInv
    <3> QED
      BY <1>2, <1>6, <1>7, <3>2, <3>3, <3>4, ClockedKeeps
  <2>5. CASE client.command # "WriteMulti"
    <3>1. client' = Awaiting("Nothing")
      BY <1>1, <1>9, <2>5 DEF ClockOut, ClientAfter
    <3>2. card # "ReceivingData" /\ framer = "Idle"
      BY <1>5, <2>2, <2>5
    <3>3. AnswersMatch' /\ WriteInv' /\ FramerInv'
      BY <1>2, <1>4, <3>1, <3>2, AwaitingFits DEF ClockedOut, AnswersMatch, WriteInv, FramerInv
    <3> QED
      BY <1>2, <1>6, <1>7, <3>1, <3>3, AwaitingFits, ClockedKeeps
  <2> QED
    BY <2>4, <2>5
<1> QED
  BY <1>8, <1>9

LEMMA ClockOutKeeps == ASSUME SdInv, ClockOut PROVE SdInv'
<1>1. tx # <<>>
  BY DEF ClockOut
<1>2. client.awaits \in {"Nothing", "R1", "Block", "Register", "Frame", "Verdict", "Release"}
  BY DEF SdInv, SdTypeOK
<1>3. CASE client.awaits = "R1"
  <2>1. \/ \E ok \in BOOLEAN : tx = <<R1(ok)>>
        \/ client.command = "ReadReg" /\ tx = <<R1(TRUE), Register>>
        \/ client.command \in {"Read", "ReadMulti"} /\ tx = <<R1(TRUE), DataBlock(client.lba)>>
        \/ client.command = "Stop" /\ \E lba \in Lbas, ok \in BOOLEAN : tx = <<DataBlock(lba), R1(ok)>>
    BY <1>1, <1>3 DEF SdInv, AnswersMatch
  <2> QED
    BY <1>3, <2>1, ResponseTaken, ResponseAheadTaken, LastBlockTaken
<1>4. CASE client.awaits = "Block"
  BY <1>1, <1>4, BlockTaken DEF SdInv, AnswersMatch
<1>5. CASE client.awaits = "Register"
  BY <1>1, <1>5, RegisterTaken DEF SdInv, AnswersMatch
<1>6. CASE client.awaits = "Verdict"
  <2>1. \E v \in {"Accepted", "CrcError", "WriteError"} : tx = <<Verdict(v)>>
    BY <1>1, <1>6 DEF SdInv, AnswersMatch
  <2> QED
    BY <1>6, <2>1, VerdictTaken
<1>7. CASE client.awaits \in {"Nothing", "Frame", "Release"}
  BY <1>1, <1>7 DEF SdInv, AnswersMatch
<1> QED
  BY <1>2, <1>3, <1>4, <1>5, <1>6, <1>7

-----------------------------------------------------------------------------
LEMMA NextSdInv == ASSUME ~DropsStreams, SdInv, [SdNext]_sdVars PROVE SdInv'
<1>1. CASE SdNext
  <2>1. CASE \E command \in Commands, lba \in 0 .. CardBlocks : SendCommand(command, lba)
    BY <2>1, SendCommandKeeps
  <2>2. CASE DamagedCommand
    BY <2>2, DamagedCommandKeeps
  <2>3. CASE \E data \in Payloads : SendData(data)
    BY <2>3, SendDataKeeps
  <2>4. CASE DamagedData
    BY <2>4, DamagedDataKeeps
  <2>5. CASE SendStopToken
    BY <2>5, SendStopTokenKeeps
  <2>6. CASE PollPendingIo
    BY <2>6, PollPendingIoKeeps
  <2>7. CASE ClockOut
    BY <2>7, ClockOutKeeps
  <2>8. CASE ReleaseSelect \/ TransactionTimeout
    BY <2>8, TransactionEndKeeps
  <2>9. CASE AssertSelect
    BY <2>9, AssertSelectKeeps
  <2>10. CASE MediumChanges
    BY <2>10, MediumChangesKeeps
  <2>11. CASE BackendSettles
    BY <2>11, BackendSettlesKeeps
  <2> QED
    BY <1>1, <2>1, <2>2, <2>3, <2>4, <2>5, <2>6, <2>7, <2>8, <2>9, <2>10, <2>11 DEF SdNext
<1>2. CASE UNCHANGED sdVars
  <2>1. UNCHANGED <<card, app, stream, pendingRead, writing, framer, pendingWrite, exposed, tx,
                    select, disk, late, client>>
    BY <1>2 DEF sdVars, modelVars, engineVars, storeVars
  <2>2. SdTypeOK'
    BY <2>1 DEF SdInv, SdTypeOK
  <2>3. AnswersMatch' /\ SelectInv' /\ StoredInv'
    BY <2>1 DEF SdInv, AnswersMatch, SelectInv, StoredInv, Stands, DataBlock
  <2>4. ReadInv' /\ StreamInv' /\ QueuedInv'
    BY <2>1 DEF SdInv, ReadInv, StreamInv, QueuedInv, DataBlock
  <2>5. WriteInv' /\ FramerInv' /\ DeferredWriteInv'
    BY <2>1 DEF SdInv, WriteInv, SameWrite, Mode, FramerInv, DeferredWriteInv
  <2> QED
    BY <2>2, <2>3, <2>4, <2>5 DEF SdInv
<1> QED
  BY <1>1, <1>2

\* The theorems are about a client that ends a read stream with CMD12 before it
\* releases CS: releasing CS leaves the stream in the card, and the next
\* transaction is then sent its block.
THEOREM SdInvariant == ASSUME ~DropsStreams PROVE SdSpec => []SdInv
<1>1. SdInit => SdInv
  BY InitSdInv
<1>2. SdInv /\ [SdNext]_sdVars => SdInv'
  BY NextSdInv
<1> QED
  BY <1>1, <1>2, PTL DEF SdSpec

\* Every variable of the card, its engine and the client keeps its type, and no
\* queued answer exceeds the transmit queue.
THEOREM CardIsTyped == ASSUME ~DropsStreams PROVE SdSpec => []SdTypeOK
<1>1. SdInv => SdTypeOK
  BY DEF SdInv
<1> QED
  BY <1>1, SdInvariant, PTL

\* The transmit queue holds the answer the client waits for and no other, a sector
\* with the content the medium has, whatever is retried, refilled, timed out, given
\* up or written late in between.
THEOREM AnswersAreExpected == ASSUME ~DropsStreams PROVE SdSpec => []AnswersMatch
<1>1. SdInv => AnswersMatch
  BY DEF SdInv
<1> QED
  BY <1>1, SdInvariant, PTL

\* No command is swallowed by the data framer and no response is dropped for want
\* of room: a selected card always has the response on its way.
THEOREM NoCommandUnanswered == ASSUME ~DropsStreams PROVE SdSpec => []CommandsAnswered
<1>1. SdInv => CommandsAnswered
  <2> SUFFICES ASSUME SdInv, client.awaits = "R1", select = "Selected"
               PROVE  \E i \in DOMAIN tx : tx[i].type = "R1"
    BY DEF CommandsAnswered
  <2>1. tx # <<>>
    BY DEF SdInv, SelectInv
  <2>2. CASE \E ok \in BOOLEAN : tx = <<R1(ok)>>
    <3>1. 1 \in DOMAIN tx /\ tx[1].type = "R1"
      BY <2>2 DEF R1
    <3> QED
      BY <3>1
  <2>3. CASE tx = <<R1(TRUE), Register>> \/ tx = <<R1(TRUE), DataBlock(client.lba)>>
    <3>1. 1 \in DOMAIN tx /\ tx[1].type = "R1"
      BY <2>3 DEF R1
    <3> QED
      BY <3>1
  <2>4. CASE \E lba \in Lbas, ok \in BOOLEAN : tx = <<DataBlock(lba), R1(ok)>>
    <3>1. 2 \in DOMAIN tx /\ tx[2].type = "R1"
      BY <2>4 DEF R1
    <3> QED
      BY <3>1
  <2> QED
    BY <2>1, <2>2, <2>3, <2>4 DEF SdInv, AnswersMatch
<1> QED
  BY <1>1, SdInvariant, PTL

\* A block the client is told is accepted is on the medium, where the client meant
\* it; no write the backend still holds overwrites it while the answer is queued.
THEOREM AcceptedWasStored == ASSUME ~DropsStreams PROVE SdSpec => []AcceptedIsStored
<1>1. SdInv => AcceptedIsStored
  BY DEF SdInv, StoredInv, AcceptedIsStored
<1> QED
  BY <1>1, SdInvariant, PTL

\* A retry acts for the client that waits for it, at the address and with the data
\* that client sent.
THEOREM RetriesHaveClient == ASSUME ~DropsStreams PROVE SdSpec => []PendingHasClient
<1>1. SdInv => PendingHasClient
  <2>1. ASSUME SdInv, pendingRead.active
        PROVE  /\ pendingWrite = NoBlock /\ card = "Transfer"
               /\ client.awaits \in {"R1", "Block"} /\ client.command \in {"Read", "ReadMulti"}
               /\ client.lba = pendingRead.lba
    BY <2>1 DEF SdInv, ReadInv
  <2>2. ASSUME SdInv, pendingWrite # NoBlock
        PROVE  /\ card = "ReceivingData" /\ client.awaits = "Verdict"
               /\ client.lba = writing.lba /\ client.data = pendingWrite
    <3>1. card = "ReceivingData" /\ client.awaits = "Verdict" /\ tx = <<>>
      BY <2>2 DEF SdInv, DeferredWriteInv
    <3>2. tx # <<Verdict("Accepted")>> /\ tx \notin {<<Verdict("CrcError")>>, <<Verdict("WriteError")>>}
      BY <3>1, Heads
    <3> QED
      BY <2>2, <3>1, <3>2 DEF SdInv, WriteInv, SameWrite
  <2> QED
    BY <2>1, <2>2 DEF PendingHasClient
<1> QED
  BY <1>1, SdInvariant, PTL
=============================================================================
