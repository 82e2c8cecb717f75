----------------------- MODULE ExecutionJournal_proofs -----------------------
(***************************************************************************)
(* Proofs about ExecutionJournal for any number of appends and stops, and  *)
(* any set of failure points.                                              *)
(***************************************************************************)
EXTENDS ExecutionJournal, SequenceTheorems, TLAPS

(* Numbers never run ahead of the appends tried, and the file is in the    *)
(* order they were tried in.                                               *)
Bounds ==
  /\ sequence <= attempts
  /\ \A k \in 1..Len(pieces) : pieces[k].seq <= attempts /\ pieces[k].event <= attempts
  /\ \A j, k \in 1..Len(pieces) : j < k => pieces[j].event < pieces[k].event

(* When failures leave nothing behind, every event is on its own line, in  *)
(* its own order.                                                          *)
Orderly ==
  clean => /\ \A k \in 1..Len(pieces) : pieces[k].part = "line" /\ pieces[k].seq = k
           /\ running => sequence = Len(pieces)

IInv ==
  /\ TypeOK
  /\ Bounds
  /\ AckedDurable
  /\ NothingForgotten
  /\ Orderly

(***************************************************************************)
(* What the two ways of changing the file keep                             *)
(***************************************************************************)
LEMMA FileTyped ==
  ASSUME TypeOK
  PROVE  /\ Len(pieces) \in Nat /\ synced \in Nat /\ synced <= Len(pieces)
         /\ \A k \in 1..Len(pieces) : /\ pieces[k] \in Piece
                                      /\ pieces[k].seq \in Nat
                                      /\ pieces[k].event \in Nat
<1>1. Len(pieces) \in Nat /\ synced \in Nat /\ synced <= Len(pieces)
  BY LenProperties DEF TypeOK
<1>2. \A k \in 1..Len(pieces) : pieces[k] \in Piece
  BY ElementOfSeq DEF TypeOK
<1>3. QED
  BY <1>1, <1>2 DEF Piece

LEMMA FaultsTyped ==
  /\ Failing \subseteq {"open", "write", "fsync", "close"}
  /\ Cut \subseteq {"torn", "bare"}
  /\ clean => Failing \subseteq {"open"} /\ Cut = {}
<1>1. FailurePoints \cap {"open"} \subseteq {"open"}
  OBVIOUS
<1>2. QED
  BY <1>1, JournalAssumption DEF Failing, Cut

(* A write appends one piece under the next number.                        *)
LEMMA WriteKeeps ==
  ASSUME TypeOK, Bounds, Try, NEW part \in {"line", "bare", "torn"},
         pieces' = Written(part)
  PROVE  /\ pieces' \in Seq(Piece)
         /\ Len(pieces') = Len(pieces) + 1
         /\ \A k \in 1..Len(pieces) : pieces'[k] = pieces[k]
         /\ pieces'[Len(pieces) + 1] =
              [event |-> attempts + 1, seq |-> sequence + 1, part |-> part]
         /\ Len(pieces) \in Nat
<1> DEFINE p == [event |-> attempts + 1, seq |-> sequence + 1, part |-> part]
<1>1. p \in Piece
  BY JournalAssumption DEF TypeOK, Bounds, Try, Piece
<1>2. pieces' = Append(pieces, p)
  BY DEF Written
<1> HIDE DEF p
<1>3. QED
  BY <1>1, <1>2, AppendProperties, LenProperties DEF TypeOK, p

LEMMA WriteBounds ==
  ASSUME TypeOK, Bounds, Try, NEW part \in {"line", "bare", "torn"},
         pieces' = Written(part), sequence' \in {sequence, sequence + 1}
  PROVE  Bounds'
<1>1. /\ Len(pieces') = Len(pieces) + 1
      /\ \A k \in 1..Len(pieces) : pieces'[k] = pieces[k]
      /\ pieces'[Len(pieces) + 1] =
           [event |-> attempts + 1, seq |-> sequence + 1, part |-> part]
  BY WriteKeeps
<1>2. sequence \in Nat /\ attempts \in Nat /\ attempts' = attempts + 1 /\ sequence <= attempts
  BY JournalAssumption DEF TypeOK, Try, Bounds
<1>3. Len(pieces) \in Nat
  BY FileTyped
<1>4. \A k \in 1..Len(pieces') : pieces'[k].seq <= attempts' /\ pieces'[k].event <= attempts'
  <2> SUFFICES ASSUME NEW k \in 1..Len(pieces')
               PROVE  pieces'[k].seq <= attempts' /\ pieces'[k].event <= attempts'
    OBVIOUS
  <2>1. CASE k \in 1..Len(pieces)
    BY <1>1, <1>2, <2>1, FileTyped DEF Bounds
  <2>2. CASE k = Len(pieces) + 1
    BY <1>1, <1>2, <2>2
  <2>3. QED
    BY <1>1, <1>3, <2>1, <2>2
<1>5. ASSUME NEW j \in 1..Len(pieces'), NEW k \in 1..Len(pieces'), j < k
      PROVE  pieces'[j].event < pieces'[k].event
  <2>1. j \in 1..Len(pieces) /\ pieces'[j] = pieces[j]
    BY <1>1, <1>3, <1>5
  <2>2. CASE k \in 1..Len(pieces)
    BY <1>1, <1>5, <2>1, <2>2 DEF Bounds
  <2>3. CASE k = Len(pieces) + 1
    <3>1. pieces[j].event \in Nat /\ pieces[j].event <= attempts
      BY <2>1, FileTyped DEF Bounds
    <3>2. QED
      BY <1>1, <1>2, <2>1, <2>3, <3>1
  <2>4. QED
    BY <1>1, <1>3, <2>2, <2>3
<1>6. sequence' <= attempts'
  BY <1>2
<1>7. QED
  BY <1>4, <1>5, <1>6 DEF Bounds

(* A loss of power keeps what is on stable storage, and of the rest a      *)
(* beginning whose last piece may be damaged.                              *)
LEMMA PowerLossKeeps ==
  ASSUME TypeOK, PowerLoss
  PROVE  /\ pieces' \in Seq(Piece)
         /\ Len(pieces') \in synced..Len(pieces)
         /\ \A k \in 1..synced : pieces'[k] = pieces[k]
         /\ \A k \in 1..Len(pieces') :
              /\ pieces'[k].seq = pieces[k].seq
              /\ pieces'[k].event = pieces[k].event
              /\ Cut = {} => pieces'[k] = pieces[k]
         /\ Cut = {} => pieces' = SubSeq(pieces, 1, Len(pieces'))
<1>1. PICK n \in synced..Len(pieces) :
         \/ pieces' = SubSeq(pieces, 1, n)
         \/ /\ n < Len(pieces)
            /\ \E part \in Cut :
                 pieces' = Append(SubSeq(pieces, 1, n), [pieces[n + 1] EXCEPT !.part = part])
  BY DEF PowerLoss
<1>2. synced \in Nat /\ Len(pieces) \in Nat /\ n \in Nat /\ n <= Len(pieces)
      /\ \A k \in 1..Len(pieces) : pieces[k] \in Piece
  BY LenProperties, ElementOfSeq DEF TypeOK
<1> DEFINE s == SubSeq(pieces, 1, n)
<1>3. /\ s \in Seq(Piece) /\ Len(s) = n
      /\ \A k \in 1..n : s[k] = pieces[k]
  <2>1. \A k \in 1..n : pieces[k] \in Piece
    BY <1>2
  <2>2. /\ SubSeq(pieces, 1, n) \in Seq(Piece)
        /\ Len(SubSeq(pieces, 1, n)) = IF 1 <= n THEN n - 1 + 1 ELSE 0
        /\ \A k \in 1..n - 1 + 1 : SubSeq(pieces, 1, n)[k] = pieces[1 + k - 1]
    BY <1>2, <2>1, SubSeqProperties
  <2>3. QED
    BY <1>2, <2>2
<1> HIDE DEF s
<1>4. CASE pieces' = s
  BY <1>2, <1>3, <1>4 DEF s
<1>5. ASSUME n < Len(pieces), NEW part \in Cut,
             pieces' = Append(s, [pieces[n + 1] EXCEPT !.part = part])
      PROVE  /\ pieces' \in Seq(Piece) /\ Len(pieces') = n + 1
             /\ \A k \in 1..n : pieces'[k] = pieces[k]
             /\ pieces'[n + 1].seq = pieces[n + 1].seq
             /\ pieces'[n + 1].event = pieces[n + 1].event
  <2> DEFINE p == [pieces[n + 1] EXCEPT !.part = part]
  <2>1. pieces[n + 1] \in Piece /\ part \in {"line", "bare", "torn"}
    BY <1>2, <1>5, FaultsTyped
  <2>2. p \in Piece /\ p.seq = pieces[n + 1].seq /\ p.event = pieces[n + 1].event
    BY <2>1 DEF Piece
  <2> HIDE DEF p
  <2>3. /\ Append(s, p) \in Seq(Piece) /\ Len(Append(s, p)) = n + 1
        /\ \A k \in 1..n : Append(s, p)[k] = s[k]
        /\ Append(s, p)[n + 1] = p
    BY <1>3, <2>2, AppendProperties
  <2>4. pieces' = Append(s, p)
    BY <1>5 DEF p
  <2>5. QED
    BY <1>3, <2>2, <2>3, <2>4
<1>6. CASE pieces' # s
  <2>1. n < Len(pieces) /\ \E part \in Cut :
           pieces' = Append(s, [pieces[n + 1] EXCEPT !.part = part])
    BY <1>1, <1>6 DEF s
  <2>2. /\ pieces' \in Seq(Piece) /\ Len(pieces') = n + 1
        /\ \A k \in 1..n : pieces'[k] = pieces[k]
        /\ pieces'[n + 1].seq = pieces[n + 1].seq
        /\ pieces'[n + 1].event = pieces[n + 1].event
        /\ Cut # {}
    BY <1>5, <2>1
  <2>3. QED
    BY <1>2, <2>1, <2>2
<1>7. QED
  BY <1>4, <1>6

(***************************************************************************)
(* The inductive invariant                                                 *)
(***************************************************************************)
LEMMA InvInit == JournalInit => IInv
<1> SUFFICES ASSUME JournalInit PROVE IInv
  OBVIOUS
<1>1. pieces \in Seq(Piece) /\ Len(pieces) = 0
  BY EmptySeq DEF JournalInit
<1>2. TypeOK
  BY <1>1, JournalAssumption DEF JournalInit, TypeOK
<1>3. QED
  BY <1>1, <1>2 DEF JournalInit, IInv, Bounds, AckedDurable, NothingForgotten, Orderly

(* A write that the caller is not told of.                                 *)
LEMMA SilentWrite ==
  ASSUME IInv, Try, NEW part \in {"line", "bare", "torn"}, pieces' = Written(part),
         synced' = synced \/ Sync, sequence' = sequence, known' = known,
         acknowledged' = acknowledged,
         running' \in BOOLEAN, running' => running, stops' \in 0..MaxStops, clean' = clean,
         clean => part = "line" /\ ~running'
  PROVE  IInv'
<1> USE DEF IInv
<1>1. /\ pieces' \in Seq(Piece)
      /\ Len(pieces') = Len(pieces) + 1
      /\ \A k \in 1..Len(pieces) : pieces'[k] = pieces[k]
      /\ pieces'[Len(pieces) + 1] =
           [event |-> attempts + 1, seq |-> sequence + 1, part |-> part]
      /\ Len(pieces) \in Nat
  BY WriteKeeps
<1>2. attempts' = attempts + 1 /\ attempts' \in 0..MaxEvents
  BY JournalAssumption DEF Try, TypeOK
<1>3. synced' \in synced..Len(pieces')
  BY <1>1 DEF Sync, TypeOK
<1>4. TypeOK'
  BY <1>1, <1>2, <1>3 DEF TypeOK
<1>5. Bounds'
  BY WriteBounds
<1>6. AckedDurable'
  <2>1. \A k \in 1..synced : k \in 1..synced' /\ pieces'[k] = pieces[k]
    BY <1>1, <1>3, FileTyped
  <2>2. QED
    BY <2>1 DEF AckedDurable
<1>7. NothingForgotten'
  BY DEF NothingForgotten
<1>8. Orderly'
  <2> SUFFICES ASSUME clean
               PROVE  \A k \in 1..Len(pieces') : pieces'[k].part = "line" /\ pieces'[k].seq = k
    BY DEF Orderly
  <2>1. sequence = Len(pieces)
    BY DEF Orderly, Try
  <2>2. QED
    BY <1>1, <2>1 DEF Orderly
<1>9. QED
  BY <1>4, <1>5, <1>6, <1>7, <1>8

(* An append that leaves nothing in the file.                              *)
LEMMA OnlyTried ==
  ASSUME IInv, UNCHANGED <<pieces, synced, sequence, running, known, acknowledged, stops, clean>>,
         attempts' = attempts + 1, attempts' \in 0..MaxEvents
  PROVE  IInv'
<1>1. TypeOK'
  BY DEF IInv, TypeOK
<1>2. Bounds'
  <2>1. sequence \in Nat /\ attempts \in Nat
    BY JournalAssumption DEF IInv, TypeOK
  <2>2. QED
    BY <2>1, FileTyped DEF IInv, Bounds
<1>3. QED
  BY <1>1, <1>2 DEF IInv, AckedDurable, NothingForgotten, Orderly

LEMMA InvStep == IInv /\ [JournalNext]_journalVars => IInv'
<1> SUFFICES ASSUME IInv, [JournalNext]_journalVars PROVE IInv'
  OBVIOUS
<1> USE DEF IInv
<1>1. CASE AppendEvent
  <2>1. Try /\ pieces' = Written("line")
    BY <1>1 DEF AppendEvent
  <2>2. /\ pieces' \in Seq(Piece)
        /\ Len(pieces') = Len(pieces) + 1
        /\ \A k \in 1..Len(pieces) : pieces'[k] = pieces[k]
        /\ pieces'[Len(pieces) + 1] =
             [event |-> attempts + 1, seq |-> sequence + 1, part |-> "line"]
        /\ Len(pieces) \in Nat
    BY <2>1, WriteKeeps
  <2>3. /\ attempts' = attempts + 1 /\ attempts' \in 1..MaxEvents /\ running
        /\ synced' = Len(pieces) + 1 /\ sequence' = sequence + 1
        /\ known' = known \cup {attempts'} /\ acknowledged' = acknowledged \cup {attempts'}
        /\ running' = running /\ stops' = stops /\ clean' = clean
    BY <1>1, <2>2, JournalAssumption DEF AppendEvent, Try, Sync, TypeOK
  <2>4. TypeOK'
    <3>1. sequence' \in 0..MaxEvents
      BY <2>3, JournalAssumption DEF TypeOK, Bounds
    <3>2. synced' \in 0..Len(pieces')
      BY <2>2, <2>3
    <3>3. /\ attempts' \in 0..MaxEvents /\ running' \in BOOLEAN /\ stops' \in 0..MaxStops
          /\ clean' \in BOOLEAN
      BY <2>3 DEF TypeOK
    <3>4. known' \subseteq 1..MaxEvents /\ acknowledged' \subseteq 1..MaxEvents
      BY <2>3 DEF TypeOK
    <3>5. QED
      BY <2>2, <3>1, <3>2, <3>3, <3>4 DEF TypeOK
  <2>5. Bounds'
    BY <2>1, <2>3, WriteBounds
  <2>6. AckedDurable'
    <3>1. ASSUME NEW e \in acknowledged
          PROVE  \E k \in 1..synced' : pieces'[k].event = e /\ pieces'[k].part = "line"
      BY <2>2, <2>3 DEF AckedDurable, TypeOK
    <3>2. pieces'[synced'].event = attempts' /\ pieces'[synced'].part = "line"
      BY <2>2, <2>3
    <3>3. QED
      BY <2>2, <2>3, <3>1, <3>2 DEF AckedDurable
  <2>7. NothingForgotten'
    BY <2>3 DEF NothingForgotten
  <2>8. Orderly'
    BY <2>2, <2>3 DEF Orderly
  <2>9. QED
    BY <2>4, <2>5, <2>6, <2>7, <2>8
<1>2. CASE AppendThrows
  <2>1. Try /\ sequence' = sequence
        /\ UNCHANGED <<running, known, acknowledged, stops, clean>>
    BY <1>2 DEF AppendThrows, SequenceKept
  <2>2. CASE UNCHANGED <<pieces, synced>>
    <3>1. attempts' = attempts + 1 /\ attempts' \in 0..MaxEvents
      BY <2>1, JournalAssumption DEF Try, TypeOK
    <3>2. QED
      BY <2>1, <2>2, <3>1, OnlyTried
  <2>3. CASE /\ Failing \cap {"write", "fsync", "close"} # {}
             /\ \E part \in {"line", "bare", "torn"} : pieces' = Written(part)
             /\ synced' = synced \/ Sync
    <3>1. ~clean
      BY <2>3, FaultsTyped
    <3>2. running' \in BOOLEAN /\ stops' \in 0..MaxStops
      BY <2>1 DEF TypeOK
    <3>3. QED
      BY <2>1, <2>3, <3>1, <3>2, SilentWrite
  <2>4. QED
    BY <1>2, <2>2, <2>3, FaultsTyped DEF AppendThrows
<1>3. CASE AppendUnregistered
  <2>1. attempts' = attempts + 1 /\ attempts' \in 0..MaxEvents
    BY <1>3, JournalAssumption DEF AppendUnregistered, Try, TypeOK
  <2>2. QED
    BY <1>3, <2>1, OnlyTried DEF AppendUnregistered
<1>4. CASE Exit
  <2>1. /\ running' = FALSE /\ stops' \in 0..MaxStops
        /\ UNCHANGED <<pieces, synced, sequence, known, acknowledged, attempts, clean>>
    BY <1>4, JournalAssumption DEF Exit, Stop, TypeOK
  <2>2. TypeOK'
    BY <2>1 DEF TypeOK
  <2>3. QED
    BY <2>1, <2>2 DEF Bounds, AckedDurable, NothingForgotten, Orderly
<1>5. CASE ExitInAppend
  <2>1. PICK part \in Cut \cup {"line"} : pieces' = Written(part)
    BY <1>5 DEF ExitInAppend
  <2>2. /\ Try /\ running' = FALSE /\ stops' \in 0..MaxStops
        /\ UNCHANGED <<synced, sequence, known, acknowledged, clean>>
    BY <1>5, JournalAssumption DEF ExitInAppend, Stop, TypeOK
  <2>3. part \in {"line", "bare", "torn"} /\ (clean => part = "line")
    BY <2>1, FaultsTyped
  <2>4. QED
    BY <2>1, <2>2, <2>3, SilentWrite
<1>6. CASE PowerLoss
  <2>1. /\ pieces' \in Seq(Piece)
        /\ Len(pieces') \in synced..Len(pieces)
        /\ \A k \in 1..synced : pieces'[k] = pieces[k]
        /\ \A k \in 1..Len(pieces') :
             /\ pieces'[k].seq = pieces[k].seq
             /\ pieces'[k].event = pieces[k].event
             /\ Cut = {} => pieces'[k] = pieces[k]
    BY <1>6, PowerLossKeeps
  <2>2. /\ running' = FALSE /\ stops' \in 0..MaxStops
        /\ UNCHANGED <<synced, sequence, known, acknowledged, attempts, clean>>
    BY <1>6, JournalAssumption DEF PowerLoss, Stop, TypeOK
  <2>3. Len(pieces) \in Nat /\ synced \in Nat
    BY FileTyped
  <2>4. TypeOK'
    <3>1. synced' \in 0..Len(pieces')
      BY <2>1, <2>2, <2>3
    <3>2. QED
      BY <2>1, <2>2, <3>1 DEF TypeOK
  <2>5. Bounds'
    <3>1. \A k \in 1..Len(pieces') : k \in 1..Len(pieces)
      BY <2>1, <2>3
    <3>2. QED
      BY <2>1, <2>2, <3>1 DEF Bounds
  <2>6. AckedDurable'
    BY <2>1, <2>2 DEF AckedDurable
  <2>7. NothingForgotten' /\ Orderly'
    BY <2>1, <2>2, <2>3, FaultsTyped DEF NothingForgotten, Orderly
  <2>8. QED
    BY <2>4, <2>5, <2>6, <2>7
<1>7. CASE OpenJournal
  <2>1. /\ Readable /\ running' = TRUE /\ known' = ReadEvents
        /\ sequence' = IF pieces = <<>> THEN 0 ELSE pieces[Len(pieces)].seq
        /\ UNCHANGED <<pieces, synced, acknowledged, attempts, stops, clean>>
    BY <1>7 DEF OpenJournal
  <2>2. Len(pieces) \in Nat /\ (pieces # <<>> => Len(pieces) > 0)
    BY EmptySeq, LenProperties DEF TypeOK
  <2>3. \A k \in 1..Len(pieces) : pieces[k] \in Piece
    BY ElementOfSeq DEF TypeOK
  <2>4. sequence' \in 0..attempts
    BY <2>1, <2>2, <2>3 DEF Bounds, TypeOK, Piece
  <2>5. TypeOK' /\ Bounds'
    BY <2>1, <2>3, <2>4, JournalAssumption DEF TypeOK, Bounds, ReadEvents, Piece
  <2>6. AckedDurable'
    BY <2>1 DEF AckedDurable
  <2>7. NothingForgotten'
    <3>1. ASSUME NEW e \in acknowledged PROVE e \in ReadEvents
      <4>1. PICK k \in 1..synced : pieces[k].event = e /\ pieces[k].part = "line"
        BY DEF AckedDurable
      <4>2. k \in 1..Len(pieces) /\ WholeLine(k) /\ (k = 1 \/ WholeLine(k - 1))
        BY <2>1, <2>2, <4>1 DEF Readable, TypeOK
      <4>3. QED
        BY <4>1, <4>2 DEF ReadEvents
    <3>2. QED
      BY <2>1, <3>1 DEF NothingForgotten
  <2>8. Orderly'
    <3>1. pieces = <<>> => Len(pieces) = 0
      BY EmptySeq
    <3>2. QED
      BY <2>1, <2>2, <3>1 DEF Orderly
  <2>9. QED
    BY <2>5, <2>6, <2>7, <2>8
<1>8. CASE UNCHANGED journalVars
  BY <1>8 DEF journalVars, TypeOK, Bounds, AckedDurable, NothingForgotten, Orderly
<1>9. QED
  BY <1>1, <1>2, <1>3, <1>4, <1>5, <1>6, <1>7, <1>8 DEF JournalNext

(***************************************************************************)
(* Theorems                                                                *)
(***************************************************************************)
(* The strengthening the properties follow from: the types, the bounds of  *)
(* the counters, what was acknowledged and what is known, and, when appends *)
(* fail cleanly, a file whose lines are in order.                          *)
THEOREM Invariant == JournalSpec => []IInv
<1>1. JournalInit => IInv
  BY InvInit
<1>2. IInv /\ [JournalNext]_journalVars => IInv'
  BY InvStep
<1>3. QED
  BY <1>1, <1>2, PTL DEF JournalSpec

(* Every variable of the journal keeps its type.                           *)
THEOREM TypeCorrect == JournalSpec => []TypeOK
<1>1. IInv => TypeOK
  BY DEF IInv
<1>2. QED
  BY <1>1, Invariant, PTL

(* What an append reported as written survives every later failure, kill   *)
(* and loss of power.                                                      *)
THEOREM Durable == JournalSpec => []AckedDurable
<1>1. IInv => AckedDurable
  BY DEF IInv
<1>2. QED
  BY <1>1, Invariant, PTL

(* A process that starts knows all of it.                                  *)
THEOREM Remembered == JournalSpec => []NothingForgotten
<1>1. IInv => NothingForgotten
  BY DEF IInv
<1>2. QED
  BY <1>1, Invariant, PTL

(* Where failed appends leave nothing in the file and a kill or a loss of   *)
(* power no half line, the file can always be read again.                  *)
THEOREM Restartable == JournalSpec => []StartsAgain
<1>1. IInv => StartsAgain
  BY DEF IInv, Orderly, StartsAgain, Readable, WholeLine
<1>2. QED
  BY <1>1, Invariant, PTL

(***************************************************************************)
(* Refinement                                                              *)
(***************************************************************************)
LogSeq == [k \in 1..Len(pieces) |-> pieces[k].event]

LEMMA LogTyped ==
  ASSUME TypeOK
  PROVE  LogSeq \in Seq(1..MaxEvents) /\ Len(LogSeq) = Len(pieces)
<1>1. Len(pieces) \in Nat /\ \A k \in 1..Len(pieces) : pieces[k].event \in 1..MaxEvents
  BY FileTyped DEF Piece
<1>2. QED
  BY <1>1 DEF LogSeq

LEMMA LogWritten ==
  ASSUME IInv, Try, NEW part \in {"line", "bare", "torn"}, pieces' = Written(part)
  PROVE  LogSeq' = Append(LogSeq, attempts') /\ attempts' \in 1..MaxEvents
<1>1. /\ Len(pieces') = Len(pieces) + 1
      /\ \A k \in 1..Len(pieces) : pieces'[k] = pieces[k]
      /\ pieces'[Len(pieces) + 1] =
           [event |-> attempts + 1, seq |-> sequence + 1, part |-> part]
      /\ Len(pieces) \in Nat
  BY WriteKeeps DEF IInv
<1>2. attempts' = attempts + 1 /\ attempts' \in 1..MaxEvents
  BY JournalAssumption DEF IInv, TypeOK, Try
<1>3. LogSeq \in Seq(1..MaxEvents) /\ Len(LogSeq) = Len(pieces)
  BY LogTyped DEF IInv
<1>4. /\ Append(LogSeq, attempts') \in Seq(1..MaxEvents)
      /\ Len(Append(LogSeq, attempts')) = Len(LogSeq) + 1
      /\ \A k \in 1..Len(LogSeq) : Append(LogSeq, attempts')[k] = LogSeq[k]
      /\ Append(LogSeq, attempts')[Len(LogSeq) + 1] = attempts'
  BY <1>2, <1>3, AppendProperties
<1>5. \A k \in 1..Len(pieces) + 1 : LogSeq'[k] = Append(LogSeq, attempts')[k]
  BY <1>1, <1>2, <1>3, <1>4 DEF LogSeq
<1>6. LogSeq' \in Seq(1..MaxEvents) /\ Len(LogSeq') = Len(pieces) + 1
  BY <1>1, <1>2, <1>3, <1>4, <1>5 DEF LogSeq
<1>7. LogSeq' = Append(LogSeq, attempts')
  BY <1>3, <1>4, <1>5, <1>6, SeqEqual
<1>8. QED
  BY <1>2, <1>7

LEMMA LogStep ==
  ASSUME IInv, [JournalNext]_journalVars
  PROVE  [Log!Next]_Log!vars
<1>0. clean' = clean
  BY DEF JournalNext, AppendEvent, AppendThrows, AppendUnregistered, Exit, ExitInAppend, PowerLoss,
         OpenJournal, journalVars
<1>a. CASE ~clean
  BY <1>0, <1>a DEF Log!vars
<1> SUFFICES ASSUME clean PROVE [Log!Next]_Log!vars
  BY <1>a
<1> USE <1>0
<1>1. CASE AppendEvent
  <2>1. LogSeq' = Append(LogSeq, attempts') /\ attempts' \in 1..MaxEvents
    BY <1>1, LogWritten DEF AppendEvent
  <2>2. PICK e \in 1..MaxEvents : e = attempts'
    BY <2>1
  <2>3. Log!Write(e)
    <3>1. acknowledged' = acknowledged \cup {e}
      BY <1>1, <2>2 DEF AppendEvent
    <3>2. QED
      BY <2>1, <2>2, <3>1 DEF Log!Write, LogSeq
  <2>4. QED
    BY <2>3 DEF Log!Next
<1>2. CASE AppendThrows \/ AppendUnregistered \/ Exit \/ OpenJournal \/ UNCHANGED journalVars
  <2>1. pieces' = pieces /\ acknowledged' = acknowledged
    BY <1>2, FaultsTyped DEF AppendThrows, AppendUnregistered, Exit, OpenJournal, journalVars
  <2>2. QED
    BY <2>1 DEF Log!vars
<1>3. CASE ExitInAppend
  <2>1. Try /\ pieces' = Written("line") /\ acknowledged' = acknowledged
    BY <1>3, FaultsTyped DEF ExitInAppend
  <2>2. LogSeq' = Append(LogSeq, attempts') /\ attempts' \in 1..MaxEvents
    BY <2>1, LogWritten
  <2>3. PICK e \in 1..MaxEvents : e = attempts'
    BY <2>2
  <2>4. Log!WriteSilently(e)
    BY <2>1, <2>2, <2>3 DEF Log!WriteSilently, LogSeq
  <2>5. QED
    BY <2>4 DEF Log!Next
<1>4. CASE PowerLoss
  <2>1. /\ pieces' \in Seq(Piece)
        /\ Len(pieces') \in synced..Len(pieces)
        /\ \A k \in 1..Len(pieces') : pieces'[k].event = pieces[k].event
    BY <1>4, PowerLossKeeps DEF IInv
  <2>2. acknowledged' = acknowledged
    BY <1>4 DEF PowerLoss
  <2>3. PICK n \in 0..Len(pieces) : n = Len(pieces') /\ synced <= n
    BY <2>1, FileTyped DEF IInv
  <2>4. LogSeq \in Seq(1..MaxEvents) /\ Len(LogSeq) = Len(pieces) /\ Len(pieces) \in Nat
    BY LogTyped, FileTyped DEF IInv
  <2>5. LogSeq' = SubSeq(LogSeq, 1, n)
    <3>1. /\ SubSeq(LogSeq, 1, n) \in Seq(1..MaxEvents)
          /\ Len(SubSeq(LogSeq, 1, n)) = n
          /\ \A k \in 1..n : SubSeq(LogSeq, 1, n)[k] = LogSeq[k]
      <4>1. \A k \in 1..n : LogSeq[k] \in 1..MaxEvents
        <5>1. \A k \in 1..Len(LogSeq) : LogSeq[k] \in 1..MaxEvents
          BY <2>4, ElementOfSeq
        <5>2. QED
          BY <2>3, <2>4, <5>1
      <4>2. /\ SubSeq(LogSeq, 1, n) \in Seq(1..MaxEvents)
            /\ Len(SubSeq(LogSeq, 1, n)) = IF 1 <= n THEN n - 1 + 1 ELSE 0
            /\ \A k \in 1..n - 1 + 1 : SubSeq(LogSeq, 1, n)[k] = LogSeq[1 + k - 1]
        BY <4>1, SubSeqProperties
      <4>3. QED
        BY <2>3, <2>4, <4>2
    <3>2. \A k \in 1..n : LogSeq'[k] = LogSeq[k]
      BY <2>1, <2>3, <2>4 DEF LogSeq
    <3>3. LogSeq' \in Seq(1..MaxEvents) /\ Len(LogSeq') = n
      <4>1. LogSeq' = [k \in 1..n |-> pieces'[k].event] /\ n \in Nat
        BY <2>3, <2>4 DEF LogSeq
      <4>2. \A k \in 1..n : pieces'[k].event \in 1..MaxEvents
        <5>1. \A k \in 1..Len(pieces') : pieces'[k] \in Piece
          BY <2>1, ElementOfSeq
        <5>2. QED
          BY <2>3, <5>1 DEF Piece
      <4>3. QED
        BY <4>1, <4>2
    <3>4. QED
      BY <3>1, <3>2, <3>3, SeqEqual
  <2>6. \A k \in n + 1..Len(LogSeq) : LogSeq[k] \notin acknowledged
    <3> SUFFICES ASSUME NEW k \in n + 1..Len(LogSeq), LogSeq[k] \in acknowledged PROVE FALSE
      OBVIOUS
    <3>1. k \in 1..Len(pieces) /\ synced < k /\ LogSeq[k] = pieces[k].event
      BY <2>3, <2>4, FileTyped DEF LogSeq, IInv
    <3>2. PICK j \in 1..synced : pieces[j].event = LogSeq[k]
      BY DEF IInv, AckedDurable
    <3>3. j \in 1..Len(pieces) /\ j < k
      BY <3>1, <3>2, FileTyped DEF IInv
    <3>4. pieces[j].event < pieces[k].event /\ pieces[k].event \in Nat
      BY <3>1, <3>3, FileTyped DEF IInv, Bounds
    <3>5. QED
      BY <3>1, <3>2, <3>4
  <2>7. Log!LoseTail
    BY <2>2, <2>3, <2>4, <2>5, <2>6 DEF Log!LoseTail, LogSeq
  <2>8. QED
    BY <2>7 DEF Log!Next
<1>5. QED
  BY <1>1, <1>2, <1>3, <1>4 DEF JournalNext

(* There the journal is the log that the order services take it for: an    *)
(* append happens or leaves nothing behind.                                *)
THEOREM Implements == JournalSpec => ImplementsLog
<1>1. JournalInit => Log!Init
  <2> SUFFICES ASSUME JournalInit PROVE Log!Init
    OBVIOUS
  <2>1. Len(pieces) = 0
    BY EmptySeq DEF JournalInit
  <2>2. LogSeq = <<>>
    BY <2>1 DEF LogSeq
  <2>3. QED
    BY <2>2 DEF JournalInit, Log!Init, LogSeq
<1>2. IInv /\ [JournalNext]_journalVars => [Log!Next]_Log!vars
  BY LogStep
<1>3. QED
  BY <1>1, <1>2, Invariant, PTL DEF JournalSpec, ImplementsLog, Log!Spec

=============================================================================
