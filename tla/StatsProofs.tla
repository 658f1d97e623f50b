----------------------------- MODULE StatsProofs ------------------------------
(***************************************************************************)
(* Proofs about the transfer statistics: what the dashboard shows, for     *)
(* queues of any number of files of any size, any number of reports under  *)
(* way and any watermarks.                                                 *)
(***************************************************************************)
EXTENDS TransferStats, Queues, WellFoundedInduction

LEMMA LeastNatural ==
  ASSUME NEW T, T \subseteq Nat, T # {}
  PROVE  \E n \in T : \A k \in T : n <= k
<1>1. IsWellFoundedOn(OpToRel(<, Nat), Nat)
  BY NatLessThanWellFounded
<1>2. PICK x \in T : \A y \in T : ~(<<y, x>> \in OpToRel(<, Nat))
  BY <1>1, WFMin
<1>3. ASSUME NEW y \in T PROVE x <= y
  <2>1. <<y, x>> \in OpToRel(<, Nat) <=> y < x
    BY DEF OpToRel
  <2>2. ~(y < x) /\ x \in Nat /\ y \in Nat
    BY <1>2, <2>1
  <2> QED BY <2>2
<1> QED BY <1>3

\* Induction, stated of a set rather than of a predicate.
LEMMA InductiveSet ==
  ASSUME NEW S, S \subseteq Nat, 0 \in S, \A n \in S : n + 1 \in S
  PROVE  S = Nat
<1> SUFFICES ASSUME NEW n \in Nat \ S PROVE FALSE
  OBVIOUS
<1>1. PICK m \in Nat \ S : \A k \in Nat \ S : m <= k
  <2> DEFINE T == Nat \ S
  <2>1. T \subseteq Nat /\ T # {}
    OBVIOUS
  <2> HIDE DEF T
  <2>2. \E m \in T : \A k \in T : m <= k
    BY <2>1, LeastNatural
  <2> QED BY <2>2 DEF T
<1>2. m - 1 \in Nat /\ m - 1 < m
  OBVIOUS
<1>3. m - 1 \in S
  BY <1>1, <1>2
<1> QED BY <1>2, <1>3

-----------------------------------------------------------------------------
\* The sum of the sizes is what its recursive definition says.
LEMMA SizeType ==
  /\ Len(Size) \in Nat \ {0}
  /\ \A f \in File : Size[f] \in Nat \ {0}
BY TransferStatsAssumption DEF File

LEMMA BeforeExists ==
  \E b : b = [f \in 0..Len(Size) |-> IF f <= 1 THEN 0 ELSE b[f - 1] + Size[f - 1]]
<1> DEFINE Sums(n) == {b \in [0..n -> Nat] :
                         \A f \in 0..n : f <= Len(Size) =>
                           b[f] = IF f <= 1 THEN 0 ELSE b[f - 1] + Size[f - 1]}
           S == {n \in Nat : Sums(n) # {}}
<1>1. 0 \in S
  <2>1. [f \in 0..0 |-> 0] \in Sums(0)
    OBVIOUS
  <2> QED BY <2>1
<1>2. ASSUME NEW n \in S PROVE n + 1 \in S
  <2>1. PICK b : b \in Sums(n)
    BY <1>2
  <2> DEFINE more == IF n + 1 <= 1 \/ n + 1 > Len(Size) THEN 0 ELSE b[n] + Size[n]
             c == [f \in 0..(n + 1) |-> IF f = n + 1 THEN more ELSE b[f]]
  <2>2. more \in Nat
    BY <2>1, SizeType DEF File
  <2>3. c \in [0..(n + 1) -> Nat]
    BY <2>1, <2>2
  <2>4. ASSUME NEW f \in 0..(n + 1), f <= Len(Size)
        PROVE  c[f] = IF f <= 1 THEN 0 ELSE c[f - 1] + Size[f - 1]
    BY <2>1, <2>4
  <2>5. c \in Sums(n + 1)
    BY <2>3, <2>4
  <2>6. n + 1 \in Nat
    BY <1>2
  <2> HIDE DEF Sums, c
  <2>7. Sums(n + 1) # {}
    BY <2>5
  <2> QED BY <2>6, <2>7
<1>3. S = Nat
  <2>1. S \subseteq Nat
    OBVIOUS
  <2> HIDE DEF S
  <2> QED BY <1>1, <1>2, <2>1, InductiveSet
<1>4. PICK b : b \in Sums(Len(Size))
  BY <1>3, SizeType
<1>5. b = [f \in 0..Len(Size) |-> IF f <= 1 THEN 0 ELSE b[f - 1] + Size[f - 1]]
  BY <1>4, SizeType
<1> QED BY <1>5

LEMMA BeforeDefined ==
  Before = [f \in 0..Len(Size) |-> IF f <= 1 THEN 0 ELSE Before[f - 1] + Size[f - 1]]
BY BeforeExists DEF Before


LEMMA BeforeType ==
  /\ Before \in [0..Len(Size) -> Nat]
  /\ Before[0] = 0 /\ Before[1] = 0
  /\ \A f \in File : f + 1 \in File => Before[f + 1] = Before[f] + Size[f]
<1>1. \A f \in 0..Len(Size) : Before[f] = IF f <= 1 THEN 0 ELSE Before[f - 1] + Size[f - 1]
  BY BeforeDefined
<1> DEFINE S == {n \in Nat : n <= Len(Size) => Before[n] \in Nat}
<1>2. 0 \in S
  BY <1>1, SizeType
<1>3. ASSUME NEW n \in S PROVE n + 1 \in S
  <2>1. n \in Nat /\ (n <= Len(Size) => Before[n] \in Nat)
    BY <1>3
  <2>2. CASE n + 1 <= Len(Size) /\ n + 1 > 1
    <3>1. Before[n + 1] = Before[n] + Size[n] /\ n \in File
      BY <1>1, <2>1, <2>2, SizeType DEF File
    <3> QED BY <2>1, <2>2, <3>1, SizeType
  <2>3. CASE ~(n + 1 <= Len(Size) /\ n + 1 > 1)
    BY <1>1, <2>1, <2>3, SizeType
  <2> QED BY <2>2, <2>3
<1>4. S = Nat
  <2>1. S \subseteq Nat
    OBVIOUS
  <2> HIDE DEF S
  <2> QED BY <1>2, <1>3, <2>1, InductiveSet
<1>5. \A f \in 0..Len(Size) : Before[f] \in Nat
  BY <1>4, SizeType
<1> QED BY <1>1, <1>5, BeforeDefined, SizeType DEF File

LEMMA BeforeGrows ==
  ASSUME NEW f \in 0..Len(Size), NEW g \in 0..Len(Size), f < g
  PROVE  Before[f] + (IF f = 0 THEN 0 ELSE Size[f]) <= Before[g]
<1> DEFINE S == {n \in Nat : f + n + 1 <= Len(Size) =>
                    Before[f] + (IF f = 0 THEN 0 ELSE Size[f]) <= Before[f + n + 1]}
<1>1. 0 \in S
  BY BeforeType, SizeType DEF File
<1>2. ASSUME NEW n \in S PROVE n + 1 \in S
  <2>1. n \in Nat /\ (f + n + 1 <= Len(Size) =>
          Before[f] + (IF f = 0 THEN 0 ELSE Size[f]) <= Before[f + n + 1])
    BY <1>2
  <2>2. CASE f + (n + 1) + 1 <= Len(Size)
    <3>1. f + n + 1 \in File /\ (f + n + 1) + 1 \in File
      BY <2>1, <2>2, SizeType DEF File
    <3>2. Before[(f + n + 1) + 1] = Before[f + n + 1] + Size[f + n + 1]
      BY <3>1, BeforeType
    <3>3. (f + n + 1) + 1 = f + (n + 1) + 1 /\ f + n + 1 <= Len(Size)
      BY <2>1, <2>2, SizeType
    <3>4. /\ Before[f + n + 1] \in Nat /\ Size[f + n + 1] \in Nat /\ Before[f] \in Nat
          /\ f # 0 => Size[f] \in Nat
      BY <3>1, BeforeType, SizeType DEF File
    <3>5. Before[f + (n + 1) + 1] = Before[f + n + 1] + Size[f + n + 1]
      BY <3>2, <3>3
    <3> QED BY <2>1, <3>3, <3>4, <3>5
  <2>3. CASE ~(f + (n + 1) + 1 <= Len(Size))
    BY <2>1, <2>3
  <2> QED BY <2>2, <2>3
<1>3. S = Nat
  <2>1. S \subseteq Nat
    OBVIOUS
  <2> HIDE DEF S
  <2> QED BY <1>1, <1>2, <2>1, InductiveSet
<1>4. g - f - 1 \in Nat /\ f + (g - f - 1) + 1 = g
  OBVIOUS
<1> HIDE DEF S
<1>5. g - f - 1 \in S
  BY <1>3, <1>4
<1> QED BY <1>4, <1>5 DEF S


-----------------------------------------------------------------------------
\* The channel leads the receiver, chunk by chunk, from its place to the sender's.
Numbers == 0..Len(Size)
Limit(f) == IF f = 0 THEN 0 ELSE Size[f]

Leads(queue, files, chunks) ==
  /\ files \in [0..Len(queue) -> Numbers] /\ chunks \in [0..Len(queue) -> Nat]
  /\ \A i \in 1..Len(queue) :
       /\ chunks[i] <= Limit(files[i])
       /\ queue[i] = "FILE_OFFER" => files[i] = files[i - 1] + 1 /\ chunks[i] = 0
       /\ queue[i] = "CHUNK" =>
            /\ files[i] = files[i - 1] /\ files[i] # 0
            /\ chunks[i] = chunks[i - 1] + 1
       /\ queue[i] = "TRANSFER_COMPLETE" =>
            files[i] = files[i - 1] /\ chunks[i] = chunks[i - 1]

Track(queue, f, n, g, m) ==
  \E files, chunks :
    /\ Leads(queue, files, chunks)
    /\ files[0] = f /\ chunks[0] = n
    /\ files[Len(queue)] = g /\ chunks[Len(queue)] = m

Message == {"FILE_OFFER", "CHUNK", "TRANSFER_COMPLETE"}

LEMMA TrackNone ==
  ASSUME NEW f \in Numbers, NEW n \in Nat
  PROVE  Track(<<>>, f, n, f, n)
<1>1. Leads(<<>>, [i \in 0..0 |-> f], [i \in 0..0 |-> n])
  BY DEF Leads
<1> QED BY <1>1 DEF Track

LEMMA TrackTail ==
  ASSUME NEW q \in Seq(Message), q # <<>>, NEW f, NEW n, NEW g, NEW m, Track(q, f, n, g, m)
  PROVE  /\ f \in Numbers /\ n \in Nat
         /\ Head(q) = "FILE_OFFER" => f + 1 \in Numbers /\ Track(Tail(q), f + 1, 0, g, m)
         /\ Head(q) = "CHUNK" =>
              f \in File /\ n + 1 <= Size[f] /\ Track(Tail(q), f, n + 1, g, m)
         /\ Head(q) = "TRANSFER_COMPLETE" => Track(Tail(q), f, n, g, m)
<1>1. PICK files, chunks :
        /\ Leads(q, files, chunks)
        /\ files[0] = f /\ chunks[0] = n
        /\ files[Len(q)] = g /\ chunks[Len(q)] = m
  BY DEF Track
<1> DEFINE fs == [i \in 0..Len(Tail(q)) |-> files[i + 1]]
           cs == [i \in 0..Len(Tail(q)) |-> chunks[i + 1]]
<1>2. /\ Len(q) \in Nat /\ Len(q) >= 1 /\ Len(Tail(q)) = Len(q) - 1 /\ Head(q) = q[1]
      /\ \A i \in 1..Len(Tail(q)) : Tail(q)[i] = q[i + 1]
  OBVIOUS
<1>3. Leads(Tail(q), fs, cs)
  <2>1. fs \in [0..Len(Tail(q)) -> Numbers] /\ cs \in [0..Len(Tail(q)) -> Nat]
    BY <1>1, <1>2 DEF Leads
  <2>2. ASSUME NEW i \in 1..Len(Tail(q))
        PROVE  /\ i + 1 \in 1..Len(q) /\ fs[i] = files[i + 1] /\ cs[i] = chunks[i + 1]
               /\ fs[i - 1] = files[(i + 1) - 1] /\ cs[i - 1] = chunks[(i + 1) - 1]
               /\ Tail(q)[i] = q[i + 1]
    BY <1>2
  <2> HIDE DEF fs, cs
  <2>3. ASSUME NEW i \in 1..Len(Tail(q))
        PROVE  /\ cs[i] <= Limit(fs[i])
               /\ Tail(q)[i] = "FILE_OFFER" => fs[i] = fs[i - 1] + 1 /\ cs[i] = 0
               /\ Tail(q)[i] = "CHUNK" =>
                    fs[i] = fs[i - 1] /\ fs[i] # 0 /\ cs[i] = cs[i - 1] + 1
               /\ Tail(q)[i] = "TRANSFER_COMPLETE" => fs[i] = fs[i - 1] /\ cs[i] = cs[i - 1]
    BY <1>1, <2>2 DEF Leads
  <2> QED BY <2>1, <2>3 DEF Leads
<1>4. /\ fs[0] = files[1] /\ cs[0] = chunks[1]
      /\ fs[Len(Tail(q))] = g /\ cs[Len(Tail(q))] = m
  BY <1>1, <1>2
<1>5. 1 \in 1..Len(q) /\ 1 - 1 = 0
  BY <1>2
<1>6. /\ files[1] \in Numbers /\ files[0] \in Numbers /\ chunks[0] \in Nat
      /\ chunks[1] <= Limit(files[1])
      /\ q[1] = "FILE_OFFER" => files[1] = files[0] + 1 /\ chunks[1] = 0
      /\ q[1] = "CHUNK" => files[1] = files[0] /\ files[1] # 0 /\ chunks[1] = chunks[0] + 1
      /\ q[1] = "TRANSFER_COMPLETE" => files[1] = files[0] /\ chunks[1] = chunks[0]
  BY <1>1, <1>2, <1>5 DEF Leads
<1> HIDE DEF fs, cs
<1>7. Track(Tail(q), files[1], chunks[1], g, m)
  BY <1>3, <1>4 DEF Track
<1> QED BY <1>1, <1>2, <1>6, <1>7, SizeType DEF Limit, File, Numbers

LEMMA TrackMore ==
  ASSUME NEW q \in Seq(Message), NEW x \in Message, NEW f, NEW n, NEW g, NEW m,
         Track(q, f, n, g, m), NEW h \in Numbers, NEW k \in Nat, k <= Limit(h),
         \/ x = "FILE_OFFER" /\ h = g + 1 /\ k = 0
         \/ x = "CHUNK" /\ h = g /\ h # 0 /\ k = m + 1
         \/ x = "TRANSFER_COMPLETE" /\ h = g /\ k = m
  PROVE  Track(Append(q, x), f, n, h, k)
<1>1. PICK files, chunks :
        /\ Leads(q, files, chunks)
        /\ files[0] = f /\ chunks[0] = n
        /\ files[Len(q)] = g /\ chunks[Len(q)] = m
  BY DEF Track
<1> DEFINE fs == [i \in 0..(Len(q) + 1) |-> IF i = Len(q) + 1 THEN h ELSE files[i]]
           cs == [i \in 0..(Len(q) + 1) |-> IF i = Len(q) + 1 THEN k ELSE chunks[i]]
<1>2. /\ Len(q) \in Nat /\ Len(Append(q, x)) = Len(q) + 1
      /\ Append(q, x)[Len(q) + 1] = x
      /\ \A i \in 1..Len(q) : Append(q, x)[i] = q[i]
  OBVIOUS
<1>3. /\ fs \in [0..Len(Append(q, x)) -> Numbers] /\ cs \in [0..Len(Append(q, x)) -> Nat]
      /\ \A i \in 0..Len(q) : fs[i] = files[i] /\ cs[i] = chunks[i]
      /\ fs[Len(q) + 1] = h /\ cs[Len(q) + 1] = k
  BY <1>1, <1>2 DEF Leads
<1> HIDE DEF fs, cs
<1>4. ASSUME NEW i \in 1..Len(Append(q, x))
      PROVE  /\ cs[i] <= Limit(fs[i])
             /\ Append(q, x)[i] = "FILE_OFFER" => fs[i] = fs[i - 1] + 1 /\ cs[i] = 0
             /\ Append(q, x)[i] = "CHUNK" =>
                  fs[i] = fs[i - 1] /\ fs[i] # 0 /\ cs[i] = cs[i - 1] + 1
             /\ Append(q, x)[i] = "TRANSFER_COMPLETE" =>
                  fs[i] = fs[i - 1] /\ cs[i] = cs[i - 1]
  <2>1. CASE i = Len(q) + 1
    <3>1. fs[i - 1] = g /\ cs[i - 1] = m
      BY <1>1, <1>2, <1>3, <2>1
    <3> QED BY <1>2, <1>3, <2>1, <3>1
  <2>2. CASE i # Len(q) + 1
    <3>1. i \in 1..Len(q) /\ i \in 0..Len(q) /\ i - 1 \in 0..Len(q)
      BY <1>2, <2>2
    <3> QED BY <1>1, <1>2, <1>3, <3>1 DEF Leads
  <2> QED BY <2>1, <2>2
<1>5. Leads(Append(q, x), fs, cs)
  BY <1>3, <1>4 DEF Leads
<1>6. 0 \in 0..Len(q)
  BY <1>2
<1> QED BY <1>1, <1>2, <1>3, <1>5, <1>6 DEF Track

LEMMA TrackEnds ==
  ASSUME NEW q \in Seq(Message), NEW f, NEW n, NEW g, NEW m, Track(q, f, n, g, m)
  PROVE  f \in Numbers /\ n \in Nat /\ g \in Numbers /\ m \in Nat
<1>1. Len(q) \in Nat
  OBVIOUS
<1> QED BY <1>1 DEF Track, Leads


-----------------------------------------------------------------------------
\* Where the two pages are.  No chunk of a file is sent that the file does not have.
SenderInv ==
  /\ sending.step = "idle" <=> sending.file = 0
  /\ sending.offset <= Limit(sending.file)
  /\ sending.step = "next" => sending.file < Len(Size)
  /\ sending.step \in {"waiting", "loop", "reading"} => sending.offset < Limit(sending.file)
  /\ sending.step = "waiting" => sending.offset = 0
  /\ sending.last # None =>
       /\ sending.last.bytes <= Limit(sending.last.file)
       /\ sending.last.file <= sending.file
       /\ sending.last.file = sending.file => sending.last.bytes <= sending.offset

ReceiverInv ==
  /\ receiving.total <= Limit(receiving.file)
  /\ receiving.active => receiving.file # 0

ChannelInv ==
  IF open = Page
  THEN Track(channel, receiving.file, receiving.total, sending.file, sending.offset)
  ELSE channel = <<>>

PlacesInv == SenderInv /\ ReceiverInv /\ ChannelInv

TypeInv == TypeOK /\ PlacesInv

PageTypes ==
  /\ sending \in Sending
  /\ receiving \in Receiving
  /\ channel \in Seq(Message)
  /\ signals \in Seq(BOOLEAN)
  /\ pauses \in 0..MaxPauses
  /\ open \subseteq Page
  /\ reports \in [Page -> Seq(Report)]

StatsTypes ==
  /\ peers \subseteq Page
  /\ transfers \in [Key -> Transfer \cup {None}]
  /\ timers \subseteq [key : Key, bytes : Nat]
  /\ counting \in Seq(Nat \ {0})
  /\ total \in Nat
  /\ removed \subseteq Key \X File
  /\ retold \in BOOLEAN

LEMMA TypesSplit == TypeOK <=> PageTypes /\ StatsTypes
BY DEF TypeOK, PageTypes, StatsTypes, Message

LEMMA LimitType ==
  ASSUME NEW f \in Numbers
  PROVE  Limit(f) \in Nat /\ (f # 0 => f \in File /\ Limit(f) = Size[f] /\ Limit(f) > 0)
BY SizeType DEF Numbers, File, Limit

LEMMA SendingFields ==
  ASSUME NEW x \in Sending
  PROVE  /\ x.step \in {"idle", "waiting", "loop", "reading", "next", "done", "failed"}
         /\ x.file \in Numbers /\ x.offset \in Nat
         /\ x.paused \in BOOLEAN /\ x.slow \in BOOLEAN
         /\ x.last \in SendProgress \cup {None}
         /\ x.last # None =>
              /\ x.last \in SendProgress /\ x.last.file \in File /\ x.last.file \in Numbers
              /\ x.last.bytes \in Nat
BY SizeType DEF Sending, SendProgress, Numbers, File

LEMMA ReceivingFields ==
  ASSUME NEW x \in Receiving
  PROVE  /\ x.file \in Numbers /\ x.total \in Nat /\ x.confirmed \in Nat
         /\ x.active \in BOOLEAN /\ x.engaged \in BOOLEAN
BY DEF Receiving, Numbers

LEMMA ReportFields ==
  ASSUME NEW m \in Report
  PROVE  /\ m.type \in {"PROGRESS", "BACKPRESSURE", "disconnect"}
         /\ m.type = "PROGRESS" =>
              m.file \in File /\ m.bytes \in Nat /\ m.paused \in BOOLEAN \cup {None}
         /\ m.type = "BACKPRESSURE" => m.file \in File /\ m.engaged \in BOOLEAN
BY DEF Report, Progress, Backpressure

LEMMA ReportsMade ==
  /\ [type |-> "disconnect"] \in Report
  /\ \A f \in File :
       /\ \A b \in Nat, on \in BOOLEAN \cup {None} :
            [type |-> "PROGRESS", file |-> f, bytes |-> b, paused |-> on] \in Report
       /\ \A on \in BOOLEAN : [type |-> "BACKPRESSURE", file |-> f, engaged |-> on] \in Report
BY DEF Report, Progress, Backpressure

LEMMA Told ==
  ASSUME PageTypes, NEW p \in Page, NEW more \in Seq(Report), Tell(p, more)
  PROVE  /\ reports' \in [Page -> Seq(Report)]
         /\ reports'[p] = reports[p] \o more
         /\ \A q \in Page \ {p} : reports'[q] = reports[q]
<1>1. reports[p] \o more \in Seq(Report)
  BY ConcatElements DEF PageTypes
<1> QED BY <1>1 DEF Tell, PageTypes

\* What flushSendProgressNow tells: nothing yet, or where the sender is.
FlushedReport(x, paused) ==
  [type |-> "PROGRESS", file |-> x.last.file, bytes |-> x.last.bytes, paused |-> paused]

LEMMA FlushTold ==
  ASSUME PageTypes, NEW x \in Sending, NEW paused \in BOOLEAN, flushSendProgressNow(x, paused)
  PROVE  /\ reports' \in [Page -> Seq(Report)]
         /\ reports'["receiver"] = reports["receiver"]
         /\ x.last = None => reports'["sender"] = reports["sender"]
         /\ x.last # None =>
              /\ FlushedReport(x, paused) \in Report
              /\ reports'["sender"] = Append(reports["sender"], FlushedReport(x, paused))
<1>1. "sender" \in Page /\ "receiver" \in Page /\ reports["sender"] \in Seq(Report)
  BY DEF Page, PageTypes
<1>2. CASE x.last = None
  <2>1. Tell("sender", <<>>)
    BY <1>2 DEF flushSendProgressNow
  <2>2. reports["sender"] \o <<>> = reports["sender"] /\ <<>> \in Seq(Report)
    BY <1>1
  <2> QED BY <1>1, <1>2, <2>1, <2>2, Told
<1>3. CASE x.last # None
  <2>1. FlushedReport(x, paused) \in Report
    BY <1>3, SendingFields, ReportsMade DEF FlushedReport
  <2>2. PICK more : more = <<FlushedReport(x, paused)>>
    OBVIOUS
  <2>3. more \in Seq(Report) /\ Append(reports["sender"], FlushedReport(x, paused)) = reports["sender"] \o more
    BY <1>1, <2>1, <2>2, AppendConcat, ShortSequences
  <2>4. Tell("sender", more)
    BY <1>3, <2>2 DEF flushSendProgressNow, reportTransferProgress, FlushedReport
  <2> QED BY <1>1, <1>3, <2>1, <2>3, <2>4, Told
<1> QED BY <1>2, <1>3


-----------------------------------------------------------------------------
\* Each step keeps the types and the places.
LEMMA FlushedType ==
  ASSUME TypeInv, UNCHANGED <<receiving, channel, open>>, UNCHANGED statsVars,
         NEW x, x \in Sending, sending' = x,
         x.step = sending.step, x.file = sending.file, x.offset = sending.offset,
         x.last = sending.last, reports' \in [Page -> Seq(Report)], pauses' \in 0..MaxPauses,
         signals' \in Seq(BOOLEAN)
  PROVE  TypeInv'
<1>1. TypeOK'
  BY TypesSplit DEF TypeInv, TypeOK, Message, statsVars
<1>2. SenderInv'
  BY DEF TypeInv, PlacesInv, SenderInv
<1>3. ReceiverInv'
  BY DEF TypeInv, PlacesInv, ReceiverInv
<1>4. ChannelInv'
  BY DEF TypeInv, PlacesInv, ChannelInv
<1> QED BY <1>1, <1>2, <1>3, <1>4 DEF TypeInv, PlacesInv

LEMMA pauseSendType ==
  ASSUME TypeInv, UNCHANGED statsVars, pauseSend
  PROVE  TypeInv'
<1>1. sending \in Sending /\ PageTypes
  BY TypesSplit DEF TypeInv, PageTypes
<1>2. PICK x : x = [sending EXCEPT !.paused = TRUE]
  OBVIOUS
<1>3. /\ x \in Sending /\ x.step = sending.step /\ x.file = sending.file
      /\ x.offset = sending.offset /\ x.last = sending.last
  BY <1>1, <1>2 DEF Sending
<1>4. sending' = x /\ flushSendProgressNow(x, TRUE) /\ pauses' = pauses + 1 /\ pauses < MaxPauses
      /\ UNCHANGED <<receiving, channel, signals, open>>
  BY <1>2 DEF pauseSend, Flushed
<1>5. reports' \in [Page -> Seq(Report)]
  BY <1>1, <1>3, <1>4, FlushTold
<1>6. pauses' \in 0..MaxPauses /\ signals' \in Seq(BOOLEAN)
  BY <1>1, <1>4, TransferStatsAssumption DEF PageTypes
<1> QED BY <1>3, <1>4, <1>5, <1>6, FlushedType

LEMMA resumeSendType ==
  ASSUME TypeInv, UNCHANGED statsVars, resumeSend
  PROVE  TypeInv'
<1>1. sending \in Sending /\ PageTypes
  BY TypesSplit DEF TypeInv, PageTypes
<1>2. PICK x : x = [sending EXCEPT !.paused = FALSE]
  OBVIOUS
<1>3. /\ x \in Sending /\ x.step = sending.step /\ x.file = sending.file
      /\ x.offset = sending.offset /\ x.last = sending.last
  BY <1>1, <1>2 DEF Sending
<1>4. sending' = x /\ flushSendProgressNow(x, isSendBlocked(x))
      /\ UNCHANGED <<receiving, channel, signals, pauses, open>>
  BY <1>2 DEF resumeSend, Flushed
<1>5. isSendBlocked(x) \in BOOLEAN
  BY <1>3 DEF isSendBlocked
<1>6. reports' \in [Page -> Seq(Report)]
  BY <1>1, <1>3, <1>4, <1>5, FlushTold
<1>7. pauses' \in 0..MaxPauses /\ signals' \in Seq(BOOLEAN)
  BY <1>1, <1>4 DEF PageTypes
<1> QED BY <1>3, <1>4, <1>6, <1>7, FlushedType

LEMMA onBackpressureType ==
  ASSUME TypeInv, UNCHANGED statsVars, onBackpressure
  PROVE  TypeInv'
<1>1. sending \in Sending /\ PageTypes /\ signals \in Seq(BOOLEAN) /\ signals # <<>>
  BY TypesSplit DEF TypeInv, PageTypes, onBackpressure
<1>2. Head(signals) \in BOOLEAN /\ Tail(signals) \in Seq(BOOLEAN)
  BY <1>1, HeadTail
<1>3. PICK x : x = [sending EXCEPT !.slow = Head(signals)]
  OBVIOUS
<1>4. /\ x \in Sending /\ x.step = sending.step /\ x.file = sending.file
      /\ x.offset = sending.offset /\ x.last = sending.last
  BY <1>1, <1>2, <1>3 DEF Sending
<1>5. sending' = x /\ flushSendProgressNow(x, isSendBlocked(x)) /\ signals' = Tail(signals)
      /\ UNCHANGED <<receiving, channel, pauses, open>>
  BY <1>3 DEF onBackpressure, Flushed
<1>6. isSendBlocked(x) \in BOOLEAN
  BY <1>4 DEF isSendBlocked
<1>7. reports' \in [Page -> Seq(Report)]
  BY <1>1, <1>4, <1>5, <1>6, FlushTold
<1>8. pauses' \in 0..MaxPauses /\ signals' \in Seq(BOOLEAN)
  BY <1>1, <1>2, <1>5 DEF PageTypes
<1> QED BY <1>4, <1>5, <1>7, <1>8, FlushedType

LEMMA closePeerType ==
  ASSUME TypeInv, UNCHANGED statsVars, closePeer
  PROVE  TypeInv'
<1>1. sending \in Sending /\ PageTypes
  BY TypesSplit DEF TypeInv, PageTypes
<1>2. PICK x : x = [sending EXCEPT !.slow = FALSE]
  OBVIOUS
<1>3. /\ x \in Sending /\ x.step = sending.step /\ x.file = sending.file
      /\ x.offset = sending.offset /\ x.last = sending.last
  BY <1>1, <1>2 DEF Sending
<1>4. sending' = x /\ flushSendProgressNow(x, isSendBlocked(x))
      /\ UNCHANGED <<receiving, channel, signals, pauses, open>>
  BY <1>2 DEF closePeer, Flushed
<1>5. isSendBlocked(x) \in BOOLEAN
  BY <1>3, SendingFields DEF isSendBlocked
<1>6. reports' \in [Page -> Seq(Report)]
  BY <1>1, <1>3, <1>4, <1>5, FlushTold
<1>7. pauses' \in 0..MaxPauses /\ signals' \in Seq(BOOLEAN)
  BY <1>1, <1>4 DEF PageTypes
<1> QED BY <1>3, <1>4, <1>6, <1>7, FlushedType


LEMMA NothingMoreSent ==
  ASSUME TypeInv, UNCHANGED <<receiving, channel, signals, pauses, open>>, UNCHANGED statsVars,
         sending' \in Sending, sending'.file = sending.file, sending'.offset = sending.offset,
         SenderInv', reports' \in [Page -> Seq(Report)]
  PROVE  TypeInv'
<1>1. TypeOK'
  BY TypesSplit DEF TypeInv, TypeOK, Message, statsVars
<1>2. ReceiverInv'
  BY DEF TypeInv, PlacesInv, ReceiverInv
<1>3. ChannelInv'
  BY DEF TypeInv, PlacesInv, ChannelInv
<1> QED BY <1>1, <1>2, <1>3 DEF TypeInv, PlacesInv

LEMMA acceptWaitOverType ==
  ASSUME TypeInv, UNCHANGED statsVars, acceptWaitOver
  PROVE  TypeInv'
<1>1. sending \in Sending /\ PageTypes /\ SenderInv /\ sending.step = "waiting"
  BY TypesSplit DEF TypeInv, PageTypes, PlacesInv, acceptWaitOver
<1>2. PICK last : last = [file |-> sending.file, bytes |-> 0]
  OBVIOUS
<1>3. sending.file \in File /\ sending.offset \in Nat /\ sending.file # 0
  BY <1>1, SendingFields, SizeType DEF SenderInv, File, Numbers
<1>4. last \in SendProgress /\ last.file = sending.file /\ last.bytes = 0 /\ last # None
  BY <1>2, <1>3, NullAssumption DEF SendProgress
<1>5. sending' = [sending EXCEPT !.step = "loop", !.last = last]
  BY <1>2 DEF acceptWaitOver
<1>6. /\ sending' \in Sending /\ sending'.step = "loop" /\ sending'.file = sending.file
      /\ sending'.offset = sending.offset /\ sending'.last = last
  BY <1>1, <1>4, <1>5 DEF Sending
<1>7. SenderInv'
  <2>1. sending.file \in Numbers /\ Limit(sending.file) \in Nat
    BY <1>1, SendingFields, LimitType
  <2>2. /\ sending'.offset <= Limit(sending'.file) /\ sending'.offset < Limit(sending'.file)
        /\ ~(sending'.step = "idle") /\ sending'.file # 0 /\ ~(sending'.step = "next")
        /\ ~(sending'.step = "waiting")
    BY <1>1, <1>3, <1>6 DEF SenderInv
  <2>3. /\ sending'.last.bytes <= Limit(sending'.last.file)
        /\ sending'.last.file <= sending'.file
        /\ sending'.last.bytes <= sending'.offset
    BY <1>3, <1>4, <1>6, <2>1, SizeType DEF Numbers
  <2> QED BY <2>2, <2>3 DEF SenderInv
<1> QED BY <1>1, <1>6, <1>7, NothingMoreSent DEF acceptWaitOver, PageTypes

LEMMA readSliceType ==
  ASSUME TypeInv, UNCHANGED statsVars, readSlice
  PROVE  TypeInv'
<1>1. sending \in Sending /\ PageTypes /\ SenderInv /\ sending.step = "loop"
  BY TypesSplit DEF TypeInv, PageTypes, PlacesInv, readSlice
<1>2. /\ sending' \in Sending /\ sending'.step = "reading" /\ sending'.file = sending.file
      /\ sending'.offset = sending.offset /\ sending'.last = sending.last
  BY <1>1 DEF Sending, readSlice
<1>3. SenderInv'
  BY <1>1, <1>2 DEF SenderInv
<1> QED BY <1>1, <1>2, <1>3, NothingMoreSent DEF readSlice, PageTypes

LEMMA sendThrowsType ==
  ASSUME TypeInv, UNCHANGED statsVars, sendThrows
  PROVE  TypeInv'
<1>1. sending \in Sending /\ PageTypes /\ SenderInv /\ sending.step \in {"next", "reading"}
  BY TypesSplit DEF TypeInv, PageTypes, PlacesInv, sendThrows
<1>2. /\ sending' \in Sending /\ sending'.step = "failed" /\ sending'.file = sending.file
      /\ sending'.offset = sending.offset /\ sending'.last = sending.last
  BY <1>1 DEF Sending, sendThrows
<1>3. SenderInv'
  BY <1>1, <1>2 DEF SenderInv
<1> QED BY <1>1, <1>2, <1>3, NothingMoreSent DEF sendThrows, PageTypes

LEMMA offerFileType ==
  ASSUME TypeInv, UNCHANGED statsVars, "sender" \in open, offerFile
  PROVE  TypeInv'
<1>1. /\ sending \in Sending /\ PageTypes /\ StatsTypes /\ PlacesInv /\ open = Page
      /\ sending.step \in {"idle", "next"} /\ channel \in Seq(Message)
  BY TypesSplit DEF TypeInv, PageTypes, offerFile, Page
<1>2. sending.file \in Nat /\ sending.file < Len(Size) /\ Limit(sending.file + 1) \in Nat \ {0}
  BY <1>1, SendingFields, SizeType DEF PlacesInv, SenderInv, Numbers, Limit, File
<1>3. /\ sending' \in Sending /\ sending'.step = "waiting" /\ sending'.file = sending.file + 1
      /\ sending'.offset = 0 /\ sending'.last = sending.last
  <2>1. PICK f : f = sending.file + 1
    OBVIOUS
  <2>2. f \in 0..Len(Size)
    BY <1>2, <2>1, SizeType
  <2>3. sending' = [sending EXCEPT !.step = "waiting", !.file = f, !.offset = 0]
    BY <1>1, <2>1 DEF offerFile, Sending
  <2> QED BY <1>1, <2>1, <2>2, <2>3 DEF Sending
<1>4. SenderInv'
  <2>1. sending.last # None =>
          /\ sending.last.file \in Numbers /\ sending.last.file <= sending.file
          /\ sending.last.bytes <= Limit(sending.last.file)
    BY <1>1, SendingFields DEF PlacesInv, SenderInv
  <2>2. sending.last # None =>
          sending.last.file <= sending.file + 1 /\ sending.last.file # sending.file + 1
    BY <1>2, <2>1 DEF Numbers
  <2>3. /\ sending'.offset <= Limit(sending'.file) /\ sending'.offset < Limit(sending'.file)
        /\ ~(sending'.step = "idle") /\ sending'.file # 0 /\ ~(sending'.step = "next")
    BY <1>2, <1>3
  <2> QED BY <1>3, <2>1, <2>2, <2>3 DEF SenderInv
<1>5. channel' = Append(channel, "FILE_OFFER")
  BY DEF offerFile
<1>6. Track(channel, receiving.file, receiving.total, sending.file, sending.offset)
  BY <1>1 DEF PlacesInv, ChannelInv
<1>7. sending.file + 1 \in Numbers /\ 0 <= Limit(sending.file + 1) /\ "FILE_OFFER" \in Message
  BY <1>2, SizeType DEF Numbers, Message
<1>8. Track(channel', receiving.file, receiving.total, sending.file + 1, 0)
  BY <1>1, <1>5, <1>6, <1>7, TrackMore
<1>9. UNCHANGED <<receiving, signals, pauses, open, reports>>
  BY DEF offerFile
<1>10. ChannelInv' /\ ReceiverInv'
  BY <1>1, <1>3, <1>8, <1>9 DEF ChannelInv, PlacesInv, ReceiverInv
<1>11. TypeOK'
  <2>1. channel' \in Seq(Message)
    BY <1>1, <1>5, <1>7
  <2> QED BY <1>1, <1>3, <1>9, <2>1, TypesSplit DEF TypeOK, PageTypes, StatsTypes, Message, statsVars
<1> QED BY <1>4, <1>10, <1>11 DEF TypeInv, PlacesInv

\* What sendChunk tells, if anything.
ChunkReport(paused) ==
  [type |-> "PROGRESS", file |-> sending.file, bytes |-> sending.offset + 1, paused |-> paused]

LEMMA sendChunkTold ==
  ASSUME TypeInv, sendChunk
  PROVE  /\ sending.file \in File /\ sending.offset + 1 \in Nat
         /\ sending.offset + 1 <= Size[sending.file]
         /\ ChunkReport(FALSE) \in Report
         /\ reports' \in [Page -> Seq(Report)]
         /\ reports'["receiver"] = reports["receiver"]
         /\ \/ reports'["sender"] = reports["sender"]
            \/ reports'["sender"] = Append(reports["sender"], ChunkReport(FALSE))
<1>1. /\ PageTypes /\ SenderInv /\ sending \in Sending /\ sending.step = "reading"
      /\ "sender" \in Page /\ "receiver" \in Page /\ reports["sender"] \in Seq(Report)
  BY TypesSplit DEF TypeInv, PlacesInv, sendChunk, PageTypes, Page
<1>2. /\ sending.file \in File /\ sending.offset + 1 \in Nat
      /\ sending.offset + 1 <= Size[sending.file]
  BY <1>1, SendingFields, SizeType DEF SenderInv, Limit, Numbers, File
<1>3. ChunkReport(FALSE) \in Report
  BY <1>2, ReportsMade DEF ChunkReport
<1>4. PICK more : more = <<ChunkReport(FALSE)>>
  OBVIOUS
<1>5. Tell("sender", more) \/ Tell("sender", <<>>)
  BY <1>4 DEF sendChunk, reportTransferProgress, ChunkReport
<1>6. /\ more \in Seq(Report) /\ reports["sender"] \o more = Append(reports["sender"], ChunkReport(FALSE))
      /\ reports["sender"] \o <<>> = reports["sender"] /\ <<>> \in Seq(Report)
  <2>1. PICK m : m = ChunkReport(FALSE)
    OBVIOUS
  <2>2. Append(reports["sender"], m) = reports["sender"] \o <<m>> /\ <<m>> \in Seq(Report)
    BY <1>1, <1>3, <2>1, AppendConcat, ShortSequences
  <2>3. reports["sender"] \o <<>> = reports["sender"] /\ <<>> \in Seq(Report)
    BY <1>1
  <2> QED BY <1>4, <2>1, <2>2, <2>3
<1>7. CASE Tell("sender", more)
  BY <1>1, <1>2, <1>3, <1>6, <1>7, Told
<1>8. CASE Tell("sender", <<>>)
  BY <1>1, <1>2, <1>3, <1>6, <1>8, Told
<1> QED BY <1>5, <1>7, <1>8

LEMMA sendChunkType ==
  ASSUME TypeInv, UNCHANGED statsVars, "sender" \in open, sendChunk
  PROVE  TypeInv'
<1> DEFINE sent == sending.offset + 1
           last == sent = Size[sending.file]
<1>1. /\ sending \in Sending /\ PageTypes /\ StatsTypes /\ PlacesInv /\ open = Page
      /\ sending.step = "reading" /\ channel \in Seq(Message)
  BY TypesSplit DEF TypeInv, PageTypes, sendChunk, Page
<1>2. sending.file \in File /\ sent \in Nat /\ sent <= Size[sending.file]
  BY sendChunkTold
<1>3. reports' \in [Page -> Seq(Report)]
  BY sendChunkTold
<1>4. PICK at : at = [file |-> sending.file, bytes |-> sent]
  OBVIOUS
<1>5. at \in SendProgress /\ at.file = sending.file /\ at.bytes = sent
  BY <1>2, <1>4 DEF SendProgress
<1>6. PICK step : step = IF last THEN NextFile ELSE "loop"
  OBVIOUS
<1>7. sending' = [sending EXCEPT !.offset = sent, !.last = at, !.step = step]
  BY <1>4, <1>6 DEF sendChunk
<1>8. step \in {"next", "done", "loop"} /\ (step = "next" => sending.file < Len(Size))
      /\ (step = "loop" => ~last)
  BY <1>6 DEF NextFile
<1>9. /\ sending' \in Sending /\ sending'.step = step /\ sending'.file = sending.file
      /\ sending'.offset = sent /\ sending'.last = at
  BY <1>1, <1>2, <1>5, <1>7, <1>8 DEF Sending
<1>10. Limit(sending.file) = Size[sending.file] /\ sending.file # 0 /\ sending.file \in Numbers
       /\ Size[sending.file] \in Nat
  BY <1>2, SizeType DEF Limit, File, Numbers
<1>11. SenderInv'
  <2>1. at # None
    BY <1>5, NullAssumption
  <2>2. sending'.step \in {"waiting", "loop", "reading"} => sent < Limit(sending.file)
    BY <1>2, <1>8, <1>9, <1>10
  <2>3. /\ sending'.offset <= Limit(sending'.file)
        /\ ~(sending'.step = "idle") /\ sending'.file # 0
        /\ sending'.step = "next" => sending'.file < Len(Size)
        /\ ~(sending'.step = "waiting")
    BY <1>2, <1>8, <1>9, <1>10
  <2>4. /\ sending'.last.bytes <= Limit(sending'.last.file)
        /\ sending'.last.file <= sending'.file
        /\ sending'.last.bytes <= sending'.offset
    BY <1>2, <1>5, <1>9, <1>10 DEF Numbers
  <2> QED BY <1>9, <2>1, <2>2, <2>3, <2>4 DEF SenderInv
<1>12. Track(channel, receiving.file, receiving.total, sending.file, sending.offset)
  BY <1>1 DEF PlacesInv, ChannelInv
<1>13. PICK q : q = Append(channel, "CHUNK")
  OBVIOUS
<1>14. q \in Seq(Message) /\ Track(q, receiving.file, receiving.total, sending.file, sent)
  <2>1. "CHUNK" \in Message
    BY DEF Message
  <2> QED BY <1>1, <1>2, <1>10, <1>12, <1>13, <2>1, TrackMore
<1>15. channel' = q \/ channel' = Append(q, "TRANSFER_COMPLETE")
  BY <1>1, <1>13 DEF sendChunk
<1>16. /\ channel' \in Seq(Message)
       /\ Track(channel', receiving.file, receiving.total, sending.file, sent)
  <2>1. "TRANSFER_COMPLETE" \in Message
    BY DEF Message
  <2>2. Track(Append(q, "TRANSFER_COMPLETE"), receiving.file, receiving.total, sending.file, sent)
    BY <1>2, <1>10, <1>14, <2>1, TrackMore
  <2>3. Append(q, "TRANSFER_COMPLETE") \in Seq(Message)
    BY <1>14, <2>1, AppendConcat
  <2> QED BY <1>14, <1>15, <2>2, <2>3
<1>17. UNCHANGED <<receiving, signals, pauses, open>>
  BY DEF sendChunk
<1>18. ChannelInv' /\ ReceiverInv'
  BY <1>1, <1>9, <1>16, <1>17 DEF ChannelInv, PlacesInv, ReceiverInv
<1>19. TypeOK'
  BY <1>1, <1>3, <1>9, <1>16, <1>17, TypesSplit
     DEF TypeOK, PageTypes, StatsTypes, Message, statsVars
<1> QED BY <1>11, <1>18, <1>19 DEF TypeInv, PlacesInv


LagReport(file, engaged) == [type |-> "BACKPRESSURE", file |-> file, engaged |-> engaged]

LEMMA LagTold ==
  ASSUME PageTypes, NEW x \in Receiving, x.file \in File, NEW before \in Seq(Report),
         reportWriteLag(x, before)
  PROVE  /\ receiving' \in Receiving /\ receiving'.file = x.file /\ receiving'.total = x.total
         /\ receiving'.active = x.active
         /\ signals' \in Seq(BOOLEAN)
         /\ reports' \in [Page -> Seq(Report)]
         /\ reports'["sender"] = reports["sender"]
         /\ \/ reports'["receiver"] = reports["receiver"] \o before
            \/ \E on \in BOOLEAN :
                 reports'["receiver"] = Append(reports["receiver"] \o before, LagReport(x.file, on))
<1>1. PICK on : on = EngagedAfter(x)
  OBVIOUS
<1>2. on \in BOOLEAN
  <2>1. CASE x.engaged
    BY <1>1, <2>1 DEF EngagedAfter
  <2>2. CASE ~x.engaged
    BY <1>1, <2>2 DEF EngagedAfter
  <2> QED BY <2>1, <2>2
<1>3. receiving' = [x EXCEPT !.engaged = on]
  BY <1>1 DEF reportWriteLag
<1>4. /\ receiving' \in Receiving /\ receiving'.file = x.file /\ receiving'.total = x.total
      /\ receiving'.active = x.active
  BY <1>2, <1>3 DEF Receiving
<1>5. signals' \in Seq(BOOLEAN)
  <2>1. signals' = signals \/ signals' = Append(signals, on)
    BY <1>1 DEF reportWriteLag
  <2> QED BY <1>2, <2>1, AppendConcat DEF PageTypes
<1>6. PICK m : m = LagReport(x.file, on)
  OBVIOUS
<1>7. m \in Report
  BY <1>2, <1>6, ReportsMade DEF LagReport
<1>8. Tell("receiver", before \o <<m>>) \/ Tell("receiver", before \o <<>>)
  BY <1>1, <1>6 DEF reportWriteLag, LagReport
<1>9. /\ "receiver" \in Page /\ "sender" \in Page /\ "sender" # "receiver"
      /\ reports["receiver"] \in Seq(Report)
  BY DEF Page, PageTypes
<1>10. before \o <<>> = before
  OBVIOUS
<1>11. before \o <<m>> \in Seq(Report) /\ Append(before, m) = before \o <<m>>
  BY <1>7, AppendConcat
<1>12. reports["receiver"] \o before \in Seq(Report)
  BY <1>9, ConcatElements
<1>13. reports["receiver"] \o (before \o <<m>>) = Append(reports["receiver"] \o before, m)
  <2>1. Append(reports["receiver"] \o before, m) = (reports["receiver"] \o before) \o <<m>>
    BY <1>7, <1>12, AppendConcat
  <2>2. <<m>> \in Seq(Report)
    BY <1>7, ShortSequences
  <2>3. \A r \in Seq(Report), s \in Seq(Report), t \in Seq(Report) : r \o (s \o t) = (r \o s) \o t
    OBVIOUS
  <2> QED BY <1>9, <2>1, <2>2, <2>3
<1>14. CASE Tell("receiver", before \o <<m>>)
  <2>1. /\ reports' \in [Page -> Seq(Report)] /\ reports'["sender"] = reports["sender"]
        /\ reports'["receiver"] = reports["receiver"] \o (before \o <<m>>)
    BY <1>9, <1>11, <1>14, Told
  <2> QED BY <1>2, <1>4, <1>5, <1>6, <1>13, <2>1
<1>15. CASE Tell("receiver", before \o <<>>)
  BY <1>4, <1>5, <1>9, <1>10, <1>15, Told
<1> QED BY <1>8, <1>14, <1>15

LEMMA onOfferType ==
  ASSUME TypeInv, UNCHANGED statsVars, onOffer
  PROVE  TypeInv'
<1>1. /\ PageTypes /\ StatsTypes /\ PlacesInv /\ channel \in Seq(Message) /\ channel # <<>>
      /\ Head(channel) = "FILE_OFFER" /\ channel' = Tail(channel) /\ open = Page
  BY TypesSplit DEF TypeInv, PageTypes, onOffer, Arrives, PlacesInv, ChannelInv
<1>2. Track(channel, receiving.file, receiving.total, sending.file, sending.offset)
  BY <1>1 DEF PlacesInv, ChannelInv
<1>3. /\ receiving.file + 1 \in Numbers /\ receiving.file \in Numbers
      /\ Track(channel', receiving.file + 1, 0, sending.file, sending.offset)
  BY <1>1, <1>2, TrackTail
<1>4. PICK f : f = receiving.file + 1
  OBVIOUS
<1>5. f \in Numbers /\ f # 0
  BY <1>3, <1>4 DEF Numbers
<1>6. receiving' = [file |-> f, active |-> TRUE, total |-> 0, confirmed |-> 0, engaged |-> FALSE]
  BY <1>4 DEF onOffer
<1>7. receiving' \in Receiving /\ receiving'.file = f /\ receiving'.total = 0
  BY <1>5, <1>6 DEF Receiving, Numbers
<1>8. UNCHANGED <<sending, signals, pauses, open, reports>>
  BY DEF onOffer
<1>9. ReceiverInv'
  BY <1>5, <1>7, LimitType DEF ReceiverInv
<1>10. ChannelInv' /\ SenderInv'
  BY <1>1, <1>3, <1>4, <1>7, <1>8 DEF ChannelInv, PlacesInv, SenderInv
<1>11. TypeOK'
  <2>1. channel' \in Seq(Message)
    BY <1>1
  <2> QED BY <1>1, <1>7, <1>8, <2>1, TypesSplit
          DEF TypeOK, PageTypes, StatsTypes, Message, statsVars
<1> QED BY <1>9, <1>10, <1>11 DEF TypeInv, PlacesInv

\* What a chunk that arrives tells, if anything.
ArrivalReport ==
  [type |-> "PROGRESS", file |-> receiving.file, bytes |-> receiving.total + 1, paused |-> None]

LEMMA onChunkTold ==
  ASSUME TypeInv, onChunk
  PROVE  /\ receiving.file \in File /\ receiving.total + 1 \in Nat
         /\ receiving.total + 1 <= Size[receiving.file]
         /\ channel \in Seq(Message) /\ channel # <<>> /\ channel' = Tail(channel) /\ open = Page
         /\ Track(channel', receiving.file, receiving.total + 1, sending.file, sending.offset)
         /\ ArrivalReport \in Report
         /\ receiving' \in Receiving /\ receiving'.file = receiving.file
         /\ receiving'.total = receiving.total + 1
         /\ signals' \in Seq(BOOLEAN)
         /\ reports' \in [Page -> Seq(Report)]
         /\ reports'["sender"] = reports["sender"]
         /\ \/ reports'["receiver"] = reports["receiver"]
            \/ reports'["receiver"] = Append(reports["receiver"], ArrivalReport)
            \/ \E on \in BOOLEAN :
                 reports'["receiver"] = Append(Append(reports["receiver"], ArrivalReport),
                                               LagReport(receiving.file, on))
<1>1. /\ PageTypes /\ channel \in Seq(Message) /\ channel # <<>>
      /\ Head(channel) = "CHUNK" /\ channel' = Tail(channel) /\ open = Page
      /\ receiving \in Receiving /\ signals \in Seq(BOOLEAN)
      /\ reports \in [Page -> Seq(Report)]
  BY TypesSplit DEF TypeInv, PageTypes, onChunk, Arrives, PlacesInv, ChannelInv
<1>2. Track(channel, receiving.file, receiving.total, sending.file, sending.offset)
  BY <1>1 DEF PlacesInv, ChannelInv, TypeInv
<1>3. /\ receiving.file \in File /\ receiving.total \in Nat
      /\ receiving.total + 1 <= Size[receiving.file]
      /\ Track(channel', receiving.file, receiving.total + 1, sending.file, sending.offset)
  BY <1>1, <1>2, TrackTail
<1>4. ArrivalReport \in Report
  BY <1>3, ReportsMade DEF ArrivalReport
<1>5. PICK x : x = [receiving EXCEPT !.total = @ + 1]
  OBVIOUS
<1>6. x \in Receiving /\ x.file = receiving.file /\ x.total = receiving.total + 1
  <2>1. PICK n : n = receiving.total + 1
    OBVIOUS
  <2>2. x = [receiving EXCEPT !.total = n] /\ n \in Nat
    BY <1>3, <1>5, <2>1
  <2> QED BY <1>1, <2>1, <2>2 DEF Receiving
<1>7. PICK before : before = <<ArrivalReport>>
  OBVIOUS
<1>8. ASSUME receiving' = x, UNCHANGED <<signals, reports>>
      PROVE  /\ receiving' \in Receiving /\ receiving'.file = receiving.file
             /\ receiving'.total = receiving.total + 1
             /\ signals' \in Seq(BOOLEAN)
             /\ reports' \in [Page -> Seq(Report)]
             /\ reports'["sender"] = reports["sender"]
             /\ \/ reports'["receiver"] = reports["receiver"]
                \/ reports'["receiver"] = Append(reports["receiver"], ArrivalReport)
                \/ \E on \in BOOLEAN :
                     reports'["receiver"] = Append(Append(reports["receiver"], ArrivalReport),
                                                   LagReport(receiving.file, on))
  BY <1>1, <1>6, <1>8
<1>9. ASSUME reportWriteLag(x, before)
      PROVE  /\ receiving' \in Receiving /\ receiving'.file = receiving.file
             /\ receiving'.total = receiving.total + 1
             /\ signals' \in Seq(BOOLEAN)
             /\ reports' \in [Page -> Seq(Report)]
             /\ reports'["sender"] = reports["sender"]
             /\ \/ reports'["receiver"] = reports["receiver"]
                \/ reports'["receiver"] = Append(reports["receiver"], ArrivalReport)
                \/ \E on \in BOOLEAN :
                     reports'["receiver"] = Append(Append(reports["receiver"], ArrivalReport),
                                                   LagReport(receiving.file, on))
  <2>1. PICK m : m = ArrivalReport
    OBVIOUS
  <2>2. before \in Seq(Report)
    BY <1>4, <1>7, ShortSequences
  <2>3. reports["receiver"] \in Seq(Report)
    BY <1>1 DEF Page
  <2>4. reports["receiver"] \o before = Append(reports["receiver"], m)
    BY <1>4, <1>7, <2>1, <2>3, AppendConcat
  <2>5. /\ receiving' \in Receiving /\ receiving'.file = x.file /\ receiving'.total = x.total
        /\ signals' \in Seq(BOOLEAN)
        /\ reports' \in [Page -> Seq(Report)]
        /\ reports'["sender"] = reports["sender"]
        /\ \/ reports'["receiver"] = reports["receiver"] \o before
           \/ \E on \in BOOLEAN :
                reports'["receiver"] = Append(reports["receiver"] \o before, LagReport(x.file, on))
    BY <1>1, <1>3, <1>6, <1>9, <2>2, LagTold
  <2>6. \/ reports'["receiver"] = Append(reports["receiver"], m)
        \/ \E on \in BOOLEAN :
             reports'["receiver"] = Append(Append(reports["receiver"], m),
                                           LagReport(receiving.file, on))
    BY <1>6, <2>4, <2>5
  <2>7. /\ receiving' \in Receiving /\ receiving'.file = receiving.file
        /\ receiving'.total = receiving.total + 1
        /\ signals' \in Seq(BOOLEAN)
        /\ reports' \in [Page -> Seq(Report)]
        /\ reports'["sender"] = reports["sender"]
    BY <1>6, <2>5
  <2>8. \/ reports'["receiver"] = Append(reports["receiver"], ArrivalReport)
        \/ \E on \in BOOLEAN :
             reports'["receiver"] = Append(Append(reports["receiver"], ArrivalReport),
                                           LagReport(receiving.file, on))
    BY <2>1, <2>6
  <2> QED BY <2>7, <2>8
<1>10. reportWriteLag(x, before) \/ (receiving' = x /\ UNCHANGED <<signals, reports>>)
  BY <1>5, <1>6, <1>7 DEF onChunk, reportTransferProgress, ArrivalReport
<1>11. /\ receiving' \in Receiving /\ receiving'.file = receiving.file
       /\ receiving'.total = receiving.total + 1
       /\ signals' \in Seq(BOOLEAN)
       /\ reports' \in [Page -> Seq(Report)]
       /\ reports'["sender"] = reports["sender"]
       /\ \/ reports'["receiver"] = reports["receiver"]
          \/ reports'["receiver"] = Append(reports["receiver"], ArrivalReport)
          \/ \E on \in BOOLEAN :
               reports'["receiver"] = Append(Append(reports["receiver"], ArrivalReport),
                                             LagReport(receiving.file, on))
  BY <1>8, <1>9, <1>10
<1>12. receiving.file \in File /\ receiving.total + 1 \in Nat
  BY <1>3
<1> QED BY <1>1, <1>3, <1>4, <1>11, <1>12

LEMMA onChunkType ==
  ASSUME TypeInv, UNCHANGED statsVars, onChunk
  PROVE  TypeInv'
<1>1. PageTypes /\ StatsTypes /\ PlacesInv
  BY TypesSplit DEF TypeInv
<1>2. UNCHANGED <<sending, pauses, open>>
  BY DEF onChunk
<1>3. channel' \in Seq(Message)
  BY onChunkTold, HeadTail
<1>4. TypeOK'
  BY <1>1, <1>2, <1>3, onChunkTold, TypesSplit
     DEF TypeOK, PageTypes, StatsTypes, Message, statsVars
<1>5. ReceiverInv'
  <2>1. Limit(receiving.file) = Size[receiving.file] /\ receiving.file # 0
    BY onChunkTold, LimitType, SizeType DEF Numbers, File
  <2> QED BY <2>1, onChunkTold DEF ReceiverInv
<1>6. ChannelInv' /\ SenderInv'
  BY <1>1, <1>2, onChunkTold DEF ChannelInv, PlacesInv, SenderInv
<1> QED BY <1>4, <1>5, <1>6 DEF TypeInv, PlacesInv

\* A confirmation may be followed by a word about the lag.
LEMMA onChunkWrittenTold ==
  ASSUME TypeInv, onChunkWritten
  PROVE  /\ receiving.file \in File
         /\ receiving' \in Receiving /\ receiving'.file = receiving.file
         /\ receiving'.total = receiving.total /\ receiving'.active = receiving.active
         /\ signals' \in Seq(BOOLEAN)
         /\ reports' \in [Page -> Seq(Report)]
         /\ reports'["sender"] = reports["sender"]
         /\ \/ reports'["receiver"] = reports["receiver"]
            \/ \E on \in BOOLEAN :
                 reports'["receiver"] = Append(reports["receiver"], LagReport(receiving.file, on))
<1>1. PageTypes /\ receiving \in Receiving /\ reports["receiver"] \in Seq(Report)
  BY TypesSplit DEF TypeInv, PageTypes, Page
<1>2. receiving.file \in File /\ receiving.confirmed \in Nat
  BY <1>1, ReceivingFields, LimitType DEF TypeInv, PlacesInv, ReceiverInv, onChunkWritten
<1>3. PICK x : x = [receiving EXCEPT !.confirmed = @ + 1]
  OBVIOUS
<1>4. /\ x \in Receiving /\ x.file = receiving.file /\ x.total = receiving.total
      /\ x.active = receiving.active
  BY <1>1, <1>2, <1>3 DEF Receiving
<1>5. PICK before : before = <<>>
  OBVIOUS
<1>6. before \in Seq(Report) /\ reports["receiver"] \o before = reports["receiver"]
  BY <1>1, <1>5
<1>7. reportWriteLag(x, before)
  BY <1>3, <1>5 DEF onChunkWritten
<1>8. /\ receiving' \in Receiving /\ receiving'.file = x.file /\ receiving'.total = x.total
      /\ receiving'.active = x.active
      /\ signals' \in Seq(BOOLEAN)
      /\ reports' \in [Page -> Seq(Report)]
      /\ reports'["sender"] = reports["sender"]
      /\ \/ reports'["receiver"] = reports["receiver"] \o before
         \/ \E on \in BOOLEAN :
              reports'["receiver"] = Append(reports["receiver"] \o before, LagReport(x.file, on))
  BY <1>1, <1>2, <1>4, <1>6, <1>7, LagTold
<1> QED BY <1>2, <1>4, <1>6, <1>8

LEMMA onChunkWrittenType ==
  ASSUME TypeInv, UNCHANGED statsVars, onChunkWritten
  PROVE  TypeInv'
<1>1. PageTypes /\ StatsTypes /\ PlacesInv /\ channel \in Seq(Message)
  BY TypesSplit DEF TypeInv, PageTypes
<1>2. UNCHANGED <<sending, channel, pauses, open>>
  BY DEF onChunkWritten
<1>3. TypeOK'
  BY <1>1, <1>2, onChunkWrittenTold, TypesSplit
     DEF TypeOK, PageTypes, StatsTypes, Message, statsVars
<1>4. PlacesInv'
  BY <1>1, <1>2, onChunkWrittenTold DEF ChannelInv, PlacesInv, SenderInv, ReceiverInv
<1> QED BY <1>3, <1>4 DEF TypeInv

LEMMA onCompleteType ==
  ASSUME TypeInv, UNCHANGED statsVars, onComplete
  PROVE  TypeInv'
<1>1. /\ PageTypes /\ StatsTypes /\ PlacesInv /\ channel \in Seq(Message) /\ channel # <<>>
      /\ Head(channel) = "TRANSFER_COMPLETE" /\ channel' = Tail(channel) /\ open = Page
      /\ receiving \in Receiving
  BY TypesSplit DEF TypeInv, PageTypes, onComplete, Arrives, PlacesInv, ChannelInv
<1>2. Track(channel, receiving.file, receiving.total, sending.file, sending.offset)
  BY <1>1 DEF PlacesInv, ChannelInv
<1>3. Track(channel', receiving.file, receiving.total, sending.file, sending.offset)
  BY <1>1, <1>2, TrackTail
<1>4. /\ receiving' \in Receiving /\ receiving'.file = receiving.file
      /\ receiving'.total = receiving.total /\ receiving'.active = FALSE
  BY <1>1 DEF onComplete, Receiving
<1>5. UNCHANGED <<sending, signals, pauses, open, reports>>
  BY DEF onComplete
<1>6. PlacesInv'
  BY <1>1, <1>3, <1>4, <1>5 DEF ChannelInv, PlacesInv, SenderInv, ReceiverInv
<1>7. TypeOK'
  <2>1. channel' \in Seq(Message)
    BY <1>1
  <2> QED BY <1>1, <1>4, <1>5, <2>1, TypesSplit
          DEF TypeOK, PageTypes, StatsTypes, Message, statsVars
<1> QED BY <1>6, <1>7 DEF TypeInv

LEMMA PageLeftType ==
  ASSUME TypeInv, NEW p \in Page, PageLeft(p)
  PROVE  TypeInv'
<1>1. PageTypes /\ StatsTypes /\ PlacesInv
  BY TypesSplit DEF TypeInv
<1>2. /\ open' = open \ {p} /\ channel' = <<>> /\ signals' = <<>> /\ p \in open
      /\ UNCHANGED <<sending, receiving, pauses>> /\ UNCHANGED statsVars
  BY DEF PageLeft
<1>3. reports' \in [Page -> Seq(Report)]
  <2>1. PICK m : m = [type |-> "disconnect"]
    OBVIOUS
  <2>2. PICK more : more = <<m>>
    OBVIOUS
  <2>3. more \in Seq(Report)
    BY <2>1, <2>2, ReportsMade, ShortSequences
  <2>4. Tell(p, more)
    BY <2>1, <2>2 DEF PageLeft
  <2> QED BY <1>1, <2>3, <2>4, Told
<1>4. open' # Page
  BY <1>2
<1>5. PlacesInv'
  BY <1>1, <1>2, <1>4 DEF ChannelInv, PlacesInv, SenderInv, ReceiverInv
<1>6. channel' \in Seq(Message) /\ signals' \in Seq(BOOLEAN)
  BY <1>2
<1>7. TypeOK'
  BY <1>1, <1>2, <1>3, <1>6, TypesSplit DEF TypeOK, PageTypes, StatsTypes, Message, statsVars
<1> QED BY <1>5, <1>7 DEF TypeInv


-----------------------------------------------------------------------------
\* The server.
LEMMA DirectionKeys ==
  /\ Direction["sender"] = "send" /\ Direction["receiver"] = "receive"
  /\ \A p \in Page : Direction[p] \in Key
  /\ Page = {"sender", "receiver"} /\ Key = {"send", "receive"}
BY DEF Direction, Page, Key

LEMMA TransferFields ==
  ASSUME NEW x \in Transfer \cup {None}, x # None
  PROVE  /\ x \in Transfer /\ x.file \in File /\ x.bytes \in Nat
         /\ x.paused \in BOOLEAN \cup {None} /\ x.engaged \in BOOLEAN \cup {None}
BY DEF Transfer

LEMMA ArrivedTypes ==
  ASSUME PageTypes, NEW p \in Page, NEW type, Arrived(p, type)
  PROVE  /\ reports[p] \in Seq(Report) /\ reports[p] # <<>>
         /\ Head(reports[p]) \in Report /\ Head(reports[p]).type = type
         /\ reports' \in [Page -> Seq(Report)]
         /\ reports'[p] = Tail(reports[p])
         /\ \A q \in Page \ {p} : reports'[q] = reports[q]
<1>1. reports[p] \in Seq(Report) /\ reports[p] # <<>> /\ Head(reports[p]).type = type
  BY DEF PageTypes, Arrived
<1>2. Head(reports[p]) \in Report /\ Tail(reports[p]) \in Seq(Report)
  BY <1>1, HeadTail
<1>3. reports' = [reports EXCEPT ![p] = Tail(reports[p])]
  BY DEF Arrived
<1> QED BY <1>1, <1>2, <1>3 DEF PageTypes

\* The entry of transfer k is replaced by x, and no other.
Replaced(k, x) ==
  /\ transfers'[k] = x
  /\ \A l \in Key \ {k} : transfers'[l] = transfers[l]

LEMMA ProgressRecorded ==
  ASSUME TypeInv, NEW p \in Page, handleFileTransferProgress(p),
         NEW m, m = Head(reports[p]), NEW k, k = Direction[p]
  PROVE  /\ m \in Report /\ m.type = "PROGRESS" /\ k \in Key
         /\ reports' \in [Page -> Seq(Report)]
         /\ transfers' \in [Key -> Transfer \cup {None}]
         /\ \E x \in Transfer :
              /\ Replaced(k, x) /\ x.file = m.file /\ x.bytes = m.bytes
              /\ m.paused # None => x.paused = m.paused
         /\ Delta(k, m.bytes) \in Nat
         /\ counting' = IF Delta(k, m.bytes) > 0 THEN Append(counting, Delta(k, m.bytes)) ELSE counting
         /\ counting' \in Seq(Nat \ {0})
<1>1. PageTypes /\ StatsTypes /\ Arrived(p, "PROGRESS") /\ recordFileTransferProgress(k, m)
  BY TypesSplit DEF TypeInv, handleFileTransferProgress
<1>2. m \in Report /\ m.type = "PROGRESS" /\ reports' \in [Page -> Seq(Report)] /\ k \in Key
  BY <1>1, ArrivedTypes, DirectionKeys
<1>3. m.file \in File /\ m.bytes \in Nat /\ m.paused \in BOOLEAN \cup {None}
  BY <1>2, ReportFields
<1>4. PICK paused : paused = Or(m.paused, k, "paused")
  OBVIOUS
<1>5. PICK engaged : engaged = Or(None, k, "engaged")
  OBVIOUS
<1>6. PICK e : e = transfers[k]
  OBVIOUS
<1>7. e \in Transfer \cup {None}
  BY <1>1, <1>2, <1>6 DEF StatsTypes
<1>8. /\ paused \in BOOLEAN \cup {None} /\ (m.paused # None => paused = m.paused)
      /\ engaged \in BOOLEAN \cup {None}
  BY <1>3, <1>4, <1>5, <1>6, <1>7, TransferFields DEF Or
<1>9. PICK x : x = [file |-> m.file, bytes |-> m.bytes, paused |-> paused, engaged |-> engaged]
  OBVIOUS
<1>10. x \in Transfer /\ x.file = m.file /\ x.bytes = m.bytes /\ x.paused = paused
  BY <1>3, <1>8, <1>9 DEF Transfer
<1>11. transfers' = [transfers EXCEPT ![k] = x]
  BY <1>1, <1>4, <1>5, <1>9 DEF recordFileTransferProgress
<1>12. transfers' \in [Key -> Transfer \cup {None}] /\ Replaced(k, x)
  BY <1>1, <1>2, <1>10, <1>11 DEF StatsTypes, Replaced
<1>13. Delta(k, m.bytes) \in Nat
  BY <1>3, <1>6, <1>7, TransferFields DEF Delta
<1>14. counting' = IF Delta(k, m.bytes) > 0 THEN Append(counting, Delta(k, m.bytes)) ELSE counting
  BY <1>1 DEF recordFileTransferProgress
<1>15. counting' \in Seq(Nat \ {0})
  BY <1>1, <1>13, <1>14 DEF StatsTypes
<1> QED BY <1>2, <1>8, <1>10, <1>12, <1>13, <1>14, <1>15

LEMMA PagesUnchanged ==
  ASSUME TypeInv, UNCHANGED pageVars, reports' \in [Page -> Seq(Report)], StatsTypes'
  PROVE  TypeInv'
<1>1. PageTypes /\ PlacesInv
  BY TypesSplit DEF TypeInv
<1>2. TypeOK'
  BY <1>1, TypesSplit DEF TypeOK, PageTypes, StatsTypes, Message, pageVars
<1>3. PlacesInv'
  BY <1>1 DEF PlacesInv, SenderInv, ReceiverInv, ChannelInv, pageVars
<1> QED BY <1>2, <1>3 DEF TypeInv

LEMMA handleFileTransferProgressType ==
  ASSUME TypeInv, UNCHANGED pageVars, NEW p \in Page, handleFileTransferProgress(p)
  PROVE  TypeInv'
<1>1. StatsTypes
  BY TypesSplit DEF TypeInv
<1>2. PICK m : m = Head(reports[p])
  OBVIOUS
<1>3. PICK k : k = Direction[p]
  OBVIOUS
<1>4. /\ m \in Report /\ m.type = "PROGRESS" /\ k \in Key
      /\ reports' \in [Page -> Seq(Report)]
      /\ transfers' \in [Key -> Transfer \cup {None}] /\ counting' \in Seq(Nat \ {0})
  BY <1>2, <1>3, ProgressRecorded
<1>5. /\ timers' = timers \/ timers' = timers \cup {[key |-> k, bytes |-> m.bytes]}
      /\ retold' \in BOOLEAN /\ UNCHANGED <<peers, total, removed>>
  BY <1>1, <1>2, <1>3 DEF handleFileTransferProgress, recordFileTransferProgress, StatsTypes
<1>6. m.bytes \in Nat
  BY <1>4, ReportFields
<1>7. timers' \subseteq [key : Key, bytes : Nat]
  BY <1>1, <1>4, <1>5, <1>6 DEF StatsTypes
<1>8. StatsTypes'
  BY <1>1, <1>4, <1>5, <1>7 DEF StatsTypes
<1> QED BY <1>4, <1>8, PagesUnchanged

LEMMA BackpressureRecorded ==
  ASSUME TypeInv, NEW p \in Page, handleFileTransferBackpressure(p),
         NEW m, m = Head(reports[p]), NEW k, k = Direction[p]
  PROVE  /\ m \in Report /\ m.type = "BACKPRESSURE" /\ k \in Key
         /\ reports' \in [Page -> Seq(Report)]
         /\ transfers' \in [Key -> Transfer \cup {None}]
         /\ transfers[k] = None => transfers' = transfers
         /\ transfers[k] # None =>
              \E x \in Transfer :
                /\ Replaced(k, x) /\ x.file = m.file /\ x.bytes = transfers[k].bytes
                /\ x.paused = transfers[k].paused
<1>1. PageTypes /\ StatsTypes /\ Arrived(p, "BACKPRESSURE") /\ recordFileTransferBackpressure(k, m)
  BY TypesSplit DEF TypeInv, handleFileTransferBackpressure
<1>2. m \in Report /\ m.type = "BACKPRESSURE" /\ reports' \in [Page -> Seq(Report)] /\ k \in Key
  BY <1>1, ArrivedTypes, DirectionKeys
<1>3. m.file \in File /\ m.engaged \in BOOLEAN
  BY <1>2, ReportFields
<1>4. CASE transfers[k] = None
  BY <1>1, <1>2, <1>4 DEF recordFileTransferBackpressure, StatsTypes
<1>5. CASE transfers[k] # None
  <2>1. PICK x : x = [transfers[k] EXCEPT !.engaged = m.engaged, !.file = m.file]
    OBVIOUS
  <2>2. transfers[k] \in Transfer
    BY <1>1, <1>2, <1>5 DEF StatsTypes
  <2>3. /\ x \in Transfer /\ x.file = m.file /\ x.bytes = transfers[k].bytes
        /\ x.paused = transfers[k].paused
    BY <1>3, <2>1, <2>2 DEF Transfer
  <2>4. transfers' = [transfers EXCEPT ![k] = x]
    BY <1>1, <1>2, <1>5, <2>1 DEF recordFileTransferBackpressure, StatsTypes
  <2>5. transfers' \in [Key -> Transfer \cup {None}] /\ Replaced(k, x)
    BY <1>1, <1>2, <2>3, <2>4 DEF StatsTypes, Replaced
  <2> QED BY <1>2, <1>5, <2>3, <2>5
<1> QED BY <1>4, <1>5

LEMMA handleFileTransferBackpressureType ==
  ASSUME TypeInv, UNCHANGED pageVars, NEW p \in Page, handleFileTransferBackpressure(p)
  PROVE  TypeInv'
<1>1. StatsTypes
  BY TypesSplit DEF TypeInv
<1>2. reports' \in [Page -> Seq(Report)] /\ transfers' \in [Key -> Transfer \cup {None}]
  BY BackpressureRecorded
<1>3. StatsTypes'
  BY <1>1, <1>2 DEF StatsTypes, handleFileTransferBackpressure
<1> QED BY <1>2, <1>3, PagesUnchanged

LEMMA handleDisconnectType ==
  ASSUME TypeInv, UNCHANGED pageVars, NEW p \in Page, handleDisconnect(p)
  PROVE  TypeInv'
<1>1. StatsTypes /\ PageTypes /\ Arrived(p, "disconnect")
  BY TypesSplit DEF TypeInv, handleDisconnect
<1>2. reports' \in [Page -> Seq(Report)]
  BY <1>1, ArrivedTypes
<1>3. StatsTypes'
  BY <1>1 DEF StatsTypes, handleDisconnect, setFileRoomPeerCount
<1> QED BY <1>2, <1>3, PagesUnchanged

LEMMA timerFiresType ==
  ASSUME TypeInv, UNCHANGED pageVars, NEW t \in timers, timerFires(t)
  PROVE  TypeInv'
<1>1. StatsTypes /\ PageTypes
  BY TypesSplit DEF TypeInv
<1>2. t.key \in Key /\ timers' \subseteq timers
  BY <1>1 DEF StatsTypes, timerFires
<1>3. /\ transfers' \in [Key -> Transfer \cup {None}]
      /\ removed' \subseteq Key \X File
  <2>1. CASE transfers[t.key] # None /\ transfers[t.key].bytes = t.bytes
    <3>1. transfers[t.key].file \in File
      BY <1>1, <1>2, <2>1, TransferFields DEF StatsTypes
    <3> QED BY <1>1, <1>2, <2>1, <3>1 DEF StatsTypes, timerFires
  <2>2. CASE ~(transfers[t.key] # None /\ transfers[t.key].bytes = t.bytes)
    BY <1>1, <2>2 DEF StatsTypes, timerFires
  <2> QED BY <2>1, <2>2
<1>4. StatsTypes'
  BY <1>1, <1>2, <1>3 DEF StatsTypes, timerFires
<1>5. reports' \in [Page -> Seq(Report)]
  BY <1>1 DEF PageTypes, timerFires
<1> QED BY <1>4, <1>5, PagesUnchanged

LEMMA bucketWrittenType ==
  ASSUME TypeInv, UNCHANGED pageVars, bucketWritten
  PROVE  TypeInv'
<1>1. StatsTypes /\ PageTypes /\ counting # <<>>
  BY TypesSplit DEF TypeInv, bucketWritten
<1>2. Head(counting) \in Nat \ {0} /\ Tail(counting) \in Seq(Nat \ {0})
  BY <1>1, HeadTail DEF StatsTypes
<1>3. StatsTypes'
  BY <1>1, <1>2 DEF StatsTypes, bucketWritten
<1>4. reports' \in [Page -> Seq(Report)]
  BY <1>1 DEF PageTypes, bucketWritten
<1> QED BY <1>3, <1>4, PagesUnchanged

LEMMA StartType == Init => TypeInv
<1> SUFFICES ASSUME Init PROVE TypeInv
  OBVIOUS
<1>1. Len(Size) \in Nat /\ 0 \in Numbers /\ Limit(0) = 0
  BY SizeType DEF Numbers, Limit
<1>2. /\ sending \in Sending /\ sending.step = "idle" /\ sending.file = 0 /\ sending.offset = 0
      /\ sending.last = None
  BY <1>1 DEF Init, Sending, Numbers
<1>3. /\ receiving \in Receiving /\ receiving.file = 0 /\ receiving.total = 0
      /\ receiving.active = FALSE
  BY <1>1 DEF Init, Receiving, Numbers
<1>4. /\ channel = <<>> /\ signals = <<>> /\ open = Page /\ counting = <<>>
      /\ channel \in Seq(Message) /\ signals \in Seq(BOOLEAN) /\ counting \in Seq(Nat \ {0})
  BY DEF Init
<1>5. reports \in [Page -> Seq(Report)]
  BY DEF Init
<1>6. TypeOK
  <2>1. PageTypes
    BY <1>2, <1>3, <1>4, <1>5, TransferStatsAssumption DEF Init, PageTypes
  <2>2. StatsTypes
    BY <1>4 DEF Init, StatsTypes
  <2> QED BY <2>1, <2>2, TypesSplit
<1>7. SenderInv /\ ReceiverInv
  BY <1>1, <1>2, <1>3 DEF SenderInv, ReceiverInv
<1>8. ChannelInv
  BY <1>1, <1>2, <1>3, <1>4, TrackNone DEF ChannelInv
<1> QED BY <1>6, <1>7, <1>8 DEF TypeInv, PlacesInv

LEMMA StepType ==
  ASSUME TypeInv, [Next]_<<pageVars, reports, statsVars>>
  PROVE  TypeInv'
<1>1. CASE SenderStep
  BY <1>1, offerFileType, acceptWaitOverType, readSliceType, sendChunkType, sendThrowsType,
     pauseSendType, resumeSendType, onBackpressureType, closePeerType DEF SenderStep
<1>2. CASE ReceiverStep
  BY <1>2, onOfferType, onChunkType, onChunkWrittenType, onCompleteType DEF ReceiverStep
<1>3. CASE \E p \in Page : PageLeft(p)
  BY <1>3, PageLeftType
<1>4. CASE StatsStep
  BY <1>4, handleFileTransferProgressType, handleFileTransferBackpressureType,
     handleDisconnectType, timerFiresType, bucketWrittenType DEF StatsStep
<1>5. CASE UNCHANGED <<pageVars, reports, statsVars>>
  <2>1. StatsTypes /\ PageTypes
    BY TypesSplit DEF TypeInv
  <2>2. StatsTypes' /\ reports' \in [Page -> Seq(Report)]
    BY <1>5, <2>1 DEF StatsTypes, PageTypes, statsVars
  <2> QED BY <1>5, <2>2, PagesUnchanged
<1> QED BY <1>1, <1>2, <1>3, <1>4, <1>5 DEF Next

\* The variables have their types: no page and no report ever names a file that is
\* not in the queue.
THEOREM TypeCorrect == Spec => []TypeOK
<1>1. Spec => []TypeInv
  BY StartType, StepType, PTL DEF Spec
<1>2. TypeInv => TypeOK
  BY DEF TypeInv
<1> QED BY <1>1, <1>2, PTL


-----------------------------------------------------------------------------
\* A pause that is shown.  The last progress in the queue says whether the sender is
\* held back, or else the entry does.
Silent(q) == \A i \in 1..Len(q) : q[i].type # "PROGRESS"

SaysLast(q, blocked) ==
  \A i \in 1..Len(q) : q[i].type = "PROGRESS" =>
    /\ q[i].paused \in BOOLEAN
    /\ q[i].paused /\ (\A j \in 1..Len(q) : j > i => q[j].type # "PROGRESS") => blocked

Shows(q, x, blocked) ==
  /\ SaysLast(q, blocked)
  /\ x # None =>
       /\ x.paused \in BOOLEAN
       /\ x.paused /\ Silent(q) => blocked

\* Before the first progress nothing is shown.
PauseInv ==
  /\ Shows(reports["sender"], transfers["send"], isSendBlocked(sending))
  /\ sending.last = None => Silent(reports["sender"]) /\ transfers["send"] = None

LEMMA ShowsTold ==
  ASSUME NEW q \in Seq(Report), NEW x, NEW blocked, Shows(q, x, blocked),
         NEW m \in Report, m.type = "PROGRESS", m.paused \in BOOLEAN, NEW now, m.paused => now
  PROVE  Shows(Append(q, m), x, now) /\ ~Silent(Append(q, m))
<1>1. /\ Len(q) \in Nat /\ Len(Append(q, m)) = Len(q) + 1
      /\ Append(q, m)[Len(q) + 1] = m
      /\ \A i \in 1..Len(q) : Append(q, m)[i] = q[i]
  OBVIOUS
<1>2. Len(q) + 1 \in 1..Len(Append(q, m))
  BY <1>1
<1>3. ~Silent(Append(q, m))
  BY <1>1, <1>2 DEF Silent
<1>4. ASSUME NEW i \in 1..Len(Append(q, m)), Append(q, m)[i].type = "PROGRESS"
      PROVE  /\ Append(q, m)[i].paused \in BOOLEAN
             /\ \/ ~Append(q, m)[i].paused
                \/ \E j \in 1..Len(Append(q, m)) : j > i /\ Append(q, m)[j].type = "PROGRESS"
                \/ now
  <2>1. CASE i = Len(q) + 1
    BY <1>1, <2>1
  <2>2. CASE i # Len(q) + 1
    <3>1. i \in 1..Len(q) /\ Len(q) + 1 > i
      BY <1>1, <2>2
    <3> QED BY <1>1, <1>2, <1>4, <3>1 DEF Shows, SaysLast
  <2> QED BY <2>1, <2>2
<1>5. SaysLast(Append(q, m), now)
  BY <1>4 DEF SaysLast
<1> QED BY <1>3, <1>5 DEF Shows

LEMMA ShowsQuiet ==
  ASSUME NEW q \in Seq(Report), NEW x, NEW blocked, Shows(q, x, blocked),
         NEW m \in Report, m.type # "PROGRESS"
  PROVE  Shows(Append(q, m), x, blocked) /\ (Silent(q) => Silent(Append(q, m)))
<1>1. /\ Len(q) \in Nat /\ Len(Append(q, m)) = Len(q) + 1
      /\ Append(q, m)[Len(q) + 1] = m
      /\ \A i \in 1..Len(q) : Append(q, m)[i] = q[i] /\ i \in 1..Len(Append(q, m))
      /\ \A i \in 1..Len(Append(q, m)) : i \in 1..Len(q) \/ i = Len(q) + 1
  OBVIOUS
<1>2. Silent(q) <=> Silent(Append(q, m))
  BY <1>1 DEF Silent
<1>3. SaysLast(Append(q, m), blocked)
  BY <1>1 DEF Shows, SaysLast
<1> QED BY <1>2, <1>3 DEF Shows

LEMMA ShowsHandled ==
  ASSUME NEW q \in Seq(Report), q # <<>>, NEW x, NEW blocked, Shows(q, x, blocked), NEW y,
         \/ y = None
         \/ Head(q).type = "PROGRESS" /\ y.paused = Head(q).paused
         \/ Head(q).type # "PROGRESS" /\ x # None /\ y.paused = x.paused
  PROVE  Shows(Tail(q), y, blocked) /\ (Silent(q) => Silent(Tail(q)))
<1>1. /\ Len(q) \in Nat /\ Len(q) > 0 /\ Len(Tail(q)) = Len(q) - 1 /\ Head(q) = q[1]
      /\ 1 \in 1..Len(q)
      /\ \A i \in 1..Len(Tail(q)) : Tail(q)[i] = q[i + 1] /\ i + 1 \in 1..Len(q)
  OBVIOUS
<1>2. Silent(q) => Silent(Tail(q))
  BY <1>1 DEF Silent
<1>3. ASSUME Silent(Tail(q)), NEW j \in 1..Len(q), j > 1 PROVE q[j].type # "PROGRESS"
  <2>1. j - 1 \in 1..Len(Tail(q)) /\ (j - 1) + 1 = j
    BY <1>1, <1>3
  <2> QED BY <1>1, <1>3, <2>1 DEF Silent
<1>4. ASSUME NEW i \in 1..Len(Tail(q)), Tail(q)[i].type = "PROGRESS"
      PROVE  /\ Tail(q)[i].paused \in BOOLEAN
             /\ \/ ~Tail(q)[i].paused
                \/ \E j \in 1..Len(Tail(q)) : j > i /\ Tail(q)[j].type = "PROGRESS"
                \/ blocked
  <2>1. q[i + 1].paused \in BOOLEAN
    BY <1>1, <1>4 DEF Shows, SaysLast
  <2>2. CASE \E j \in 1..Len(q) : j > i + 1 /\ q[j].type = "PROGRESS"
    <3>1. PICK j \in 1..Len(q) : j > i + 1 /\ q[j].type = "PROGRESS"
      BY <2>2
    <3>2. j - 1 \in 1..Len(Tail(q)) /\ j - 1 > i /\ (j - 1) + 1 = j
      BY <1>1, <3>1
    <3> QED BY <1>1, <2>1, <3>1, <3>2
  <2>3. CASE ~\E j \in 1..Len(q) : j > i + 1 /\ q[j].type = "PROGRESS"
    BY <1>1, <1>4, <2>1, <2>3 DEF Shows, SaysLast
  <2> QED BY <2>2, <2>3
<1>5. SaysLast(Tail(q), blocked)
  BY <1>4 DEF SaysLast
<1>6. CASE y = None
  BY <1>2, <1>5, <1>6 DEF Shows
<1>7. CASE Head(q).type = "PROGRESS" /\ y.paused = Head(q).paused
  BY <1>1, <1>2, <1>3, <1>5, <1>7 DEF Shows, SaysLast
<1>8. CASE Head(q).type # "PROGRESS" /\ x # None /\ y.paused = x.paused
  <2>1. Silent(Tail(q)) => Silent(q)
    BY <1>1, <1>3, <1>8 DEF Silent
  <2> QED BY <1>2, <1>5, <1>8, <2>1 DEF Shows
<1> QED BY <1>6, <1>7, <1>8

LEMMA ShowsWeaker ==
  ASSUME NEW q, NEW x, NEW blocked, Shows(q, x, blocked), NEW y, y = x \/ y = None,
         NEW now, blocked => now
  PROVE  Shows(q, y, now)
BY DEF Shows, SaysLast


LEMMA PauseSame ==
  ASSUME PauseInv, reports'["sender"] = reports["sender"], transfers'["send"] = transfers["send"],
         isSendBlocked(sending)' = isSendBlocked(sending),
         sending'.last = None => sending.last = None
  PROVE  PauseInv'
BY DEF PauseInv

LEMMA PauseFlushed ==
  ASSUME TypeInv, PauseInv, UNCHANGED statsVars, NEW x \in Sending, sending' = x,
         x.last = sending.last, NEW paused \in BOOLEAN, paused => isSendBlocked(x),
         flushSendProgressNow(x, paused)
  PROVE  PauseInv'
<1>1. PageTypes /\ reports["sender"] \in Seq(Report)
  BY TypesSplit, DirectionKeys DEF TypeInv, PageTypes
<1>2. transfers' = transfers
  BY DEF statsVars
<1>3. CASE x.last = None
  <2>1. reports'["sender"] = reports["sender"]
    BY <1>1, <1>3, FlushTold
  <2>2. Silent(reports["sender"]) /\ transfers["send"] = None
    BY <1>3 DEF PauseInv
  <2>3. Shows(reports["sender"], transfers["send"], isSendBlocked(x))
    BY <2>2 DEF Shows, SaysLast, Silent
  <2> QED BY <1>2, <2>1, <2>2, <2>3 DEF PauseInv
<1>4. CASE x.last # None
  <2>1. PICK m : m = FlushedReport(x, paused)
    OBVIOUS
  <2>2. m \in Report /\ reports'["sender"] = Append(reports["sender"], m)
    BY <1>1, <1>4, <2>1, FlushTold
  <2>3. m.type = "PROGRESS" /\ m.paused = paused
    BY <2>1 DEF FlushedReport
  <2>4. Shows(Append(reports["sender"], m), transfers["send"], isSendBlocked(x))
    BY <1>1, <2>2, <2>3, ShowsTold DEF PauseInv
  <2> QED BY <1>2, <1>4, <2>2, <2>4 DEF PauseInv
<1> QED BY <1>3, <1>4

LEMMA SenderPause ==
  ASSUME TypeInv, PauseInv, SenderStep
  PROVE  PauseInv'
<1>1. UNCHANGED statsVars /\ transfers' = transfers /\ sending \in Sending /\ PageTypes
  BY TypesSplit DEF SenderStep, statsVars, TypeInv, PageTypes
<1>2. sending.paused \in BOOLEAN /\ sending.slow \in BOOLEAN
  BY <1>1, SendingFields
<1>3. CASE offerFile
  <2>1. /\ reports' = reports /\ sending'.last = sending.last
        /\ sending'.paused = sending.paused /\ sending'.slow = sending.slow
    BY <1>1, <1>3 DEF offerFile, Sending
  <2> QED BY <1>1, <2>1, PauseSame DEF isSendBlocked
<1>4. CASE readSlice \/ sendThrows
  <2>1. /\ reports' = reports /\ sending'.last = sending.last
        /\ sending'.paused = sending.paused /\ sending'.slow = sending.slow
    BY <1>1, <1>4 DEF readSlice, sendThrows, Sending
  <2> QED BY <1>1, <2>1, PauseSame DEF isSendBlocked
<1>5. CASE acceptWaitOver
  <2>1. PICK at : at = [file |-> sending.file, bytes |-> 0]
    OBVIOUS
  <2>2. /\ reports' = reports /\ sending'.last = at
        /\ sending'.paused = sending.paused /\ sending'.slow = sending.slow
    BY <1>1, <1>5, <2>1 DEF acceptWaitOver, Sending
  <2>3. sending.file \in File
    BY <1>1, <1>5, SendingFields, LimitType DEF TypeInv, PlacesInv, SenderInv, acceptWaitOver
  <2>4. at # None
    BY <2>1, <2>3, NullAssumption DEF SendProgress
  <2> QED BY <1>1, <2>2, <2>4, PauseSame DEF isSendBlocked
<1>6. CASE sendChunk
  <2>1. /\ sending'.paused = sending.paused /\ sending'.slow = sending.slow
        /\ sending'.last = [file |-> sending.file, bytes |-> sending.offset + 1]
    BY <1>1, <1>6 DEF sendChunk, Sending
  <2>2. sending'.last # None
    BY <1>6, <2>1, sendChunkTold, NullAssumption DEF SendProgress
  <2>3. isSendBlocked(sending)' = isSendBlocked(sending)
    BY <2>1 DEF isSendBlocked
  <2>4. CASE reports'["sender"] = reports["sender"]
    BY <1>1, <2>2, <2>3, <2>4, PauseSame
  <2>5. CASE reports'["sender"] = Append(reports["sender"], ChunkReport(FALSE))
    <3>1. PICK m : m = ChunkReport(FALSE)
      OBVIOUS
    <3>2. m \in Report /\ m.type = "PROGRESS" /\ m.paused = FALSE
      BY <1>6, <3>1, sendChunkTold DEF ChunkReport
    <3>3. reports["sender"] \in Seq(Report)
      BY <1>1, DirectionKeys DEF PageTypes
    <3>4. Shows(Append(reports["sender"], m), transfers["send"], isSendBlocked(sending))
      BY <3>2, <3>3, ShowsTold DEF PauseInv
    <3> QED BY <1>1, <2>2, <2>3, <2>5, <3>1, <3>4 DEF PauseInv
  <2> QED BY <1>6, <2>4, <2>5, sendChunkTold
<1>7. CASE pauseSend
  <2>1. PICK x : x = [sending EXCEPT !.paused = TRUE]
    OBVIOUS
  <2>2. x \in Sending /\ x.last = sending.last /\ isSendBlocked(x)
    BY <1>1, <2>1 DEF Sending, isSendBlocked
  <2>3. sending' = x /\ flushSendProgressNow(x, TRUE)
    BY <1>7, <2>1 DEF pauseSend, Flushed
  <2> QED BY <1>1, <2>2, <2>3, PauseFlushed
<1>8. CASE resumeSend
  <2>1. PICK x : x = [sending EXCEPT !.paused = FALSE]
    OBVIOUS
  <2>2. x \in Sending /\ x.last = sending.last
    BY <1>1, <2>1 DEF Sending
  <2>3. sending' = x /\ flushSendProgressNow(x, isSendBlocked(x))
    BY <1>8, <2>1 DEF resumeSend, Flushed
  <2>4. isSendBlocked(x) \in BOOLEAN
    BY <2>2, SendingFields DEF isSendBlocked
  <2> QED BY <1>1, <2>2, <2>3, <2>4, PauseFlushed
<1>9. CASE onBackpressure
  <2>1. PICK x : x = [sending EXCEPT !.slow = Head(signals)]
    OBVIOUS
  <2>2. Head(signals) \in BOOLEAN
    BY <1>1, <1>9 DEF PageTypes, onBackpressure
  <2>3. x \in Sending /\ x.last = sending.last
    BY <1>1, <2>1, <2>2 DEF Sending
  <2>4. sending' = x /\ flushSendProgressNow(x, isSendBlocked(x))
    BY <1>9, <2>1 DEF onBackpressure, Flushed
  <2>5. isSendBlocked(x) \in BOOLEAN
    BY <2>3, SendingFields DEF isSendBlocked
  <2> QED BY <1>1, <2>3, <2>4, <2>5, PauseFlushed
<1>10. CASE closePeer
  <2>1. PICK x : x = [sending EXCEPT !.slow = FALSE]
    OBVIOUS
  <2>2. x \in Sending /\ x.last = sending.last
    BY <1>1, <2>1 DEF Sending
  <2>3. sending' = x /\ flushSendProgressNow(x, isSendBlocked(x))
    BY <1>10, <2>1 DEF closePeer, Flushed
  <2>4. isSendBlocked(x) \in BOOLEAN
    BY <2>2, SendingFields DEF isSendBlocked
  <2> QED BY <1>1, <2>2, <2>3, <2>4, PauseFlushed
<1> QED BY <1>3, <1>4, <1>5, <1>6, <1>7, <1>8, <1>9, <1>10 DEF SenderStep

LEMMA ReceiverPause ==
  ASSUME TypeInv, PauseInv, ReceiverStep
  PROVE  PauseInv'
<1>1. transfers' = transfers /\ sending' = sending
  BY DEF ReceiverStep, statsVars, onOffer, onChunk, onChunkWritten, onComplete
<1>2. reports'["sender"] = reports["sender"]
  BY onChunkTold, onChunkWrittenTold DEF ReceiverStep, onOffer, onComplete
<1> QED BY <1>1, <1>2, PauseSame

LEMMA LeavingPause ==
  ASSUME TypeInv, PauseInv, NEW p \in Page, PageLeft(p)
  PROVE  PauseInv'
<1>1. transfers' = transfers /\ sending' = sending
  BY DEF PageLeft, statsVars
<1>2. PageTypes /\ reports["sender"] \in Seq(Report)
  BY TypesSplit, DirectionKeys DEF TypeInv, PageTypes
<1>3. PICK m : m = [type |-> "disconnect"]
  OBVIOUS
<1>4. m \in Report /\ m.type # "PROGRESS"
  BY <1>3, ReportsMade
<1>5. PICK more : more = <<m>>
  OBVIOUS
<1>6. more \in Seq(Report) /\ Tell(p, more)
  BY <1>3, <1>4, <1>5, ShortSequences DEF PageLeft
<1>7. CASE p = "receiver"
  <2>1. reports'["sender"] = reports["sender"]
    BY <1>2, <1>6, <1>7, Told, DirectionKeys
  <2> QED BY <1>1, <2>1, PauseSame
<1>8. CASE p = "sender"
  <2>1. reports'["sender"] = Append(reports["sender"], m)
    <3>1. reports'["sender"] = reports["sender"] \o more
      BY <1>2, <1>6, <1>8, Told
    <3>2. Append(reports["sender"], m) = reports["sender"] \o <<m>>
      BY <1>2, <1>4, AppendConcat
    <3> QED BY <1>5, <3>1, <3>2
  <2>2. /\ Shows(Append(reports["sender"], m), transfers["send"], isSendBlocked(sending))
        /\ Silent(reports["sender"]) => Silent(Append(reports["sender"], m))
    BY <1>2, <1>4, ShowsQuiet DEF PauseInv
  <2> QED BY <1>1, <2>1, <2>2 DEF PauseInv
<1> QED BY <1>7, <1>8, DirectionKeys


\* The server takes a report of page p, or none.
LEMMA ServerPause ==
  ASSUME TypeInv, PauseInv, StatsStep
  PROVE  PauseInv'
<1>1. sending' = sending
  BY DEF StatsStep, pageVars
<1>2. /\ PageTypes /\ StatsTypes /\ reports["sender"] \in Seq(Report)
      /\ "sender" \in Page /\ "receiver" \in Page /\ "send" \in Key /\ "receive" \in Key
      /\ "send" # "receive"
  BY TypesSplit, DirectionKeys DEF TypeInv, PageTypes
<1>3. ASSUME NEW x, Shows(reports["sender"], transfers["send"], isSendBlocked(sending)),
             reports["sender"] # <<>>, reports'["sender"] = Tail(reports["sender"]),
             transfers'["send"] = x,
             \/ x = None
             \/ Head(reports["sender"]).type = "PROGRESS" /\ x.paused = Head(reports["sender"]).paused
             \/ /\ Head(reports["sender"]).type # "PROGRESS" /\ transfers["send"] # None
                /\ x.paused = transfers["send"].paused,
             transfers["send"] = None /\ Silent(reports["sender"]) => x = None
      PROVE  PauseInv'
  <2>1. /\ Shows(Tail(reports["sender"]), x, isSendBlocked(sending))
        /\ Silent(reports["sender"]) => Silent(Tail(reports["sender"]))
    BY <1>2, <1>3, ShowsHandled
  <2> QED BY <1>1, <1>3, <2>1 DEF PauseInv
<1>4. ASSUME reports'["sender"] = reports["sender"],
             transfers'["send"] \in {transfers["send"], None}
      PROVE  PauseInv'
  <2>1. Shows(reports["sender"], transfers'["send"], isSendBlocked(sending))
    BY <1>4, ShowsWeaker DEF PauseInv
  <2> QED BY <1>1, <1>4, <2>1 DEF PauseInv
<1>5. ASSUME NEW p \in Page, handleFileTransferProgress(p) PROVE PauseInv'
  <2>1. Arrived(p, "PROGRESS")
    BY <1>5 DEF handleFileTransferProgress
  <2>2. PICK m : m = Head(reports[p])
    OBVIOUS
  <2>3. PICK k : k = Direction[p]
    OBVIOUS
  <2>4. PICK x \in Transfer : Replaced(k, x) /\ (m.paused # None => x.paused = m.paused)
    BY <1>5, <2>2, <2>3, ProgressRecorded
  <2>5. CASE p = "receiver"
    <3>1. reports'["sender"] = reports["sender"]
      BY <1>2, <2>1, <2>5, ArrivedTypes
    <3>2. transfers'["send"] = transfers["send"]
      BY <1>2, <2>3, <2>4, <2>5, DirectionKeys DEF Replaced
    <3> QED BY <1>4, <3>1, <3>2
  <2>6. CASE p = "sender"
    <3>1. /\ reports["sender"] # <<>> /\ reports'["sender"] = Tail(reports["sender"])
          /\ Head(reports["sender"]).type = "PROGRESS"
      BY <1>2, <2>1, <2>6, ArrivedTypes
    <3>2. Head(reports["sender"]) = reports["sender"][1] /\ 1 \in 1..Len(reports["sender"])
      BY <1>2, <3>1
    <3>3. m.paused \in BOOLEAN
      BY <2>2, <2>6, <3>1, <3>2 DEF PauseInv, Shows, SaysLast
    <3>4. m.paused # None
      BY <3>3, TransferStatsAssumption
    <3>5. transfers'["send"] = x /\ x.paused = Head(reports["sender"]).paused
      BY <2>2, <2>3, <2>4, <2>6, <3>4, DirectionKeys DEF Replaced
    <3>6. ~Silent(reports["sender"])
      BY <3>1, <3>2 DEF Silent
    <3> QED BY <1>3, <3>1, <3>5, <3>6 DEF PauseInv
  <2> QED BY <1>5, <2>5, <2>6, DirectionKeys
<1>6. ASSUME NEW p \in Page, handleFileTransferBackpressure(p) PROVE PauseInv'
  <2>1. Arrived(p, "BACKPRESSURE")
    BY <1>6 DEF handleFileTransferBackpressure
  <2>2. PICK m : m = Head(reports[p])
    OBVIOUS
  <2>3. PICK k : k = Direction[p]
    OBVIOUS
  <2>4. /\ transfers[k] = None => transfers' = transfers
        /\ transfers[k] # None =>
             \E x \in Transfer : Replaced(k, x) /\ x.paused = transfers[k].paused
    BY <1>6, <2>2, <2>3, BackpressureRecorded
  <2>5. CASE p = "receiver"
    <3>1. reports'["sender"] = reports["sender"]
      BY <1>2, <2>1, <2>5, ArrivedTypes
    <3>2. transfers'["send"] = transfers["send"]
      BY <1>2, <2>3, <2>4, <2>5, DirectionKeys DEF Replaced
    <3> QED BY <1>4, <3>1, <3>2
  <2>6. CASE p = "sender"
    <3>1. /\ reports["sender"] # <<>> /\ reports'["sender"] = Tail(reports["sender"])
          /\ Head(reports["sender"]).type # "PROGRESS"
      BY <1>2, <2>1, <2>6, ArrivedTypes
    <3>2. CASE transfers["send"] = None
      <4>1. transfers'["send"] = None
        BY <2>3, <2>4, <2>6, <3>2, DirectionKeys
      <4> QED BY <1>3, <3>1, <4>1 DEF PauseInv
    <3>3. CASE transfers["send"] # None
      <4>1. PICK x : transfers'["send"] = x /\ x.paused = transfers["send"].paused
        BY <2>3, <2>4, <2>6, <3>3, DirectionKeys DEF Replaced
      <4> QED BY <1>3, <3>1, <3>3, <4>1 DEF PauseInv
    <3> QED BY <3>2, <3>3
  <2> QED BY <1>6, <2>5, <2>6, DirectionKeys
<1>7. ASSUME NEW p \in Page, handleDisconnect(p) PROVE PauseInv'
  <2>1. /\ Arrived(p, "disconnect")
        /\ transfers'["send"] \in {transfers["send"], None}
    BY <1>2, <1>7 DEF handleDisconnect, setFileRoomPeerCount
  <2>2. CASE p = "receiver"
    <3>1. reports'["sender"] = reports["sender"]
      BY <1>2, <2>1, <2>2, ArrivedTypes
    <3> QED BY <1>4, <2>1, <3>1
  <2>3. CASE p = "sender"
    <3>1. /\ reports["sender"] # <<>> /\ reports'["sender"] = Tail(reports["sender"])
          /\ Head(reports["sender"]).type # "PROGRESS"
      BY <1>2, <2>1, <2>3, ArrivedTypes
    <3>2. PICK x : x = transfers'["send"]
      OBVIOUS
    <3>3. x = None \/ (transfers["send"] # None /\ x.paused = transfers["send"].paused)
      BY <2>1, <3>2
    <3> QED BY <1>3, <2>1, <3>1, <3>2, <3>3 DEF PauseInv
  <2> QED BY <1>7, <2>2, <2>3, DirectionKeys
<1>8. ASSUME NEW t \in timers, timerFires(t) PROVE PauseInv'
  <2>1. reports' = reports
    BY <1>8 DEF timerFires
  <2>2. transfers'["send"] \in {transfers["send"], None}
    BY <1>2, <1>8 DEF timerFires, StatsTypes
  <2> QED BY <1>4, <2>1, <2>2
<1>9. CASE bucketWritten
  BY <1>4, <1>9 DEF bucketWritten
<1> QED BY <1>5, <1>6, <1>7, <1>8, <1>9 DEF StatsStep

LEMMA StartPause == Init => PauseInv
<1> SUFFICES ASSUME Init PROVE PauseInv
  OBVIOUS
<1>1. reports["sender"] = <<>> /\ transfers["send"] = None
  BY DirectionKeys DEF Init
<1>2. Silent(<<>>) /\ SaysLast(<<>>, isSendBlocked(sending))
  BY DEF Silent, SaysLast
<1> QED BY <1>1, <1>2 DEF PauseInv, Shows

LEMMA StepPause ==
  ASSUME TypeInv, PauseInv, [Next]_<<pageVars, reports, statsVars>>
  PROVE  PauseInv'
<1>1. CASE UNCHANGED <<pageVars, reports, statsVars>>
  BY <1>1 DEF PauseInv, pageVars, statsVars
<1> QED BY <1>1, SenderPause, ReceiverPause, LeavingPause, ServerPause DEF Next

\* A transfer is shown as paused only while the user or a slow receiver holds the sender
\* back, once its reports have arrived: pauseSend, resumeSend, WRITE_BACKPRESSURE and
\* closePeer all report, and reports are handled in the order they were made.
THEOREM PausesLifted == Spec => []PauseLifted
<1>1. Spec => [](TypeInv /\ PauseInv)
  BY StartType, StepType, StartPause, StepPause, PTL DEF Spec
<1>2. TypeInv /\ PauseInv => PauseLifted
  <2> SUFFICES ASSUME TypeInv, PauseInv, reports["sender"] = <<>>,
                      NEW t \in getSnapshot.activeTransfers, t.key = "send", t.stat.paused
               PROVE  isSendBlocked(sending)
    BY DEF PauseLifted
  <2>1. PICK k \in Key : transfers[k] # None /\ t = [key |-> k, stat |-> transfers[k]]
    BY DEF getSnapshot
  <2>2. k = "send" /\ t.stat = transfers["send"]
    BY <2>1
  <2>3. Silent(reports["sender"])
    BY DEF Silent
  <2> QED BY <2>1, <2>2, <2>3 DEF PauseInv, Shows
<1> QED BY <1>1, <1>2, PTL


-----------------------------------------------------------------------------
\* The bytes that are counted.  First the sums: from "start", the additions under way
\* lead to n.
Sums(adds, s) ==
  /\ s \in [0..Len(adds) -> Nat]
  /\ \A i \in 1..Len(adds) : s[i] = s[i - 1] + adds[i]

Adds(adds, start, n) == \E s : Sums(adds, s) /\ s[0] = start /\ s[Len(adds)] = n

LEMMA AddsNone ==
  ASSUME NEW n \in Nat
  PROVE  Adds(<<>>, n, n)
<1>1. Sums(<<>>, [i \in 0..0 |-> n])
  BY DEF Sums
<1> QED BY <1>1 DEF Adds

LEMMA AddsTail ==
  ASSUME NEW q \in Seq(Nat \ {0}), q # <<>>, NEW start, NEW n, Adds(q, start, n)
  PROVE  start \in Nat /\ Adds(Tail(q), start + Head(q), n)
<1>1. PICK s : Sums(q, s) /\ s[0] = start /\ s[Len(q)] = n
  BY DEF Adds
<1>2. /\ Len(q) \in Nat /\ Len(q) >= 1 /\ Len(Tail(q)) = Len(q) - 1 /\ Head(q) = q[1]
      /\ \A i \in 1..Len(Tail(q)) : Tail(q)[i] = q[i + 1]
  OBVIOUS
<1> DEFINE t == [i \in 0..Len(Tail(q)) |-> s[i + 1]]
<1>3. ASSUME NEW i \in 1..Len(Tail(q))
      PROVE  i + 1 \in 1..Len(q) /\ t[i] = s[i + 1] /\ t[i - 1] = s[(i + 1) - 1]
  BY <1>2
<1>4. t \in [0..Len(Tail(q)) -> Nat]
  BY <1>1, <1>2 DEF Sums
<1>5. t[0] = s[1] /\ t[Len(Tail(q))] = n
  BY <1>1, <1>2
<1>6. s[1] = start + Head(q) /\ start \in Nat
  <2>1. 1 \in 1..Len(q) /\ 1 - 1 = 0 /\ 0 \in 0..Len(q)
    BY <1>2
  <2>2. s[1] = s[1 - 1] + q[1] /\ s[0] \in Nat
    BY <1>1, <2>1 DEF Sums
  <2> QED BY <1>1, <1>2, <2>1, <2>2
<1> HIDE DEF t
<1>7. Sums(Tail(q), t)
  BY <1>1, <1>2, <1>3, <1>4 DEF Sums
<1> QED BY <1>5, <1>6, <1>7 DEF Adds

LEMMA AddsMore ==
  ASSUME NEW q \in Seq(Nat \ {0}), NEW start, NEW n, Adds(q, start, n), NEW d \in Nat \ {0}
  PROVE  n \in Nat /\ Adds(Append(q, d), start, n + d)
<1>1. PICK s : Sums(q, s) /\ s[0] = start /\ s[Len(q)] = n
  BY DEF Adds
<1>2. /\ Len(q) \in Nat /\ Len(Append(q, d)) = Len(q) + 1
      /\ Append(q, d)[Len(q) + 1] = d
      /\ \A i \in 1..Len(q) : Append(q, d)[i] = q[i]
  OBVIOUS
<1>3. n \in Nat
  BY <1>1, <1>2 DEF Sums
<1> DEFINE t == [i \in 0..(Len(q) + 1) |-> IF i = Len(q) + 1 THEN n + d ELSE s[i]]
<1>4. /\ t \in [0..Len(Append(q, d)) -> Nat]
      /\ \A i \in 0..Len(q) : t[i] = s[i]
      /\ t[Len(q) + 1] = n + d
  BY <1>1, <1>2, <1>3 DEF Sums
<1> HIDE DEF t
<1>5. ASSUME NEW i \in 1..Len(Append(q, d))
      PROVE  t[i] = t[i - 1] + Append(q, d)[i]
  <2>1. CASE i = Len(q) + 1
    <3>1. t[i - 1] = n
      BY <1>1, <1>2, <1>4, <2>1
    <3> QED BY <1>2, <1>4, <2>1, <3>1
  <2>2. CASE i # Len(q) + 1
    <3>1. i \in 1..Len(q) /\ i \in 0..Len(q) /\ i - 1 \in 0..Len(q)
      BY <1>2, <2>2
    <3> QED BY <1>1, <1>2, <1>4, <3>1 DEF Sums
  <2> QED BY <2>1, <2>2
<1>6. Sums(Append(q, d), t)
  BY <1>4, <1>5 DEF Sums
<1>7. 0 \in 0..Len(q)
  BY <1>2
<1> QED BY <1>1, <1>2, <1>3, <1>4, <1>6, <1>7 DEF Adds

-----------------------------------------------------------------------------
\* A page's reports go forward: file by file, and chunk by chunk.
AtMost(f, b, g, c) == f < g \/ (f = g /\ b <= c)

\* The reports of q go from place (f, b) to place (g, n).
Forward(q, f, b, g, n) ==
  /\ AtMost(f, b, g, n)
  /\ \A i \in 1..Len(q) : q[i].type # "disconnect" =>
       /\ f <= q[i].file /\ q[i].file <= g
       /\ \A j \in 1..Len(q) : i < j /\ q[j].type # "disconnect" => q[i].file <= q[j].file
  /\ \A i \in 1..Len(q) : q[i].type = "PROGRESS" =>
       /\ q[i].bytes <= Limit(q[i].file)
       /\ AtMost(f, b, q[i].file, q[i].bytes) /\ AtMost(q[i].file, q[i].bytes, g, n)
       /\ \A j \in 1..Len(q) : i < j /\ q[j].type = "PROGRESS" =>
            AtMost(q[i].file, q[i].bytes, q[j].file, q[j].bytes)

\* All that q still reports, and what comes after it, is about file h or a later one.
NoEarlier(q, h, g) ==
  /\ h <= g
  /\ \A i \in 1..Len(q) : q[i].type # "disconnect" => h <= q[i].file

LEMMA AtMostNext ==
  ASSUME NEW f \in Nat, NEW b \in Nat, NEW g \in Nat, NEW c \in Nat, AtMost(f, b, g, c)
  PROVE  /\ f <= g
         /\ \A h \in Nat, d \in Nat : AtMost(g, c, h, d) => AtMost(f, b, h, d)
         /\ AtMost(f, b, f, b)
BY DEF AtMost

LEMMA ForwardFields ==
  ASSUME NEW q \in Seq(Report), NEW i \in 1..Len(q)
  PROVE  /\ q[i] \in Report
         /\ q[i].type \in {"PROGRESS", "BACKPRESSURE", "disconnect"}
         /\ q[i].type # "disconnect" => q[i].file \in Nat
         /\ q[i].type = "PROGRESS" => q[i].bytes \in Nat
<1>1. q[i] \in Report
  OBVIOUS
<1>2. File \subseteq Nat
  BY SizeType DEF File
<1> QED BY <1>1, <1>2, ReportFields

LEMMA ForwardFurther ==
  ASSUME NEW q \in Seq(Report), NEW f \in Nat, NEW b \in Nat, NEW g \in Nat, NEW n \in Nat,
         Forward(q, f, b, g, n), NEW h \in Nat, NEW m \in Nat, AtMost(g, n, h, m)
  PROVE  /\ Forward(q, f, b, h, m)
         /\ \A l \in Nat : NoEarlier(q, l, g) => NoEarlier(q, l, h)
<1>1. g <= h /\ AtMost(f, b, h, m)
  BY AtMostNext DEF Forward
<1>2. ASSUME NEW i \in 1..Len(q), q[i].type # "disconnect" PROVE q[i].file <= h
  BY <1>1, <1>2, ForwardFields DEF Forward
<1>3. ASSUME NEW i \in 1..Len(q), q[i].type = "PROGRESS"
      PROVE  AtMost(q[i].file, q[i].bytes, h, m)
  <2>1. q[i].file \in Nat /\ q[i].bytes \in Nat /\ AtMost(q[i].file, q[i].bytes, g, n)
    BY <1>3, ForwardFields DEF Forward
  <2> QED BY <2>1, AtMostNext
<1>4. Forward(q, f, b, h, m)
  BY <1>1, <1>2, <1>3 DEF Forward
<1> QED BY <1>1, <1>4 DEF NoEarlier

LEMMA ForwardMore ==
  ASSUME NEW q \in Seq(Report), NEW f \in Nat, NEW b \in Nat, NEW g \in Nat, NEW n \in Nat,
         Forward(q, f, b, g, n), NEW m \in Report,
         m.type # "disconnect" => m.file = g,
         m.type = "PROGRESS" => m.bytes = n /\ n <= Limit(g)
  PROVE  /\ Forward(Append(q, m), f, b, g, n)
         /\ \A l \in Nat : NoEarlier(q, l, g) => NoEarlier(Append(q, m), l, g)
<1>1. /\ Len(q) \in Nat /\ Len(Append(q, m)) = Len(q) + 1
      /\ Append(q, m)[Len(q) + 1] = m
      /\ \A i \in 1..Len(q) : Append(q, m)[i] = q[i]
      /\ \A i \in 1..Len(Append(q, m)) : i \in 1..Len(q) \/ i = Len(q) + 1
      /\ Append(q, m) \in Seq(Report)
  OBVIOUS
<1>2. f <= g /\ AtMost(f, b, g, n) /\ AtMost(g, n, g, n)
  BY AtMostNext DEF Forward, AtMost
<1>3. ASSUME NEW i \in 1..Len(Append(q, m)), Append(q, m)[i].type # "disconnect"
      PROVE  /\ f <= Append(q, m)[i].file /\ Append(q, m)[i].file <= g
             /\ \A j \in 1..Len(Append(q, m)) : i < j /\ Append(q, m)[j].type # "disconnect" =>
                  Append(q, m)[i].file <= Append(q, m)[j].file
  <2>1. CASE i \in 1..Len(q)
    <3>1. q[i].type # "disconnect" /\ f <= q[i].file /\ q[i].file <= g
      BY <1>1, <1>3, <2>1 DEF Forward
    <3>2. ASSUME NEW j \in 1..Len(Append(q, m)), i < j, Append(q, m)[j].type # "disconnect"
          PROVE  q[i].file <= Append(q, m)[j].file
      BY <1>1, <2>1, <3>1, <3>2 DEF Forward
    <3> QED BY <1>1, <2>1, <3>1, <3>2
  <2>2. CASE i = Len(q) + 1
    BY <1>1, <1>2, <1>3, <2>2
  <2> QED BY <1>1, <2>1, <2>2
<1>4. ASSUME NEW i \in 1..Len(Append(q, m)), Append(q, m)[i].type = "PROGRESS"
      PROVE  LET x == Append(q, m)[i] IN
             /\ x.bytes <= Limit(x.file)
             /\ AtMost(f, b, x.file, x.bytes) /\ AtMost(x.file, x.bytes, g, n)
             /\ \A j \in 1..Len(Append(q, m)) : i < j /\ Append(q, m)[j].type = "PROGRESS" =>
                  AtMost(x.file, x.bytes, Append(q, m)[j].file, Append(q, m)[j].bytes)
  <2>1. CASE i \in 1..Len(q)
    <3>1. /\ q[i].type = "PROGRESS" /\ q[i].bytes <= Limit(q[i].file)
          /\ AtMost(f, b, q[i].file, q[i].bytes) /\ AtMost(q[i].file, q[i].bytes, g, n)
      BY <1>1, <1>4, <2>1 DEF Forward
    <3>2. ASSUME NEW j \in 1..Len(Append(q, m)), i < j, Append(q, m)[j].type = "PROGRESS"
          PROVE  AtMost(q[i].file, q[i].bytes, Append(q, m)[j].file, Append(q, m)[j].bytes)
      BY <1>1, <2>1, <3>1, <3>2 DEF Forward
    <3> QED BY <1>1, <2>1, <3>1, <3>2
  <2>2. CASE i = Len(q) + 1
    BY <1>1, <1>2, <1>4, <2>2
  <2> QED BY <1>1, <2>1, <2>2
<1>5. Forward(Append(q, m), f, b, g, n)
  BY <1>2, <1>3, <1>4 DEF Forward
<1>6. ASSUME NEW l \in Nat, NoEarlier(q, l, g) PROVE NoEarlier(Append(q, m), l, g)
  BY <1>1, <1>6 DEF NoEarlier
<1> QED BY <1>5, <1>6

LEMMA ForwardTail ==
  ASSUME NEW q \in Seq(Report), q # <<>>, NEW f \in Nat, NEW b \in Nat,
         NEW g \in Nat, NEW n \in Nat, Forward(q, f, b, g, n)
  PROVE  /\ Forward(Tail(q), f, b, g, n)
         /\ \A l \in Nat : NoEarlier(q, l, g) => NoEarlier(Tail(q), l, g)
         /\ Head(q).type # "disconnect" =>
              f <= Head(q).file /\ NoEarlier(Tail(q), Head(q).file, g)
         /\ Head(q).type = "PROGRESS" =>
              /\ AtMost(f, b, Head(q).file, Head(q).bytes)
              /\ Head(q).bytes <= Limit(Head(q).file)
              /\ Forward(Tail(q), Head(q).file, Head(q).bytes, g, n)
<1>1. /\ Len(q) \in Nat /\ Len(q) > 0 /\ Len(Tail(q)) = Len(q) - 1 /\ Head(q) = q[1]
      /\ 1 \in 1..Len(q)
      /\ \A i \in 1..Len(Tail(q)) : Tail(q)[i] = q[i + 1] /\ i + 1 \in 1..Len(q) /\ 1 < i + 1
  OBVIOUS
<1>2. AtMost(f, b, g, n)
  BY DEF Forward
<1>3. ASSUME NEW i \in 1..Len(Tail(q)), Tail(q)[i].type # "disconnect"
      PROVE  /\ f <= Tail(q)[i].file /\ Tail(q)[i].file <= g
             /\ \A j \in 1..Len(Tail(q)) : i < j /\ Tail(q)[j].type # "disconnect" =>
                  Tail(q)[i].file <= Tail(q)[j].file
  <2>1. \A j \in 1..Len(Tail(q)) : i < j => i + 1 < j + 1
    OBVIOUS
  <2> QED BY <1>1, <1>3, <2>1 DEF Forward
<1>4. ASSUME NEW i \in 1..Len(Tail(q)), Tail(q)[i].type = "PROGRESS"
      PROVE  /\ Tail(q)[i].bytes <= Limit(Tail(q)[i].file)
             /\ AtMost(f, b, Tail(q)[i].file, Tail(q)[i].bytes)
             /\ AtMost(Tail(q)[i].file, Tail(q)[i].bytes, g, n)
             /\ \A j \in 1..Len(Tail(q)) : i < j /\ Tail(q)[j].type = "PROGRESS" =>
                  AtMost(Tail(q)[i].file, Tail(q)[i].bytes, Tail(q)[j].file, Tail(q)[j].bytes)
  <2>1. \A j \in 1..Len(Tail(q)) : i < j => i + 1 < j + 1
    OBVIOUS
  <2> QED BY <1>1, <1>4, <2>1 DEF Forward
<1>5. Forward(Tail(q), f, b, g, n)
  BY <1>2, <1>3, <1>4 DEF Forward
<1>6. \A l \in Nat : NoEarlier(q, l, g) => NoEarlier(Tail(q), l, g)
  BY <1>1 DEF NoEarlier
<1>7. ASSUME Head(q).type # "disconnect"
      PROVE  f <= Head(q).file /\ NoEarlier(Tail(q), Head(q).file, g)
  BY <1>1, <1>7 DEF Forward, NoEarlier
<1>8. ASSUME Head(q).type = "PROGRESS"
      PROVE  /\ AtMost(f, b, Head(q).file, Head(q).bytes)
             /\ Head(q).bytes <= Limit(Head(q).file)
             /\ Forward(Tail(q), Head(q).file, Head(q).bytes, g, n)
  <2>1. /\ AtMost(f, b, Head(q).file, Head(q).bytes) /\ Head(q).bytes <= Limit(Head(q).file)
        /\ AtMost(Head(q).file, Head(q).bytes, g, n)
    BY <1>1, <1>8 DEF Forward
  <2>2. ASSUME NEW i \in 1..Len(Tail(q)), Tail(q)[i].type # "disconnect"
        PROVE  Head(q).file <= Tail(q)[i].file
    BY <1>7, <1>8, <2>2 DEF NoEarlier
  <2>3. ASSUME NEW i \in 1..Len(Tail(q)), Tail(q)[i].type = "PROGRESS"
        PROVE  AtMost(Head(q).file, Head(q).bytes, Tail(q)[i].file, Tail(q)[i].bytes)
    BY <1>1, <1>8, <2>3 DEF Forward
  <2> QED BY <1>3, <1>4, <2>1, <2>2, <2>3 DEF Forward
<1> QED BY <1>5, <1>6, <1>7, <1>8


-----------------------------------------------------------------------------
\* What the server has counted for a page whose last report was of place (f, b): no
\* more than that, and no less than it lists.  An entry that is gone was removed as
\* finished, and nothing earlier is reported any more.
Count(q, f, b, c, g, n, x, there, k, done, again) ==
  /\ b <= Limit(f)
  /\ again \/ c <= Before[f] + b
  /\ Forward(q, f, b, g, n)
  /\ x # None => x.bytes = b /\ b <= c /\ f <= x.file /\ NoEarlier(q, x.file, g)
  /\ x = None /\ there =>
       \/ f = 0
       \/ \E h \in File : <<k, h>> \in done /\ f <= h /\ NoEarlier(q, h, g)

\* A page says last that it disconnects.
Ends(q, here, there) ==
  /\ here => there /\ \A i \in 1..Len(q) : q[i].type # "disconnect"
  /\ \A i \in 1..Len(q) : q[i].type = "disconnect" => i = Len(q)
  /\ ~there => ~here /\ q = <<>>

\* Where the reports of page p have come to.
FileAt(p) ==
  IF p = "receiver" THEN receiving.file
  ELSE IF sending.last = None THEN 0 ELSE sending.last.file

BytesAt(p) ==
  IF p = "receiver" THEN receiving.total
  ELSE IF sending.last = None THEN 0 ELSE sending.last.bytes

CountOf(p, f, b, c) ==
  Count(reports[p], f, b, c, FileAt(p), BytesAt(p), transfers[Direction[p]], p \in peers,
        Direction[p], removed, retold)

CountInv ==
  /\ \A p \in Page : Ends(reports[p], p \in open, p \in peers)
  /\ \E files \in [Page -> Numbers], bytes \in [Page -> Nat], counted \in [Page -> Nat] :
       /\ \A p \in Page : CountOf(p, files[p], bytes[p], counted[p])
       /\ Adds(counting, total, counted["sender"] + counted["receiver"])

LEMMA NumbersNat == Numbers \subseteq Nat /\ File \subseteq Numbers /\ 0 \in Numbers
BY SizeType DEF Numbers, File

\* The place goes on, the reports stay.
LEMMA CountFurther ==
  ASSUME NEW q \in Seq(Report), NEW f \in Nat, NEW b \in Nat, NEW c \in Nat,
         NEW g \in Nat, NEW n \in Nat, NEW x \in Transfer \cup {None}, NEW there, NEW k, NEW done,
         NEW again, Count(q, f, b, c, g, n, x, there, k, done, again),
         NEW h \in Nat, NEW m \in Nat, AtMost(g, n, h, m)
  PROVE  Count(q, f, b, c, h, m, x, there, k, done, again)
<1>1. Forward(q, f, b, h, m) /\ \A l \in Nat : NoEarlier(q, l, g) => NoEarlier(q, l, h)
  BY ForwardFurther DEF Count
<1>2. x # None => x.file \in Nat
  BY NumbersNat, TransferFields
<1>3. File \subseteq Nat
  BY NumbersNat
<1> QED BY <1>1, <1>2, <1>3 DEF Count

LEMMA CountMore ==
  ASSUME NEW q \in Seq(Report), NEW f \in Nat, NEW b \in Nat, NEW c \in Nat,
         NEW g \in Nat, NEW n \in Nat, NEW x \in Transfer \cup {None}, NEW there, NEW k, NEW done,
         NEW again, Count(q, f, b, c, g, n, x, there, k, done, again),
         NEW m \in Report, m.type # "disconnect" => m.file = g,
         m.type = "PROGRESS" => m.bytes = n /\ n <= Limit(g)
  PROVE  Count(Append(q, m), f, b, c, g, n, x, there, k, done, again)
<1>1. /\ Forward(Append(q, m), f, b, g, n)
      /\ \A l \in Nat : NoEarlier(q, l, g) => NoEarlier(Append(q, m), l, g)
  BY ForwardMore DEF Count
<1>2. x # None => x.file \in Nat
  BY NumbersNat, TransferFields
<1>3. File \subseteq Nat
  BY NumbersNat
<1> QED BY <1>1, <1>2, <1>3 DEF Count

\* The server takes a report that is no progress.
LEMMA CountTail ==
  ASSUME NEW q \in Seq(Report), q # <<>>, NEW f \in Nat, NEW b \in Nat, NEW c \in Nat,
         NEW g \in Nat, NEW n \in Nat, NEW x \in Transfer \cup {None}, NEW there, NEW k, NEW done,
         NEW again, Count(q, f, b, c, g, n, x, there, k, done, again)
  PROVE  /\ Count(Tail(q), f, b, c, g, n, x, there, k, done, again)
         /\ Head(q).type = "BACKPRESSURE" /\ x # None =>
              \A y \in Transfer : y.file = Head(q).file /\ y.bytes = x.bytes =>
                Count(Tail(q), f, b, c, g, n, y, there, k, done, again)
<1>1. /\ Forward(Tail(q), f, b, g, n)
      /\ \A l \in Nat : NoEarlier(q, l, g) => NoEarlier(Tail(q), l, g)
      /\ Head(q).type # "disconnect" =>
           f <= Head(q).file /\ NoEarlier(Tail(q), Head(q).file, g)
  BY ForwardTail DEF Count
<1>2. x # None => x.file \in Nat
  BY NumbersNat, TransferFields
<1>3. File \subseteq Nat
  BY NumbersNat
<1>4. Count(Tail(q), f, b, c, g, n, x, there, k, done, again)
  BY <1>1, <1>2, <1>3 DEF Count
<1>5. ASSUME Head(q).type = "BACKPRESSURE", x # None,
             NEW y \in Transfer, y.file = Head(q).file, y.bytes = x.bytes
      PROVE  Count(Tail(q), f, b, c, g, n, y, there, k, done, again)
  <2>1. y # None
    BY NullAssumption
  <2> QED BY <1>1, <1>5, <2>1 DEF Count
<1> QED BY <1>4, <1>5

\* recordFileTransferProgress counts what is new.
LEMMA CountProgress ==
  ASSUME NEW q \in Seq(Report), q # <<>>, NEW f \in Numbers, NEW b \in Nat, NEW c \in Nat,
         NEW g \in Nat, NEW n \in Nat, NEW x \in Transfer \cup {None}, NEW there, NEW k, NEW done,
         NEW again, Count(q, f, b, c, g, n, x, there, k, done, again), there,
         Head(q).type = "PROGRESS", NEW y \in Transfer, y.file = Head(q).file,
         y.bytes = Head(q).bytes, NEW d \in Nat,
         NEW now, again \/ (x = None /\ <<k, y.file>> \in done) => now,
         x = None => d = y.bytes,
         x # None => d = IF y.bytes > x.bytes THEN y.bytes - x.bytes ELSE 0
  PROVE  Count(Tail(q), y.file, y.bytes, c + d, g, n, y, there, k, done, now)
<1>1. y # None /\ y.file \in File /\ y.file \in Numbers /\ y.bytes \in Nat /\ y.file \in Nat
  BY NullAssumption, TransferFields, NumbersNat
<1>2. /\ AtMost(f, b, y.file, y.bytes) /\ y.bytes <= Limit(y.file)
      /\ Forward(Tail(q), y.file, y.bytes, g, n)
      /\ NoEarlier(Tail(q), y.file, g)
  BY ForwardTail, NumbersNat DEF Count
<1>3. /\ Before[f] \in Nat /\ Before[y.file] \in Nat /\ Limit(f) \in Nat /\ f \in Nat
      /\ b <= Limit(f)
  BY <1>1, BeforeType, LimitType, NumbersNat DEF Numbers, Count
<1>4. f < y.file => Before[f] + Limit(f) <= Before[y.file]
  BY <1>1, BeforeGrows DEF Numbers, Limit
<1>5. y.bytes <= c + d
  BY <1>1, TransferFields DEF Count
<1> DEFINE u == Before[f]
           v == Before[y.file]
           w == y.bytes
<1>6. u \in Nat /\ v \in Nat /\ w \in Nat /\ (f < y.file => u + b <= v)
  <2>1. CASE f < y.file
    BY <1>1, <1>3, <1>4, <2>1
  <2> QED BY <1>1, <1>3, <2>1
<1>7. \/ again \/ (x = None /\ <<k, y.file>> \in done)
      \/ c + d <= Before[y.file] + y.bytes
  <2>1. CASE again
    BY <2>1
  <2>2. CASE ~again /\ x # None
    <3>1. x.bytes = b /\ c <= Before[f] + b /\ d = IF y.bytes > b THEN y.bytes - b ELSE 0
      BY <2>2 DEF Count
    <3>2. CASE f = y.file
      <4>1. b <= w /\ u = v /\ d = w - b /\ c <= u + b
        BY <1>1, <1>2, <1>3, <3>1, <3>2 DEF AtMost
      <4> HIDE DEF u, v, w
      <4>2. c + d <= v + w
        BY <1>6, <4>1
      <4> QED BY <4>2 DEF v, w
    <3>3. CASE f < y.file
      <4>1. u + b <= v /\ d <= w /\ c <= u + b
        BY <1>6, <3>1, <3>3
      <4> HIDE DEF u, v, w
      <4>2. c + d <= v + w
        BY <1>6, <4>1
      <4> QED BY <4>2 DEF v, w
    <3> QED BY <1>2, <3>2, <3>3 DEF AtMost
  <2>3. CASE ~again /\ x = None
    <3>1. d = y.bytes /\ c <= Before[f] + b
      BY <1>1, <2>3 DEF Count
    <3>2. CASE f = 0
      <4>1. b = 0 /\ Before[f] = 0
        BY <1>3, <3>2, BeforeType DEF Limit
      <4> QED BY <1>1, <1>3, <3>1, <4>1
    <3>3. CASE \E h \in File : <<k, h>> \in done /\ f <= h /\ NoEarlier(q, h, g)
      <4>1. PICK h \in File : <<k, h>> \in done /\ f <= h /\ NoEarlier(q, h, g)
        BY <3>3
      <4>2. h <= y.file /\ h \in Nat
        <5>1. 1 \in 1..Len(q) /\ Head(q) = q[1]
          OBVIOUS
        <5> QED BY <4>1, <5>1, NumbersNat DEF NoEarlier
      <4>3. CASE h = y.file
        BY <2>3, <4>1, <4>3
      <4>4. CASE h # y.file
        <5>1. f < y.file
          BY <1>1, <1>3, <4>1, <4>2, <4>4
        <5>2. u + b <= v /\ d = w /\ c <= u + b
          BY <1>6, <3>1, <5>1
        <5> HIDE DEF u, v, w
        <5>3. c + d <= v + w
          BY <1>6, <5>2
        <5> QED BY <5>3 DEF v, w
      <4> QED BY <4>3, <4>4
    <3> QED BY <2>3, <3>2, <3>3 DEF Count
  <2> QED BY <2>1, <2>2, <2>3
<1> QED BY <1>1, <1>2, <1>5, <1>7 DEF Count

\* An entry goes: a timer has removed it, or the room with it.
LEMMA CountRemoved ==
  ASSUME NEW q, NEW f, NEW b, NEW c, NEW g, NEW n,
         NEW x \in Transfer \cup {None}, NEW there, NEW k, NEW done,
         NEW again, Count(q, f, b, c, g, n, x, there, k, done, again),
         NEW more, done \subseteq more, NEW still, still => there
  PROVE  /\ Count(q, f, b, c, g, n, x, still, k, more, again)
         /\ ~still \/ (x # None /\ <<k, x.file>> \in more) =>
              Count(q, f, b, c, g, n, None, still, k, more, again)
         /\ Count(q, f, b, c, g, n, x, there, k, done, TRUE)
BY TransferFields DEF Count


LEMMA PlaceType ==
  ASSUME TypeInv, NEW p \in Page
  PROVE  FileAt(p) \in Nat /\ BytesAt(p) \in Nat /\ reports[p] \in Seq(Report)
         /\ Direction[p] \in Key /\ transfers[Direction[p]] \in Transfer \cup {None}
<1>1. PageTypes /\ StatsTypes
  BY TypesSplit DEF TypeInv
<1>2. Direction[p] \in Key
  BY DirectionKeys
<1> QED BY <1>1, <1>2, SendingFields, ReceivingFields, NumbersNat
        DEF PageTypes, StatsTypes, FileAt, BytesAt

\* A report of where page p is now.
Present(p, m) ==
  /\ m \in Report /\ m.type # "disconnect"
  /\ m.file = FileAt(p)'
  /\ m.type = "PROGRESS" => m.bytes = BytesAt(p)' /\ BytesAt(p)' <= Limit(FileAt(p)')

LEMMA EndsMore ==
  ASSUME NEW q \in Seq(Report), NEW there, Ends(q, TRUE, there), NEW m \in Report
  PROVE  /\ m.type # "disconnect" => Ends(Append(q, m), TRUE, there)
         /\ m.type = "disconnect" => Ends(Append(q, m), FALSE, there)
<1>1. /\ Len(q) \in Nat /\ Len(Append(q, m)) = Len(q) + 1
      /\ Append(q, m)[Len(q) + 1] = m
      /\ \A i \in 1..Len(q) : Append(q, m)[i] = q[i]
      /\ \A i \in 1..Len(Append(q, m)) : i \in 1..Len(q) \/ i = Len(q) + 1
  OBVIOUS
<1>2. there /\ \A i \in 1..Len(q) : q[i].type # "disconnect"
  BY DEF Ends
<1> QED BY <1>1, <1>2 DEF Ends

LEMMA PageCounts ==
  ASSUME TypeInv, TypeInv', CountInv, UNCHANGED statsVars, UNCHANGED open,
         NEW p \in Page, p \in open,
         \A o \in Page \ {p} :
           reports'[o] = reports[o] /\ FileAt(o)' = FileAt(o) /\ BytesAt(o)' = BytesAt(o),
         AtMost(FileAt(p), BytesAt(p), FileAt(p)', BytesAt(p)'),
         \/ reports'[p] = reports[p]
         \/ \E m : Present(p, m) /\ reports'[p] = Append(reports[p], m)
         \/ \E m, l : /\ Present(p, m) /\ Present(p, l)
                      /\ reports'[p] = Append(Append(reports[p], m), l)
  PROVE  CountInv'
<1>1. PICK files \in [Page -> Numbers], bytes \in [Page -> Nat], counted \in [Page -> Nat] :
        /\ \A o \in Page : CountOf(o, files[o], bytes[o], counted[o])
        /\ Adds(counting, total, counted["sender"] + counted["receiver"])
  BY DEF CountInv
<1>2. /\ FileAt(p) \in Nat /\ BytesAt(p) \in Nat /\ reports[p] \in Seq(Report)
      /\ transfers[Direction[p]] \in Transfer \cup {None}
      /\ FileAt(p)' \in Nat /\ BytesAt(p)' \in Nat
      /\ files[p] \in Nat /\ bytes[p] \in Nat /\ counted[p] \in Nat
  <2>1. FileAt(p)' \in Nat /\ BytesAt(p)' \in Nat
    <3>1. sending' \in Sending /\ receiving' \in Receiving
      BY DEF TypeInv, TypeOK
    <3> QED BY <3>1, SendingFields, ReceivingFields, NumbersNat DEF FileAt, BytesAt
  <2> QED BY <1>1, <2>1, PlaceType, NumbersNat
<1> DEFINE CountedOf(q, g, n) ==
             Count(q, files[p], bytes[p], counted[p], g, n, transfers[Direction[p]],
                   p \in peers, Direction[p], removed, retold)
<1>3. CountedOf(reports[p], FileAt(p), BytesAt(p))
  BY <1>1 DEF CountOf
<1>4. PICK g \in Nat, n \in Nat : g = FileAt(p)' /\ n = BytesAt(p)'
  BY <1>2
<1>5. CountedOf(reports[p], g, n)
  BY <1>2, <1>3, <1>4, CountFurther
<1>6. ASSUME NEW q \in Seq(Report), CountedOf(q, g, n), NEW m, Present(p, m)
      PROVE  CountedOf(Append(q, m), g, n) /\ Append(q, m) \in Seq(Report)
  <2>1. /\ m \in Report /\ (m.type # "disconnect" => m.file = g)
        /\ m.type = "PROGRESS" => m.bytes = n /\ n <= Limit(g)
    BY <1>4, <1>6 DEF Present
  <2>2. Append(q, m) \in Seq(Report)
    BY <2>1, AppendConcat
  <2> HIDE DEF CountedOf
  <2>3. CountedOf(Append(q, m), g, n)
    BY <1>2, <1>6, <2>1, CountMore DEF CountedOf
  <2> QED BY <2>2, <2>3
<1> HIDE DEF CountedOf
<1>7. CountedOf(reports'[p], g, n)
  <2>1. CASE \E m : Present(p, m) /\ reports'[p] = Append(reports[p], m)
    BY <1>2, <1>5, <1>6, <2>1
  <2>2. CASE \E m, l : /\ Present(p, m) /\ Present(p, l)
                       /\ reports'[p] = Append(Append(reports[p], m), l)
    <3>1. PICK m, l : /\ Present(p, m) /\ Present(p, l)
                      /\ reports'[p] = Append(Append(reports[p], m), l)
      BY <2>2
    <3>2. CountedOf(Append(reports[p], m), g, n) /\ Append(reports[p], m) \in Seq(Report)
      BY <1>2, <1>5, <1>6, <3>1
    <3> QED BY <1>6, <3>1, <3>2
  <2> QED BY <1>5, <2>1, <2>2
<1>8. CountOf(p, files[p], bytes[p], counted[p])'
  BY <1>4, <1>7 DEF CountedOf, CountOf, statsVars
<1>9. ASSUME NEW o \in Page \ {p} PROVE CountOf(o, files[o], bytes[o], counted[o])'
  BY <1>1, <1>9 DEF CountOf, statsVars
<1>10. ASSUME NEW o \in Page PROVE Ends(reports[o], o \in open, o \in peers)'
  <2>1. Ends(reports[o], o \in open, o \in peers)
    BY DEF CountInv
  <2>2. CASE o # p
    BY <1>10, <2>1, <2>2 DEF statsVars
  <2>3. CASE o = p
    <3>1. PICK there : there = (p \in peers)
      OBVIOUS
    <3>2. Ends(reports[p], TRUE, there)
      BY <2>1, <2>3, <3>1 DEF Ends
    <3>3. ASSUME NEW q \in Seq(Report), Ends(q, TRUE, there), NEW m, Present(p, m)
          PROVE  Ends(Append(q, m), TRUE, there) /\ Append(q, m) \in Seq(Report)
      BY <3>3, EndsMore, AppendConcat DEF Present
    <3>4. Ends(reports'[p], TRUE, there)
      <4>1. CASE \E m : Present(p, m) /\ reports'[p] = Append(reports[p], m)
        BY <1>2, <3>2, <3>3, <4>1
      <4>2. CASE \E m, l : /\ Present(p, m) /\ Present(p, l)
                           /\ reports'[p] = Append(Append(reports[p], m), l)
        <5>1. PICK m, l : /\ Present(p, m) /\ Present(p, l)
                          /\ reports'[p] = Append(Append(reports[p], m), l)
          BY <4>2
        <5>2. Ends(Append(reports[p], m), TRUE, there) /\ Append(reports[p], m) \in Seq(Report)
          BY <1>2, <3>2, <3>3, <5>1
        <5> QED BY <3>3, <5>1, <5>2
      <4> QED BY <3>2, <4>1, <4>2
    <3> QED BY <2>3, <3>1, <3>4 DEF statsVars, Ends
  <2> QED BY <2>2, <2>3
<1>11. Adds(counting, total, counted["sender"] + counted["receiver"])'
  BY <1>1 DEF statsVars
<1> QED BY <1>1, <1>8, <1>9, <1>10, <1>11 DEF CountInv


\* A page's step that leaves it where it is, and tells that or nothing.
LEMMA StayingCounts ==
  ASSUME TypeInv, TypeInv', CountInv, UNCHANGED statsVars, UNCHANGED <<open, receiving>>,
         "sender" \in open, sending'.last = sending.last,
         reports'["receiver"] = reports["receiver"],
         \/ reports'["sender"] = reports["sender"]
         \/ \E m : Present("sender", m) /\ reports'["sender"] = Append(reports["sender"], m)
  PROVE  CountInv'
<1>1. "sender" \in Page
  BY DirectionKeys
<1>2. \A o \in Page \ {"sender"} :
        reports'[o] = reports[o] /\ FileAt(o)' = FileAt(o) /\ BytesAt(o)' = BytesAt(o)
  BY DirectionKeys DEF FileAt, BytesAt
<1>3. AtMost(FileAt("sender"), BytesAt("sender"), FileAt("sender")', BytesAt("sender")')
  <2>1. FileAt("sender")' = FileAt("sender") /\ BytesAt("sender")' = BytesAt("sender")
    BY DEF FileAt, BytesAt
  <2>2. FileAt("sender") \in Nat /\ BytesAt("sender") \in Nat
    BY <1>1, PlaceType
  <2> QED BY <2>1, <2>2 DEF AtMost
<1> QED BY <1>1, <1>2, <1>3, PageCounts

LEMMA FlushCounts ==
  ASSUME TypeInv, TypeInv', CountInv, UNCHANGED statsVars, UNCHANGED <<open, receiving>>,
         "sender" \in open, NEW x \in Sending, sending' = x, x.last = sending.last,
         NEW paused \in BOOLEAN, flushSendProgressNow(x, paused)
  PROVE  CountInv'
<1>1. PageTypes /\ SenderInv
  BY TypesSplit DEF TypeInv, PlacesInv
<1>2. reports'["receiver"] = reports["receiver"]
  BY <1>1, FlushTold
<1>3. CASE x.last = None
  <2>1. reports'["sender"] = reports["sender"]
    BY <1>1, <1>3, FlushTold
  <2> QED BY <1>2, <2>1, StayingCounts
<1>4. CASE x.last # None
  <2>1. PICK m : m = FlushedReport(x, paused)
    OBVIOUS
  <2>2. m \in Report /\ reports'["sender"] = Append(reports["sender"], m)
    BY <1>1, <1>4, <2>1, FlushTold
  <2>3. /\ FileAt("sender")' = x.last.file /\ BytesAt("sender")' = x.last.bytes
        /\ x.last.bytes <= Limit(x.last.file)
    BY <1>1, <1>4 DEF FileAt, BytesAt, SenderInv
  <2>4. Present("sender", m)
    BY <2>1, <2>2, <2>3 DEF Present, FlushedReport
  <2> QED BY <1>2, <2>2, <2>4, StayingCounts
<1> QED BY <1>3, <1>4

LEMMA acceptWaitOverCounts ==
  ASSUME TypeInv, TypeInv', CountInv, UNCHANGED statsVars, "sender" \in open, acceptWaitOver
  PROVE  CountInv'
<1>1. /\ sending \in Sending /\ SenderInv /\ sending.step = "waiting"
      /\ UNCHANGED <<receiving, open, reports>> /\ "sender" \in Page
  BY DirectionKeys DEF TypeInv, TypeOK, PlacesInv, acceptWaitOver
<1>2. PICK at : at = [file |-> sending.file, bytes |-> 0]
  OBVIOUS
<1>3. sending.file \in File
  BY <1>1, SendingFields, LimitType DEF SenderInv
<1>4. at # None /\ at.file = sending.file /\ at.bytes = 0
  BY <1>2, <1>3, NullAssumption DEF SendProgress
<1>5. sending'.last = at
  BY <1>1, <1>2 DEF acceptWaitOver, Sending
<1>6. FileAt("sender")' = sending.file /\ BytesAt("sender")' = 0
  BY <1>4, <1>5 DEF FileAt, BytesAt
<1>7. AtMost(FileAt("sender"), BytesAt("sender"), sending.file, 0)
  <2>1. sending.file \in Nat /\ sending.file # 0 /\ sending.offset = 0
    BY <1>1, <1>3, NumbersNat DEF SenderInv
  <2>2. CASE sending.last = None
    BY <2>1, <2>2 DEF AtMost, FileAt, BytesAt
  <2>3. CASE sending.last # None
    <3>1. /\ FileAt("sender") = sending.last.file /\ BytesAt("sender") = sending.last.bytes
          /\ sending.last.file <= sending.file
          /\ sending.last.file = sending.file => sending.last.bytes <= 0
      BY <1>1, <2>1, <2>3 DEF SenderInv, FileAt, BytesAt
    <3>2. sending.last.file \in Nat /\ sending.last.bytes \in Nat
      BY <1>1, <2>3, SendingFields, NumbersNat
    <3> QED BY <2>1, <3>1, <3>2 DEF AtMost
  <2> QED BY <2>2, <2>3
<1>8. \A o \in Page \ {"sender"} :
        reports'[o] = reports[o] /\ FileAt(o)' = FileAt(o) /\ BytesAt(o)' = BytesAt(o)
  BY <1>1, DirectionKeys DEF FileAt, BytesAt
<1> QED BY <1>1, <1>6, <1>7, <1>8, PageCounts

LEMMA sendChunkCounts ==
  ASSUME TypeInv, TypeInv', CountInv, UNCHANGED statsVars, "sender" \in open, sendChunk
  PROVE  CountInv'
<1>1. /\ sending \in Sending /\ SenderInv /\ UNCHANGED <<receiving, open>> /\ "sender" \in Page
  BY DirectionKeys DEF TypeInv, TypeOK, PlacesInv, sendChunk
<1>2. PICK sent : sent = sending.offset + 1
  OBVIOUS
<1>3. sending.file \in File /\ sent \in Nat /\ sent <= Limit(sending.file)
  <2>1. sending.file \in File /\ sent \in Nat /\ sent <= Size[sending.file]
    BY <1>2, sendChunkTold
  <2> QED BY <2>1, SizeType DEF Limit, File
<1>4. PICK at : at = [file |-> sending.file, bytes |-> sent]
  OBVIOUS
<1>5. at # None /\ at.file = sending.file /\ at.bytes = sent
  BY <1>3, <1>4, NullAssumption DEF SendProgress
<1>6. sending'.last = at
  BY <1>1, <1>2, <1>4 DEF sendChunk, Sending
<1>7. FileAt("sender")' = sending.file /\ BytesAt("sender")' = sent
  BY <1>5, <1>6 DEF FileAt, BytesAt
<1>8. AtMost(FileAt("sender"), BytesAt("sender"), sending.file, sent)
  <2>1. sending.file \in Nat /\ sending.file # 0 /\ sending.offset \in Nat
    BY <1>1, <1>3, SendingFields, SizeType DEF File
  <2>2. CASE sending.last = None
    BY <2>1, <2>2 DEF AtMost, FileAt, BytesAt
  <2>3. CASE sending.last # None
    <3>1. /\ FileAt("sender") = sending.last.file /\ BytesAt("sender") = sending.last.bytes
          /\ sending.last.file <= sending.file
          /\ sending.last.file = sending.file => sending.last.bytes <= sending.offset
      BY <1>1, <2>3 DEF SenderInv, FileAt, BytesAt
    <3>2. sending.last.file \in Nat /\ sending.last.bytes \in Nat
      BY <1>1, <2>3, SendingFields, NumbersNat
    <3> QED BY <1>2, <2>1, <3>1, <3>2 DEF AtMost
  <2> QED BY <2>2, <2>3
<1>9. \/ reports'["sender"] = reports["sender"]
      \/ \E m : Present("sender", m) /\ reports'["sender"] = Append(reports["sender"], m)
  <2>1. PICK m : m = ChunkReport(FALSE)
    OBVIOUS
  <2>2. Present("sender", m)
    BY <1>2, <1>3, <1>7, <2>1, sendChunkTold DEF Present, ChunkReport
  <2> QED BY <2>1, <2>2, sendChunkTold
<1>10. \A o \in Page \ {"sender"} :
         reports'[o] = reports[o] /\ FileAt(o)' = FileAt(o) /\ BytesAt(o)' = BytesAt(o)
  BY <1>1, sendChunkTold, DirectionKeys DEF FileAt, BytesAt
<1> QED BY <1>1, <1>7, <1>8, <1>9, <1>10, PageCounts

LEMMA SenderCounts ==
  ASSUME TypeInv, TypeInv', CountInv, SenderStep
  PROVE  CountInv'
<1>1. UNCHANGED statsVars /\ "sender" \in open /\ sending \in Sending /\ PageTypes
  BY TypesSplit DEF SenderStep, TypeInv, PageTypes
<1>2. CASE offerFile \/ readSlice \/ sendThrows
  <2>1. /\ sending'.last = sending.last /\ UNCHANGED <<open, receiving, reports>>
    BY <1>1, <1>2 DEF offerFile, readSlice, sendThrows, Sending
  <2> QED BY <1>1, <2>1, StayingCounts
<1>3. CASE pauseSend
  <2>1. PICK x : x = [sending EXCEPT !.paused = TRUE]
    OBVIOUS
  <2>2. x \in Sending /\ x.last = sending.last
    BY <1>1, <2>1 DEF Sending
  <2>3. sending' = x /\ flushSendProgressNow(x, TRUE) /\ UNCHANGED <<open, receiving>>
    BY <1>3, <2>1 DEF pauseSend, Flushed
  <2> QED BY <1>1, <2>2, <2>3, FlushCounts
<1>4. CASE resumeSend
  <2>1. PICK x : x = [sending EXCEPT !.paused = FALSE]
    OBVIOUS
  <2>2. x \in Sending /\ x.last = sending.last
    BY <1>1, <2>1 DEF Sending
  <2>3. sending' = x /\ flushSendProgressNow(x, isSendBlocked(x)) /\ UNCHANGED <<open, receiving>>
    BY <1>4, <2>1 DEF resumeSend, Flushed
  <2>4. isSendBlocked(x) \in BOOLEAN
    BY <2>2, SendingFields DEF isSendBlocked
  <2> QED BY <1>1, <2>2, <2>3, <2>4, FlushCounts
<1>5. CASE onBackpressure
  <2>1. PICK x : x = [sending EXCEPT !.slow = Head(signals)]
    OBVIOUS
  <2>2. Head(signals) \in BOOLEAN
    BY <1>1, <1>5 DEF PageTypes, onBackpressure
  <2>3. x \in Sending /\ x.last = sending.last
    BY <1>1, <2>1, <2>2 DEF Sending
  <2>4. sending' = x /\ flushSendProgressNow(x, isSendBlocked(x)) /\ UNCHANGED <<open, receiving>>
    BY <1>5, <2>1 DEF onBackpressure, Flushed
  <2>5. isSendBlocked(x) \in BOOLEAN
    BY <2>3, SendingFields DEF isSendBlocked
  <2> QED BY <1>1, <2>3, <2>4, <2>5, FlushCounts
<1>6. CASE closePeer
  <2>1. PICK x : x = [sending EXCEPT !.slow = FALSE]
    OBVIOUS
  <2>2. x \in Sending /\ x.last = sending.last
    BY <1>1, <2>1 DEF Sending
  <2>3. sending' = x /\ flushSendProgressNow(x, isSendBlocked(x)) /\ UNCHANGED <<open, receiving>>
    BY <1>6, <2>1 DEF closePeer, Flushed
  <2>4. isSendBlocked(x) \in BOOLEAN
    BY <2>2, SendingFields DEF isSendBlocked
  <2> QED BY <1>1, <2>2, <2>3, <2>4, FlushCounts
<1> QED BY <1>1, <1>2, <1>3, <1>4, <1>5, <1>6, acceptWaitOverCounts, sendChunkCounts DEF SenderStep


LEMMA onOfferCounts ==
  ASSUME TypeInv, TypeInv', CountInv, UNCHANGED statsVars, "receiver" \in open, onOffer
  PROVE  CountInv'
<1>1. /\ receiving \in Receiving /\ UNCHANGED <<sending, open, reports>> /\ "receiver" \in Page
  BY DirectionKeys DEF TypeInv, TypeOK, onOffer
<1>2. receiving'.file = receiving.file + 1 /\ receiving'.total = 0
  BY DEF onOffer
<1>3. AtMost(FileAt("receiver"), BytesAt("receiver"), FileAt("receiver")', BytesAt("receiver")')
  <2>1. FileAt("receiver") = receiving.file /\ FileAt("receiver")' = receiving.file + 1
    BY <1>2 DEF FileAt
  <2>2. receiving.file \in Nat
    BY <1>1, ReceivingFields, NumbersNat
  <2> QED BY <2>1, <2>2 DEF AtMost
<1>4. \A o \in Page \ {"receiver"} :
        reports'[o] = reports[o] /\ FileAt(o)' = FileAt(o) /\ BytesAt(o)' = BytesAt(o)
  BY <1>1, DirectionKeys DEF FileAt, BytesAt
<1> QED BY <1>1, <1>3, <1>4, PageCounts

LEMMA onChunkCounts ==
  ASSUME TypeInv, TypeInv', CountInv, UNCHANGED statsVars, "receiver" \in open, onChunk
  PROVE  CountInv'
<1>1. /\ receiving \in Receiving /\ UNCHANGED <<sending, open>> /\ "receiver" \in Page
  BY DirectionKeys DEF TypeInv, TypeOK, onChunk
<1>2. /\ FileAt("receiver")' = receiving.file /\ BytesAt("receiver")' = receiving.total + 1
      /\ FileAt("receiver") = receiving.file /\ BytesAt("receiver") = receiving.total
      /\ receiving.file \in File /\ receiving.total \in Nat
      /\ receiving.total + 1 <= Limit(receiving.file)
  <2>1. /\ receiving.file \in File /\ receiving.total + 1 <= Size[receiving.file]
        /\ receiving'.file = receiving.file /\ receiving'.total = receiving.total + 1
    BY onChunkTold
  <2> QED BY <1>1, <2>1, ReceivingFields, SizeType DEF Limit, File, FileAt, BytesAt
<1>3. AtMost(FileAt("receiver"), BytesAt("receiver"), FileAt("receiver")', BytesAt("receiver")')
  BY <1>2, NumbersNat DEF AtMost
<1>4. PICK m : m = ArrivalReport
  OBVIOUS
<1>5. Present("receiver", m)
  BY <1>2, <1>4, onChunkTold DEF Present, ArrivalReport
<1>6. ASSUME NEW on \in BOOLEAN PROVE Present("receiver", LagReport(receiving.file, on))
  BY <1>2, ReportsMade DEF Present, LagReport
<1>7. \/ reports'["receiver"] = reports["receiver"]
      \/ \E l : Present("receiver", l) /\ reports'["receiver"] = Append(reports["receiver"], l)
      \/ \E n, l : /\ Present("receiver", n) /\ Present("receiver", l)
                   /\ reports'["receiver"] = Append(Append(reports["receiver"], n), l)
  <2>1. CASE \E on \in BOOLEAN :
               reports'["receiver"] = Append(Append(reports["receiver"], m),
                                             LagReport(receiving.file, on))
    BY <1>5, <1>6, <2>1
  <2>2. CASE reports'["receiver"] = Append(reports["receiver"], m)
    BY <1>5, <2>2
  <2> QED BY <1>4, <2>1, <2>2, onChunkTold
<1>8. \A o \in Page \ {"receiver"} :
        reports'[o] = reports[o] /\ FileAt(o)' = FileAt(o) /\ BytesAt(o)' = BytesAt(o)
  BY <1>1, onChunkTold, DirectionKeys DEF FileAt, BytesAt
<1> QED BY <1>1, <1>3, <1>7, <1>8, PageCounts

LEMMA onChunkWrittenCounts ==
  ASSUME TypeInv, TypeInv', CountInv, UNCHANGED statsVars, "receiver" \in open, onChunkWritten
  PROVE  CountInv'
<1>1. /\ receiving \in Receiving /\ UNCHANGED <<sending, open>> /\ "receiver" \in Page
  BY DirectionKeys DEF TypeInv, TypeOK, onChunkWritten
<1>2. /\ FileAt("receiver")' = FileAt("receiver") /\ BytesAt("receiver")' = BytesAt("receiver")
      /\ FileAt("receiver")' = receiving.file /\ receiving.file \in File
  BY onChunkWrittenTold DEF FileAt, BytesAt
<1>3. AtMost(FileAt("receiver"), BytesAt("receiver"), FileAt("receiver")', BytesAt("receiver")')
  <2>1. FileAt("receiver") \in Nat /\ BytesAt("receiver") \in Nat
    BY <1>1, PlaceType
  <2> QED BY <1>2, <2>1 DEF AtMost
<1>4. ASSUME NEW on \in BOOLEAN PROVE Present("receiver", LagReport(receiving.file, on))
  BY <1>2, ReportsMade DEF Present, LagReport
<1>5. \/ reports'["receiver"] = reports["receiver"]
      \/ \E m : Present("receiver", m) /\ reports'["receiver"] = Append(reports["receiver"], m)
  BY <1>4, onChunkWrittenTold
<1>6. \A o \in Page \ {"receiver"} :
        reports'[o] = reports[o] /\ FileAt(o)' = FileAt(o) /\ BytesAt(o)' = BytesAt(o)
  BY <1>1, onChunkWrittenTold, DirectionKeys DEF FileAt, BytesAt
<1> QED BY <1>1, <1>3, <1>5, <1>6, PageCounts

LEMMA onCompleteCounts ==
  ASSUME TypeInv, TypeInv', CountInv, UNCHANGED statsVars, "receiver" \in open, onComplete
  PROVE  CountInv'
<1>1. /\ receiving \in Receiving /\ UNCHANGED <<sending, open, reports>> /\ "receiver" \in Page
  BY DirectionKeys DEF TypeInv, TypeOK, onComplete
<1>2. receiving'.file = receiving.file /\ receiving'.total = receiving.total
  BY <1>1 DEF onComplete, Receiving
<1>3. AtMost(FileAt("receiver"), BytesAt("receiver"), FileAt("receiver")', BytesAt("receiver")')
  BY <1>1, <1>2, ReceivingFields, NumbersNat DEF AtMost, FileAt, BytesAt
<1>4. \A o \in Page \ {"receiver"} :
        reports'[o] = reports[o] /\ FileAt(o)' = FileAt(o) /\ BytesAt(o)' = BytesAt(o)
  BY <1>1, DirectionKeys DEF FileAt, BytesAt
<1> QED BY <1>1, <1>3, <1>4, PageCounts

LEMMA ReceiverCounts ==
  ASSUME TypeInv, TypeInv', CountInv, ReceiverStep
  PROVE  CountInv'
BY onOfferCounts, onChunkCounts, onChunkWrittenCounts, onCompleteCounts DEF ReceiverStep

LEMMA LeavingCounts ==
  ASSUME TypeInv, CountInv, NEW p \in Page, PageLeft(p)
  PROVE  CountInv'
<1>1. PICK files \in [Page -> Numbers], bytes \in [Page -> Nat], counted \in [Page -> Nat] :
        /\ \A o \in Page : CountOf(o, files[o], bytes[o], counted[o])
        /\ Adds(counting, total, counted["sender"] + counted["receiver"])
  BY DEF CountInv
<1>2. PageTypes /\ UNCHANGED <<sending, receiving>> /\ UNCHANGED statsVars /\ p \in open
      /\ open' = open \ {p}
  BY TypesSplit DEF TypeInv, PageLeft
<1>3. PICK m : m = [type |-> "disconnect"]
  OBVIOUS
<1>4. m \in Report /\ m.type = "disconnect"
  BY <1>3, ReportsMade
<1>5. /\ reports'[p] = Append(reports[p], m)
      /\ \A o \in Page \ {p} : reports'[o] = reports[o]
  <2>1. PICK more : more = <<m>>
    OBVIOUS
  <2>2. more \in Seq(Report) /\ Tell(p, more)
    BY <1>3, <1>4, <2>1, ShortSequences DEF PageLeft
  <2>3. reports'[p] = reports[p] \o more /\ \A o \in Page \ {p} : reports'[o] = reports[o]
    BY <1>2, <2>2, Told
  <2>4. Append(reports[p], m) = reports[p] \o <<m>>
    BY <1>2, <1>4, AppendConcat DEF PageTypes
  <2> QED BY <2>1, <2>3, <2>4
<1>6. /\ FileAt(p) \in Nat /\ BytesAt(p) \in Nat /\ reports[p] \in Seq(Report)
      /\ transfers[Direction[p]] \in Transfer \cup {None}
      /\ files[p] \in Nat /\ bytes[p] \in Nat /\ counted[p] \in Nat
  BY <1>1, PlaceType, NumbersNat
<1>7. \A o \in Page : FileAt(o)' = FileAt(o) /\ BytesAt(o)' = BytesAt(o)
  BY <1>2 DEF FileAt, BytesAt
<1>8. CountOf(p, files[p], bytes[p], counted[p])'
  <2> DEFINE CountedOf(q) ==
               Count(q, files[p], bytes[p], counted[p], FileAt(p), BytesAt(p),
                     transfers[Direction[p]], p \in peers, Direction[p], removed, retold)
  <2>1. CountedOf(reports[p])
    BY <1>1 DEF CountOf
  <2>2. CountedOf(Append(reports[p], m))
    BY <1>4, <1>6, <2>1, CountMore
  <2> QED BY <1>2, <1>5, <1>7, <2>2 DEF CountOf, statsVars
<1>9. ASSUME NEW o \in Page \ {p} PROVE CountOf(o, files[o], bytes[o], counted[o])'
  BY <1>1, <1>2, <1>5, <1>7, <1>9 DEF CountOf, statsVars
<1>10. ASSUME NEW o \in Page PROVE Ends(reports[o], o \in open, o \in peers)'
  <2>1. Ends(reports[o], o \in open, o \in peers)
    BY DEF CountInv
  <2>2. CASE o # p
    <3>1. (o \in open)' = (o \in open) /\ peers' = peers /\ reports'[o] = reports[o]
      BY <1>2, <1>5, <2>2 DEF statsVars
    <3> QED BY <2>1, <3>1 DEF Ends
  <2>3. CASE o = p
    <3>1. PICK there : there = (p \in peers)
      OBVIOUS
    <3>2. Ends(reports[p], TRUE, there)
      BY <1>2, <2>1, <2>3, <3>1 DEF Ends
    <3>3. Ends(Append(reports[p], m), FALSE, there)
      BY <1>4, <1>6, <3>2, EndsMore
    <3>4. p \notin open' /\ peers' = peers
      BY <1>2 DEF statsVars
    <3> QED BY <1>5, <2>3, <3>1, <3>3, <3>4 DEF Ends
  <2> QED BY <2>2, <2>3
<1>11. Adds(counting, total, counted["sender"] + counted["receiver"])'
  BY <1>1, <1>2 DEF statsVars
<1> QED BY <1>1, <1>8, <1>9, <1>10, <1>11 DEF CountInv


-----------------------------------------------------------------------------
\* The server's steps.
LEMMA EndsTail ==
  ASSUME NEW q \in Seq(Report), q # <<>>, NEW here, NEW there, Ends(q, here, there)
  PROVE  /\ there
         /\ Head(q).type # "disconnect" => Ends(Tail(q), here, there)
         /\ Head(q).type = "disconnect" => ~here /\ Ends(Tail(q), FALSE, FALSE)
<1>1. /\ Len(q) \in Nat /\ Len(q) >= 1 /\ Len(Tail(q)) = Len(q) - 1 /\ Head(q) = q[1]
      /\ \A i \in 1..Len(Tail(q)) : Tail(q)[i] = q[i + 1] /\ i + 1 \in 1..Len(q)
      /\ 1 \in 1..Len(q) /\ Tail(q) \in Seq(Report)
  OBVIOUS
<1>2. there
  BY DEF Ends
<1>3. /\ \A i \in 1..Len(q) : q[i].type = "disconnect" => i = Len(q)
      /\ here => \A i \in 1..Len(q) : q[i].type # "disconnect"
  BY DEF Ends
<1>4. /\ \A i \in 1..Len(Tail(q)) : Tail(q)[i].type = "disconnect" => i = Len(Tail(q))
      /\ here => \A i \in 1..Len(Tail(q)) : Tail(q)[i].type # "disconnect"
  <2> SUFFICES ASSUME NEW i \in 1..Len(Tail(q))
               PROVE  /\ Tail(q)[i].type = "disconnect" => i = Len(Tail(q))
                      /\ here => Tail(q)[i].type # "disconnect"
    OBVIOUS
  <2>1. PICK r : r = q[i + 1]
    OBVIOUS
  <2>2. Tail(q)[i] = r /\ (r.type = "disconnect" => i + 1 = Len(q) /\ ~here)
    BY <1>1, <1>3, <2>1
  <2>3. i + 1 = Len(q) => i = Len(Tail(q))
    <3>1. PICK a, b : a = Len(q) /\ b = Len(Tail(q))
      OBVIOUS
    <3>2. a \in Nat /\ i \in Nat /\ b = a - 1
      BY <1>1, <3>1
    <3>3. i + 1 = a => i = b
      BY <3>2
    <3> QED BY <3>1, <3>3
  <2> QED BY <2>2, <2>3
<1>5. ASSUME Head(q).type = "disconnect" PROVE ~here /\ Tail(q) = <<>>
  <2>1. Len(q) = 1 /\ ~here
    BY <1>1, <1>3, <1>5
  <2> QED BY <1>1, <2>1
<1>6. ASSUME Tail(q) = <<>> PROVE Ends(Tail(q), FALSE, FALSE)
  BY <1>6 DEF Ends
<1> QED BY <1>2, <1>4, <1>5, <1>6 DEF Ends

\* What a step of the server has to show, of each page by itself.
LEMMA ServerStepCounts ==
  ASSUME TypeInv, CountInv, UNCHANGED pageVars,
         NEW files \in [Page -> Numbers], NEW bytes \in [Page -> Nat],
         NEW counted \in [Page -> Nat],
         \A o \in Page : /\ Ends(reports'[o], o \in open, o \in peers')
                         /\ Count(reports'[o], files[o], bytes[o], counted[o], FileAt(o),
                                  BytesAt(o), transfers'[Direction[o]], o \in peers',
                                  Direction[o], removed', retold'),
         Adds(counting', total', counted["sender"] + counted["receiver"])
  PROVE  CountInv'
<1>1. \A o \in Page : FileAt(o)' = FileAt(o) /\ BytesAt(o)' = BytesAt(o)
  BY DEF FileAt, BytesAt, pageVars
<1>2. ASSUME NEW o \in Page PROVE CountOf(o, files[o], bytes[o], counted[o])'
  BY <1>1, <1>2 DEF CountOf
<1>3. ASSUME NEW o \in Page PROVE Ends(reports[o], o \in open, o \in peers)'
  BY <1>3 DEF pageVars
<1> QED BY <1>2, <1>3 DEF CountInv

LEMMA bucketWrittenCounts ==
  ASSUME TypeInv, CountInv, UNCHANGED pageVars, bucketWritten
  PROVE  CountInv'
<1>1. PICK files \in [Page -> Numbers], bytes \in [Page -> Nat], counted \in [Page -> Nat] :
        /\ \A o \in Page : CountOf(o, files[o], bytes[o], counted[o])
        /\ Adds(counting, total, counted["sender"] + counted["receiver"])
  BY DEF CountInv
<1>2. /\ UNCHANGED <<reports, peers, transfers, removed, retold>> /\ counting # <<>>
      /\ counting' = Tail(counting) /\ total' = total + Head(counting)
      /\ counting \in Seq(Nat \ {0})
  BY DEF bucketWritten, TypeInv, TypeOK
<1>3. Adds(counting', total', counted["sender"] + counted["receiver"])
  BY <1>1, <1>2, AddsTail
<1>4. ASSUME NEW o \in Page
      PROVE  /\ Ends(reports'[o], o \in open, o \in peers')
             /\ Count(reports'[o], files[o], bytes[o], counted[o], FileAt(o), BytesAt(o),
                      transfers'[Direction[o]], o \in peers', Direction[o], removed', retold')
  BY <1>1, <1>2 DEF CountOf, CountInv
<1> QED BY <1>1, <1>3, <1>4, ServerStepCounts

LEMMA timerFiresCounts ==
  ASSUME TypeInv, CountInv, UNCHANGED pageVars, NEW t \in timers, timerFires(t)
  PROVE  CountInv'
<1>1. PICK files \in [Page -> Numbers], bytes \in [Page -> Nat], counted \in [Page -> Nat] :
        /\ \A o \in Page : CountOf(o, files[o], bytes[o], counted[o])
        /\ Adds(counting, total, counted["sender"] + counted["receiver"])
  BY DEF CountInv
<1>2. UNCHANGED <<reports, peers, counting, total, retold>> /\ StatsTypes
  BY TypesSplit DEF timerFires, TypeInv
<1>3. removed \subseteq removed'
  BY DEF timerFires
<1>4. ASSUME NEW k \in Key
      PROVE  \/ transfers'[k] = transfers[k]
             \/ /\ transfers'[k] = None /\ transfers[k] # None
                /\ <<k, transfers[k].file>> \in removed'
  BY <1>2 DEF timerFires, StatsTypes
<1>5. ASSUME NEW o \in Page
      PROVE  /\ Ends(reports'[o], o \in open, o \in peers')
             /\ Count(reports'[o], files[o], bytes[o], counted[o], FileAt(o), BytesAt(o),
                      transfers'[Direction[o]], o \in peers', Direction[o], removed', retold')
  <2>1. PICK k \in Key : k = Direction[o]
    BY DirectionKeys
  <2>2. PICK x \in Transfer \cup {None} : x = transfers[k]
    BY <1>2 DEF StatsTypes
  <2> DEFINE CountedOf(y, done) ==
               Count(reports[o], files[o], bytes[o], counted[o], FileAt(o), BytesAt(o), y,
                     o \in peers, k, done, retold)
  <2>3. CountedOf(x, removed)
    BY <1>1, <2>1, <2>2 DEF CountOf
  <2>4. CountedOf(x, removed') /\ (x # None /\ <<k, x.file>> \in removed' => CountedOf(None, removed'))
    BY <1>3, <2>3, CountRemoved
  <2>5. CountedOf(transfers'[k], removed')
    BY <1>4, <2>2, <2>4
  <2> QED BY <1>2, <2>1, <2>5 DEF CountInv
<1> QED BY <1>1, <1>2, <1>5, ServerStepCounts


LEMMA handleFileTransferBackpressureCounts ==
  ASSUME TypeInv, CountInv, UNCHANGED pageVars, NEW p \in Page, handleFileTransferBackpressure(p)
  PROVE  CountInv'
<1>1. PICK files \in [Page -> Numbers], bytes \in [Page -> Nat], counted \in [Page -> Nat] :
        /\ \A o \in Page : CountOf(o, files[o], bytes[o], counted[o])
        /\ Adds(counting, total, counted["sender"] + counted["receiver"])
  BY DEF CountInv
<1>2. UNCHANGED <<peers, counting, total, removed, retold>> /\ PageTypes /\ StatsTypes
      /\ Arrived(p, "BACKPRESSURE")
  BY TypesSplit DEF handleFileTransferBackpressure, TypeInv
<1>3. /\ reports[p] \in Seq(Report) /\ reports[p] # <<>>
      /\ Head(reports[p]).type = "BACKPRESSURE" /\ reports'[p] = Tail(reports[p])
      /\ \A o \in Page \ {p} : reports'[o] = reports[o]
  BY <1>2, ArrivedTypes
<1>4. PICK m : m = Head(reports[p])
  OBVIOUS
<1>5. PICK k \in Key : k = Direction[p]
  BY DirectionKeys
<1>6. PICK x \in Transfer \cup {None} : x = transfers[k]
  BY <1>2 DEF StatsTypes
<1>7. /\ x = None => transfers' = transfers
      /\ x # None =>
           \E y \in Transfer : Replaced(k, y) /\ y.file = m.file /\ y.bytes = x.bytes
  <2>1. CASE x = None
    BY <1>4, <1>5, <1>6, <2>1, BackpressureRecorded
  <2>2. CASE x # None
    <3>1. PICK y \in Transfer :
            Replaced(k, y) /\ y.file = m.file /\ y.bytes = transfers[k].bytes
      BY <1>4, <1>5, <1>6, <2>2, BackpressureRecorded
    <3> QED BY <1>6, <2>2, <3>1
  <2> QED BY <2>1, <2>2
<1>8. ASSUME NEW o \in Page, o # p
      PROVE  /\ Ends(reports'[o], o \in open, o \in peers')
             /\ Count(reports'[o], files[o], bytes[o], counted[o], FileAt(o), BytesAt(o),
                      transfers'[Direction[o]], o \in peers', Direction[o], removed', retold')
  <2>1. Direction[o] \in Key /\ Direction[o] # k
    BY <1>5, <1>8, DirectionKeys
  <2>2. transfers'[Direction[o]] = transfers[Direction[o]]
    BY <1>7, <2>1 DEF Replaced
  <2> QED BY <1>1, <1>2, <1>3, <1>8, <2>2 DEF CountOf, CountInv
<1>9. Ends(reports'[p], p \in open, p \in peers')
  <2>1. PICK here, there : here = (p \in open) /\ there = (p \in peers)
    OBVIOUS
  <2>2. Ends(reports[p], here, there)
    BY <2>1 DEF CountInv
  <2>3. Ends(Tail(reports[p]), here, there)
    BY <1>3, <2>2, EndsTail
  <2> QED BY <1>2, <1>3, <2>1, <2>3
<1>10. Count(reports'[p], files[p], bytes[p], counted[p], FileAt(p), BytesAt(p),
             transfers'[k], p \in peers', k, removed', retold')
  <2> DEFINE CountedOf(q, y) ==
               Count(q, files[p], bytes[p], counted[p], FileAt(p), BytesAt(p), y,
                     p \in peers, k, removed, retold)
  <2>1. /\ FileAt(p) \in Nat /\ BytesAt(p) \in Nat
        /\ files[p] \in Nat /\ bytes[p] \in Nat /\ counted[p] \in Nat
    BY <1>1, PlaceType, NumbersNat
  <2>2. CountedOf(reports[p], x)
    BY <1>1, <1>5, <1>6 DEF CountOf
  <2>3. /\ CountedOf(Tail(reports[p]), x)
        /\ x # None =>
             \A y \in Transfer : y.file = m.file /\ y.bytes = x.bytes =>
               CountedOf(Tail(reports[p]), y)
    BY <1>3, <1>4, <2>1, <2>2, CountTail
  <2> HIDE DEF CountedOf
  <2>4. CountedOf(Tail(reports[p]), transfers'[k])
    BY <1>6, <1>7, <2>3 DEF Replaced
  <2> QED BY <1>2, <1>3, <2>4 DEF CountedOf
<1> QED BY <1>1, <1>2, <1>5, <1>8, <1>9, <1>10, ServerStepCounts

LEMMA handleDisconnectCounts ==
  ASSUME TypeInv, CountInv, UNCHANGED pageVars, NEW p \in Page, handleDisconnect(p)
  PROVE  CountInv'
<1>1. PICK files \in [Page -> Numbers], bytes \in [Page -> Nat], counted \in [Page -> Nat] :
        /\ \A o \in Page : CountOf(o, files[o], bytes[o], counted[o])
        /\ Adds(counting, total, counted["sender"] + counted["receiver"])
  BY DEF CountInv
<1>2. /\ UNCHANGED <<timers, counting, total, removed, retold>> /\ PageTypes /\ StatsTypes
      /\ Arrived(p, "disconnect") /\ peers' = peers \ {p}
      /\ transfers' = IF peers' = {} THEN [k \in Key |-> None] ELSE transfers
  BY TypesSplit DEF handleDisconnect, setFileRoomPeerCount, TypeInv
<1>3. /\ reports[p] \in Seq(Report) /\ reports[p] # <<>>
      /\ Head(reports[p]).type = "disconnect" /\ reports'[p] = Tail(reports[p])
      /\ \A o \in Page \ {p} : reports'[o] = reports[o]
  BY <1>2, ArrivedTypes
<1>4. /\ p \notin open /\ p \notin peers'
      /\ Ends(reports'[p], p \in open, p \in peers')
  <2>1. PICK here, there : here = (p \in open) /\ there = (p \in peers)
    OBVIOUS
  <2>2. Ends(reports[p], here, there)
    BY <2>1 DEF CountInv
  <2>3. ~here /\ Ends(Tail(reports[p]), FALSE, FALSE)
    BY <1>3, <2>2, EndsTail
  <2> QED BY <1>2, <1>3, <2>1, <2>3 DEF Ends
<1>5. ASSUME NEW o \in Page, NEW q, NEW k \in Key, k = Direction[o],
             Count(q, files[o], bytes[o], counted[o], FileAt(o), BytesAt(o),
                   transfers[k], o \in peers, k, removed, retold)
      PROVE  Count(q, files[o], bytes[o], counted[o], FileAt(o), BytesAt(o),
                   transfers'[k], o \in peers', k, removed', retold')
  <2>1. PICK there, still : there = (o \in peers) /\ still = (o \in peers')
    OBVIOUS
  <2>2. still => there
    BY <1>2, <2>1
  <2>3. PICK x \in Transfer \cup {None} : x = transfers[k]
    BY <1>2 DEF StatsTypes
  <2> DEFINE CountedOf(y, in) ==
               Count(q, files[o], bytes[o], counted[o], FileAt(o), BytesAt(o), y, in,
                     k, removed, retold)
  <2>4. CountedOf(x, there)
    BY <1>5, <2>1, <2>3 DEF Count
  <2>5. CountedOf(x, still) /\ (~still => CountedOf(None, still))
    BY <2>2, <2>4, CountRemoved
  <2> HIDE DEF CountedOf
  <2>6. CASE peers' = {}
    <3>1. transfers'[k] = None /\ ~still
      BY <1>2, <2>1, <2>6
    <3>2. CountedOf(None, still)
      BY <2>5, <3>1
    <3> QED BY <1>2, <2>1, <3>1, <3>2 DEF CountedOf, Count
  <2>7. CASE peers' # {}
    <3>1. transfers'[k] = x
      BY <1>2, <2>3, <2>7
    <3> QED BY <1>2, <2>1, <2>5, <3>1 DEF CountedOf, Count
  <2> QED BY <2>6, <2>7
<1>6. ASSUME NEW o \in Page
      PROVE  Count(reports'[o], files[o], bytes[o], counted[o], FileAt(o), BytesAt(o),
                   transfers'[Direction[o]], o \in peers', Direction[o], removed', retold')
  <2>1. PICK k \in Key : k = Direction[o]
    BY DirectionKeys
  <2> DEFINE CountedOf(q) ==
               Count(q, files[o], bytes[o], counted[o], FileAt(o), BytesAt(o),
                     transfers[k], o \in peers, k, removed, retold)
  <2>2. CountedOf(reports[o])
    BY <1>1, <2>1 DEF CountOf
  <2>3. CASE o # p
    BY <1>3, <1>5, <2>1, <2>2, <2>3
  <2>4. CASE o = p
    <3>1. /\ FileAt(p) \in Nat /\ BytesAt(p) \in Nat /\ transfers[k] \in Transfer \cup {None}
          /\ files[p] \in Nat /\ bytes[p] \in Nat /\ counted[p] \in Nat
      BY <1>1, <1>2, PlaceType, NumbersNat DEF StatsTypes
    <3>2. CountedOf(Tail(reports[p]))
      BY <1>3, <2>2, <2>4, <3>1, CountTail
    <3> QED BY <1>3, <1>5, <2>1, <2>4, <3>2
  <2> QED BY <2>3, <2>4
<1>7. ASSUME NEW o \in Page, o # p PROVE Ends(reports'[o], o \in open, o \in peers')
  <2>1. (o \in peers') = (o \in peers) /\ reports'[o] = reports[o]
    BY <1>2, <1>3, <1>7
  <2> QED BY <2>1 DEF CountInv, Ends
<1> QED BY <1>1, <1>2, <1>4, <1>6, <1>7, ServerStepCounts


LEMMA handleFileTransferProgressCounts ==
  ASSUME TypeInv, CountInv, UNCHANGED pageVars, NEW p \in Page, handleFileTransferProgress(p)
  PROVE  CountInv'
<1>1. PICK files \in [Page -> Numbers], bytes \in [Page -> Nat], counted \in [Page -> Nat] :
        /\ \A o \in Page : CountOf(o, files[o], bytes[o], counted[o])
        /\ Adds(counting, total, counted["sender"] + counted["receiver"])
  BY DEF CountInv
<1>2. UNCHANGED <<peers, total, removed>> /\ PageTypes /\ StatsTypes /\ Arrived(p, "PROGRESS")
  BY TypesSplit DEF handleFileTransferProgress, TypeInv
<1>3. /\ reports[p] \in Seq(Report) /\ reports[p] # <<>>
      /\ Head(reports[p]).type = "PROGRESS" /\ reports'[p] = Tail(reports[p])
      /\ \A o \in Page \ {p} : reports'[o] = reports[o]
  BY <1>2, ArrivedTypes
<1>4. PICK m : m = Head(reports[p])
  OBVIOUS
<1>5. PICK k \in Key : k = Direction[p]
  BY DirectionKeys
<1>6. PICK x \in Transfer \cup {None} : x = transfers[k]
  BY <1>2 DEF StatsTypes
<1>7. PICK d \in Nat : d = Delta(k, m.bytes)
  BY <1>4, <1>5, ProgressRecorded
<1>8. PICK y \in Transfer : Replaced(k, y) /\ y.file = m.file /\ y.bytes = m.bytes
  BY <1>4, <1>5, ProgressRecorded
<1>9. counting' = IF d > 0 THEN Append(counting, d) ELSE counting
  BY <1>4, <1>5, <1>7, ProgressRecorded
<1>10. PICK again : again = (x = None /\ <<k, y.file>> \in removed)
  OBVIOUS
<1>11. retold' = (retold \/ again)
  BY <1>4, <1>5, <1>6, <1>8, <1>10
     DEF handleFileTransferProgress, recordFileTransferProgress
<1>12. Ends(reports'[p], p \in open, p \in peers') /\ p \in peers
  <2>1. PICK here, there : here = (p \in open) /\ there = (p \in peers)
    OBVIOUS
  <2>2. Ends(reports[p], here, there)
    BY <2>1 DEF CountInv
  <2>3. Ends(Tail(reports[p]), here, there)
    BY <1>3, <2>2, EndsTail
  <2>4. there
    BY <1>3, <2>2 DEF Ends
  <2> QED BY <1>2, <1>3, <2>1, <2>3, <2>4
<1>13. /\ FileAt(p) \in Nat /\ BytesAt(p) \in Nat
       /\ files[p] \in Numbers /\ bytes[p] \in Nat /\ counted[p] \in Nat
       /\ y.file \in Numbers /\ y.bytes \in Nat
  BY <1>1, PlaceType, TransferFields, NumbersNat, NullAssumption
<1>14. Count(reports'[p], y.file, y.bytes, counted[p] + d, FileAt(p), BytesAt(p),
             transfers'[k], p \in peers', k, removed', retold')
  <2>1. PICK there : there = (p \in peers)
    OBVIOUS
  <2>2. Count(reports[p], files[p], bytes[p], counted[p], FileAt(p), BytesAt(p), x, there, k,
              removed, retold)
    BY <1>1, <1>5, <1>6, <2>1 DEF CountOf
  <2>3. /\ x = None => d = y.bytes
        /\ x # None => d = IF y.bytes > x.bytes THEN y.bytes - x.bytes ELSE 0
    BY <1>6, <1>7, <1>8, <1>13 DEF Delta
  <2>4. there /\ y.file = Head(reports[p]).file /\ y.bytes = Head(reports[p]).bytes
    BY <1>4, <1>8, <1>12, <2>1
  <2>5. Count(Tail(reports[p]), y.file, y.bytes, counted[p] + d, FileAt(p), BytesAt(p), y, there, k,
              removed, retold')
    <3>1. PICK q \in Seq(Report) : q = reports[p]
      BY <1>3
    <3>2. PICK f \in Numbers, b \in Nat, c \in Nat, g \in Nat, n \in Nat :
            f = files[p] /\ b = bytes[p] /\ c = counted[p] /\ g = FileAt(p) /\ n = BytesAt(p)
      BY <1>13
    <3>3. q # <<>> /\ Head(q).type = "PROGRESS" /\ y.file = Head(q).file /\ y.bytes = Head(q).bytes
      BY <1>3, <2>4, <3>1
    <3>4. PICK done, told, now : done = removed /\ told = retold /\ now = retold'
      OBVIOUS
    <3>5. Count(q, f, b, c, g, n, x, there, k, done, told)
      BY <2>2, <3>1, <3>2, <3>4
    <3>6. told \/ (x = None /\ <<k, y.file>> \in done) => now
      BY <1>10, <1>11, <3>4
    <3>7. Count(Tail(q), y.file, y.bytes, c + d, g, n, y, there, k, done, now)
      BY <2>3, <2>4, <3>3, <3>5, <3>6, CountProgress
    <3> QED BY <3>1, <3>2, <3>4, <3>7
  <2>6. transfers'[k] = y
    BY <1>8 DEF Replaced
  <2> QED BY <1>2, <1>3, <2>1, <2>5, <2>6 DEF Count
<1> DEFINE filesNow == [files EXCEPT ![p] = y.file]
           bytesNow == [bytes EXCEPT ![p] = y.bytes]
           countedNow == [counted EXCEPT ![p] = counted[p] + d]
<1>15. /\ filesNow \in [Page -> Numbers] /\ bytesNow \in [Page -> Nat]
       /\ countedNow \in [Page -> Nat]
       /\ filesNow[p] = y.file /\ bytesNow[p] = y.bytes /\ countedNow[p] = counted[p] + d
       /\ \A o \in Page \ {p} :
            filesNow[o] = files[o] /\ bytesNow[o] = bytes[o] /\ countedNow[o] = counted[o]
  BY <1>13
<1>16. Adds(counting', total', countedNow["sender"] + countedNow["receiver"])
  <2>1. countedNow["sender"] + countedNow["receiver"] = counted["sender"] + counted["receiver"] + d
    <3>1. "sender" \in Page /\ "receiver" \in Page /\ (p = "sender" \/ p = "receiver")
      BY DirectionKeys
    <3>2. counted["sender"] \in Nat /\ counted["receiver"] \in Nat
      BY <1>1, <3>1
    <3>3. CASE p = "sender"
      BY <1>15, <3>1, <3>2, <3>3
    <3>4. CASE p = "receiver"
      BY <1>15, <3>1, <3>2, <3>4
    <3> QED BY <3>1, <3>3, <3>4
  <2>2. PICK n : n = counted["sender"] + counted["receiver"]
    OBVIOUS
  <2>3. n \in Nat
    BY <1>1, <2>2, DirectionKeys
  <2>4. Adds(counting', total, n + d)
    <3>1. counting \in Seq(Nat \ {0})
      BY <1>2 DEF StatsTypes
    <3>2. CASE d > 0
      <4>1. Adds(Append(counting, d), total, n + d)
        BY <1>1, <2>2, <3>1, <3>2, AddsMore
      <4> QED BY <1>9, <3>2, <4>1
    <3>3. CASE ~(d > 0)
      <4>1. n + d = n
        BY <2>3, <3>3
      <4> QED BY <1>1, <1>9, <2>2, <3>3, <4>1
    <3> QED BY <3>2, <3>3
  <2> QED BY <1>2, <2>1, <2>2, <2>4
<1> HIDE DEF filesNow, bytesNow, countedNow
<1>17. ASSUME NEW o \in Page, o # p
       PROVE  /\ Ends(reports'[o], o \in open, o \in peers')
              /\ Count(reports'[o], files[o], bytes[o], counted[o], FileAt(o), BytesAt(o),
                       transfers'[Direction[o]], o \in peers', Direction[o], removed', retold')
  <2>1. Direction[o] \in Key /\ Direction[o] # k
    BY <1>5, <1>17, DirectionKeys
  <2>2. transfers'[Direction[o]] = transfers[Direction[o]]
    BY <1>8, <2>1 DEF Replaced
  <2>3. Count(reports[o], files[o], bytes[o], counted[o], FileAt(o), BytesAt(o),
              transfers[Direction[o]], o \in peers, Direction[o], removed, retold')
    <3>1. Count(reports[o], files[o], bytes[o], counted[o], FileAt(o), BytesAt(o),
                transfers[Direction[o]], o \in peers, Direction[o], removed, retold)
      BY <1>1 DEF CountOf
    <3> QED BY <1>11, <3>1 DEF Count
  <2>4. Ends(reports[o], o \in open, o \in peers)
    BY DEF CountInv
  <2> QED BY <1>2, <1>3, <1>17, <2>2, <2>3, <2>4
<1>18. ASSUME NEW o \in Page
       PROVE  /\ Ends(reports'[o], o \in open, o \in peers')
              /\ Count(reports'[o], filesNow[o], bytesNow[o], countedNow[o], FileAt(o), BytesAt(o),
                       transfers'[Direction[o]], o \in peers', Direction[o], removed', retold')
  <2>1. CASE o = p
    BY <1>5, <1>12, <1>14, <1>15, <2>1
  <2>2. CASE o # p
    BY <1>15, <1>17, <2>2
  <2> QED BY <2>1, <2>2
<1> QED BY <1>15, <1>16, <1>18, ServerStepCounts

LEMMA ServerCounts ==
  ASSUME TypeInv, CountInv, StatsStep
  PROVE  CountInv'
BY handleFileTransferProgressCounts, handleFileTransferBackpressureCounts, handleDisconnectCounts,
   timerFiresCounts, bucketWrittenCounts DEF StatsStep

LEMMA StartCounts == Init => CountInv
<1> SUFFICES ASSUME Init PROVE CountInv
  OBVIOUS
<1> DEFINE zero == [p \in Page |-> 0]
<1>1. zero \in [Page -> Numbers] /\ zero \in [Page -> Nat] /\ \A p \in Page : zero[p] = 0
  BY NumbersNat
<1>2. Adds(counting, total, zero["sender"] + zero["receiver"])
  <2>1. zero["sender"] + zero["receiver"] = 0 /\ counting = <<>> /\ total = 0
    BY <1>1, DirectionKeys DEF Init
  <2> QED BY <2>1, AddsNone
<1> HIDE DEF zero
<1>3. ASSUME NEW p \in Page PROVE Ends(reports[p], p \in open, p \in peers)
  <2>1. reports[p] = <<>> /\ p \in open /\ p \in peers
    BY DEF Init
  <2> QED BY <2>1 DEF Ends
<1>4. ASSUME NEW p \in Page PROVE CountOf(p, zero[p], zero[p], zero[p])
  <2>1. /\ reports[p] = <<>> /\ transfers[Direction[p]] = None /\ FileAt(p) = 0 /\ BytesAt(p) = 0
        /\ zero[p] = 0
    BY <1>1, DirectionKeys DEF Init, FileAt, BytesAt
  <2>2. Limit(0) = 0 /\ Before[0] = 0
    BY BeforeType DEF Limit
  <2>3. Forward(<<>>, 0, 0, 0, 0)
    BY DEF Forward, AtMost
  <2> QED BY <2>1, <2>2, <2>3 DEF CountOf, Count
<1> QED BY <1>1, <1>2, <1>3, <1>4 DEF CountInv

LEMMA StepCounts ==
  ASSUME TypeInv, TypeInv', CountInv, [Next]_<<pageVars, reports, statsVars>>
  PROVE  CountInv'
<1>1. CASE UNCHANGED <<pageVars, reports, statsVars>>
  <2>1. \A p \in Page : FileAt(p)' = FileAt(p) /\ BytesAt(p)' = BytesAt(p)
    BY <1>1 DEF FileAt, BytesAt, pageVars
  <2> QED BY <1>1, <2>1 DEF CountInv, CountOf, pageVars, statsVars
<1> QED BY <1>1, SenderCounts, ReceiverCounts, LeavingCounts, ServerCounts DEF Next


\* What lies before a place only grows with it.
LEMMA UpToGrows ==
  ASSUME NEW f \in Numbers, NEW b \in Nat, b <= Limit(f), NEW g \in Numbers, NEW n \in Nat,
         AtMost(f, b, g, n)
  PROVE  UpTo(f, b) \in Nat /\ UpTo(g, n) \in Nat /\ UpTo(f, b) <= UpTo(g, n)
<1> DEFINE u == Before[f]
           v == Before[g]
<1>1. u \in Nat /\ v \in Nat /\ f \in Nat /\ g \in Nat /\ Limit(f) \in Nat
  BY BeforeType, LimitType, NumbersNat DEF Numbers
<1>2. f < g => u + Limit(f) <= v
  BY BeforeGrows DEF Numbers, Limit
<1>3. f = g => u = v
  OBVIOUS
<1>4. UpTo(f, b) = u + b /\ UpTo(g, n) = v + n
  BY DEF UpTo
<1>5. (f < g) \/ (f = g /\ b <= n)
  BY DEF AtMost
<1> HIDE DEF u, v
<1>6. u + b <= v + n
  BY <1>1, <1>2, <1>3, <1>5
<1> QED BY <1>1, <1>4, <1>6

LEMMA CountedOfPage ==
  ASSUME TypeInv, ~retold, NEW p \in Page, NEW f \in Numbers, NEW b \in Nat, NEW c \in Nat,
         CountOf(p, f, b, c)
  PROVE  /\ Listed(Direction[p]) \in Nat /\ Listed(Direction[p]) <= c
         /\ c <= UpTo(f, b) /\ b <= Limit(f)
         /\ AtMost(f, b, FileAt(p), BytesAt(p))
<1>1. /\ b <= Limit(f) /\ c <= Before[f] + b
      /\ Forward(reports[p], f, b, FileAt(p), BytesAt(p))
      /\ transfers[Direction[p]] # None =>
           transfers[Direction[p]].bytes = b /\ b <= c
  BY DEF CountOf, Count
<1>2. Listed(Direction[p]) \in Nat /\ Listed(Direction[p]) <= c
  BY <1>1 DEF Listed
<1> QED BY <1>1, <1>2 DEF UpTo, Forward

\* The bytes the dashboard counts are at least those it lists and at most those the pages
\* have sent and received: throttled and repeated progress reports, entries removed three
\* seconds after a file is finished and additions still on their way to Redis count every
\* chunk at most once, unless a transfer is reported again after its entry has gone.
THEOREM BytesAreCounted == Spec => []BytesCounted
<1>1. Spec => [](TypeInv /\ CountInv)
  BY StartType, StepType, StartCounts, StepCounts, PTL DEF Spec
<1>2. TypeInv /\ CountInv => BytesCounted
  <2> SUFFICES ASSUME TypeInv, CountInv, counting = <<>>, ~retold
               PROVE  /\ Listed("send") + Listed("receive") <= total
                      /\ total <= UpTo(sending.file, sending.offset)
                                    + UpTo(receiving.file, receiving.total)
    BY DEF BytesCounted
  <2>1. PICK files \in [Page -> Numbers], bytes \in [Page -> Nat], counted \in [Page -> Nat] :
          /\ \A p \in Page : CountOf(p, files[p], bytes[p], counted[p])
          /\ Adds(counting, total, counted["sender"] + counted["receiver"])
    BY DEF CountInv
  <2>2. total = counted["sender"] + counted["receiver"]
    BY <2>1 DEF Adds
  <2>3. "sender" \in Page /\ "receiver" \in Page
    BY DirectionKeys
  <2>4. PICK c \in Nat, d \in Nat : c = counted["sender"] /\ d = counted["receiver"]
    BY <2>1, <2>3
  <2>5. /\ Listed("send") \in Nat /\ Listed("send") <= c
        /\ c <= UpTo(files["sender"], bytes["sender"])
        /\ bytes["sender"] <= Limit(files["sender"])
        /\ AtMost(files["sender"], bytes["sender"], FileAt("sender"), BytesAt("sender"))
    BY <2>1, <2>3, <2>4, CountedOfPage, DirectionKeys
  <2>6. /\ Listed("receive") \in Nat /\ Listed("receive") <= d
        /\ d <= UpTo(files["receiver"], bytes["receiver"])
        /\ bytes["receiver"] <= Limit(files["receiver"])
        /\ AtMost(files["receiver"], bytes["receiver"], FileAt("receiver"), BytesAt("receiver"))
    BY <2>1, <2>3, <2>4, CountedOfPage, DirectionKeys
  <2>7. /\ sending.file \in Numbers /\ sending.offset \in Nat
        /\ receiving.file \in Numbers /\ receiving.total \in Nat
        /\ sending \in Sending /\ SenderInv
    BY SendingFields, ReceivingFields DEF TypeInv, TypeOK, PlacesInv
  <2>8. AtMost(FileAt("sender"), BytesAt("sender"), sending.file, sending.offset)
    <3>1. CASE sending.last = None
      <4>1. FileAt("sender") = 0 /\ BytesAt("sender") = 0
        BY <3>1 DEF FileAt, BytesAt
      <4>2. sending.file \in Nat /\ sending.offset \in Nat
        BY <2>7, NumbersNat
      <4> QED BY <4>1, <4>2 DEF AtMost
    <3>2. CASE sending.last # None
      <4>1. /\ sending.last.file \in Nat /\ sending.file \in Nat
            /\ sending.last.file <= sending.file
            /\ sending.last.file = sending.file => sending.last.bytes <= sending.offset
        BY <2>7, <3>2, SendingFields, NumbersNat DEF SenderInv
      <4> QED BY <3>2, <4>1 DEF FileAt, BytesAt, AtMost
    <3> QED BY <3>1, <3>2
  <2>9. AtMost(files["sender"], bytes["sender"], sending.file, sending.offset)
    <3>1. FileAt("sender") \in Nat /\ BytesAt("sender") \in Nat
      BY <2>3, PlaceType
    <3>2. files["sender"] \in Nat /\ bytes["sender"] \in Nat /\ sending.file \in Nat
      BY <2>1, <2>3, <2>7, NumbersNat
    <3> QED BY <2>5, <2>7, <2>8, <3>1, <3>2, AtMostNext
  <2>10. AtMost(files["receiver"], bytes["receiver"], receiving.file, receiving.total)
    BY <2>6 DEF FileAt, BytesAt
  <2>11. /\ c <= UpTo(sending.file, sending.offset) /\ UpTo(sending.file, sending.offset) \in Nat
    <3>1. files["sender"] \in Numbers /\ bytes["sender"] \in Nat
      BY <2>1, <2>3
    <3>2. /\ UpTo(files["sender"], bytes["sender"]) <= UpTo(sending.file, sending.offset)
          /\ UpTo(files["sender"], bytes["sender"]) \in Nat
          /\ UpTo(sending.file, sending.offset) \in Nat
      BY <2>5, <2>7, <2>9, <3>1, UpToGrows
    <3> QED BY <2>4, <2>5, <3>2
  <2>12. /\ d <= UpTo(receiving.file, receiving.total)
         /\ UpTo(receiving.file, receiving.total) \in Nat
    <3>1. files["receiver"] \in Numbers /\ bytes["receiver"] \in Nat
      BY <2>1, <2>3
    <3>2. /\ UpTo(files["receiver"], bytes["receiver"]) <= UpTo(receiving.file, receiving.total)
          /\ UpTo(files["receiver"], bytes["receiver"]) \in Nat
          /\ UpTo(receiving.file, receiving.total) \in Nat
      BY <2>6, <2>7, <2>10, <3>1, UpToGrows
    <3> QED BY <2>4, <2>6, <3>2
  <2> QED BY <2>2, <2>4, <2>5, <2>6, <2>11, <2>12
<1> QED BY <1>1, <1>2, PTL
=============================================================================
