---------------------------- MODULE StreamsProofs ----------------------------
(***************************************************************************)
(* Theorems about Streams for every number of clients, every window and    *)
(* batch and every length of the log and of the event table.               *)
(***************************************************************************)
EXTENDS Streams, SequenceTheorems, TLAPS

-----------------------------------------------------------------------------
\* What a follower has fetched and not yet sent continues what it has sent, and
\* ends at an event that is in the table.
BatchContinues(w) ==
    /\ w.last + Len(w.batch) <= events
    /\ \A i \in 1..Len(w.batch) : w.batch[i] = w.last + i
    /\ w.pc = "emit" <=> w.batch # <<>>

\* The id a follower has started after: 0 if it could not read the table.
Start(w) == IF w.blind THEN 0 ELSE w.from

SentContiguously(w) ==
    /\ w.last - Start(w) = Len(w.sent)
    /\ \A i \in 1..Len(w.sent) : w.sent[i] = Start(w) + i

WatcherInv(w) ==
    /\ w \in Watcher
    /\ w.pc = "new" => w.last = 0 /\ w.from = 0 /\ ~w.blind /\ w.sent = <<>>
    /\ BatchContinues(w)
    /\ SentContiguously(w)

EventInv ==
    /\ events \in 0..MaxEvents
    /\ watcher \in [EventClients -> Watcher]
    /\ \A c \in EventClients : WatcherInv(watcher[c])

\* What the invariant of a follower says of what it has sent.
LEMMA InOrderFromInv ==
    ASSUME NEW w, WatcherInv(w)
    PROVE  /\ \A i \in 1..(Len(w.sent) - 1) : w.sent[i + 1] = w.sent[i] + 1
           /\ \A n \in (w.from + 1)..w.last :
                 \E i \in 1..Len(w.sent) : w.sent[i] = n
           /\ ~w.blind => \A i \in 1..Len(w.sent) : w.sent[i] > w.from
<1>1. PICK k, s, last, from : k = Start(w) /\ s = w.sent /\ last = w.last /\ from = w.from
  OBVIOUS
<1>2. /\ k \in Nat /\ last \in Nat /\ from \in Nat /\ Len(s) \in Nat /\ k <= from
  BY <1>1, LenProperties, MaxEventsAssumption DEF WatcherInv, Watcher, Start
<1>3. last - k = Len(s) /\ \A i \in 1..Len(s) : s[i] = k + i
  BY <1>1 DEF WatcherInv, SentContiguously
<1>4. ASSUME NEW i \in 1..(Len(s) - 1)
      PROVE  s[i + 1] = s[i] + 1
  <2>1. i \in 1..Len(s) /\ i + 1 \in 1..Len(s)
    BY <1>2
  <2>2. s[i] = k + i /\ s[i + 1] = k + (i + 1)
    BY <1>3, <2>1
  <2>3. QED
    BY <1>2, <2>2
<1>5. ASSUME NEW n \in (from + 1)..last
      PROVE  \E i \in 1..Len(s) : s[i] = n
  <2>1. n - k \in 1..Len(s) /\ k + (n - k) = n
    BY <1>2, <1>3
  <2>2. QED
    BY <1>3, <2>1
<1>6. ASSUME ~w.blind, NEW i \in 1..Len(s)
      PROVE  s[i] > from
  <2>1. k = from
    BY <1>1, <1>6 DEF Start
  <2>2. QED
    BY <1>2, <1>3, <2>1
<1>7. QED
  BY <1>1, <1>4, <1>5, <1>6

LEMMA InitEventInv == StreamInit => EventInv
  BY MaxEventsAssumption
     DEF StreamInit, EventInv, WatcherInv, Watcher, BatchContinues, SentContiguously, Start

\* events_since() returns the ids that follow the one it is given.
LEMMA EventsSinceFollows ==
    ASSUME events \in 0..MaxEvents, NEW after \in 0..events
    PROVE  /\ EventsSince(after) \in Seq(1..MaxEvents)
           /\ after + Len(EventsSince(after)) <= events
           /\ \A i \in 1..Len(EventsSince(after)) : EventsSince(after)[i] = after + i
<1> DEFINE n == AtMost(events - after, Batch)
<1>1. n \in Nat /\ after + n <= events
  BY MaxEventsAssumption, BatchAssumption DEF AtMost
<1>2. EventsSince(after) = [i \in 1..n |-> after + i]
  BY DEF EventsSince
<1>3. \A i \in 1..n : after + i \in 1..MaxEvents
  BY <1>1, MaxEventsAssumption
<1> HIDE DEF n
<1>4. QED
  BY <1>1, <1>2, <1>3

\* Consecutive ids stay consecutive when the first one is taken away.
LEMMA FirstId ==
    ASSUME NEW n \in Nat, NEW s \in Seq(1..n), s # <<>>, NEW k \in Nat,
           \A i \in 1..Len(s) : s[i] = k + i
    PROVE  /\ Head(s) = k + 1 /\ Head(s) \in 1..n
           /\ Tail(s) \in Seq(1..n)
           /\ Len(Tail(s)) = Len(s) - 1
           /\ \A i \in 1..Len(Tail(s)) : Tail(s)[i] = k + 1 + i
<1>1. Len(s) \in Nat /\ Len(s) # 0
  BY LenProperties, EmptySeq
<1>2. Head(s) = s[1] /\ Head(s) \in 1..n
  BY HeadTailProperties
<1>3. /\ Tail(s) \in Seq(1..n)
      /\ Len(Tail(s)) = Len(s) - 1
      /\ \A i \in 1..Len(Tail(s)) : Tail(s)[i] = s[i + 1]
  BY HeadTailProperties
<1>4. \A i \in 1..(Len(s) - 1) : i + 1 \in 1..Len(s) /\ k + (i + 1) = k + 1 + i
  BY <1>1
<1>5. QED
  BY <1>1, <1>2, <1>3, <1>4

\* Sending the first event of the batch keeps a follower's invariant.
LEMMA EmitKeepsInv ==
    ASSUME events \in 0..MaxEvents, NEW w \in Watcher, WatcherInv(w), w.pc = "emit"
    PROVE  WatcherInv([w EXCEPT !.last = Head(w.batch), !.batch = Tail(w.batch),
                                !.sent = Append(w.sent, Head(w.batch)),
                                !.pc = IF Tail(w.batch) = <<>> THEN "poll" ELSE "emit"])
<1>0. PICK batch, sent, last, start :
          batch = w.batch /\ sent = w.sent /\ last = w.last /\ start = Start(w)
  OBVIOUS
<1>1. /\ batch # <<>> /\ batch \in Seq(1..MaxEvents) /\ sent \in Seq(1..MaxEvents)
      /\ last \in Nat /\ start \in Nat
  BY <1>0, MaxEventsAssumption DEF WatcherInv, BatchContinues, Watcher, Start
<1>2. /\ last + Len(batch) <= events
      /\ \A i \in 1..Len(batch) : batch[i] = last + i
      /\ last - start = Len(sent)
      /\ \A i \in 1..Len(sent) : sent[i] = start + i
  BY <1>0 DEF WatcherInv, BatchContinues, SentContiguously
<1>3. Len(sent) \in Nat /\ Len(batch) \in Nat
  BY <1>1, LenProperties
<1>4. PICK h, rest, all :
          h = Head(batch) /\ rest = Tail(batch) /\ all = Append(sent, h)
  OBVIOUS
<1>5. /\ h = last + 1 /\ h \in 1..MaxEvents
      /\ rest \in Seq(1..MaxEvents) /\ Len(rest) = Len(batch) - 1
      /\ \A i \in 1..Len(rest) : rest[i] = last + 1 + i
  BY <1>1, <1>2, <1>4, FirstId, MaxEventsAssumption
<1>6. h = start + Len(sent) + 1
  BY <1>1, <1>2, <1>3, <1>5
<1>7. all \in Seq(1..MaxEvents) /\ Len(all) = Len(sent) + 1
  BY <1>1, <1>4, <1>5, AppendProperties
<1>8. ASSUME NEW i \in 1..Len(all)
      PROVE  all[i] = start + i
  <2>1. i \in 1..Len(sent) \/ i = Len(sent) + 1
    BY <1>3, <1>7
  <2>2. CASE i \in 1..Len(sent)
    BY <1>1, <1>2, <1>4, <1>5, <2>2, AppendProperties
  <2>3. CASE i = Len(sent) + 1
    <3>1. all[Len(sent) + 1] = h
      BY <1>1, <1>4, <1>5, AppendProperties
    <3>2. QED
      BY <1>1, <1>3, <1>6, <2>3, <3>1
  <2>4. QED
    BY <2>1, <2>2, <2>3
<1> DEFINE label == IF rest = <<>> THEN "poll" ELSE "emit"
           new == [w EXCEPT !.last = h, !.batch = rest, !.sent = all, !.pc = label]
<1>9. label \in {"poll", "emit"}
  OBVIOUS
<1>10. /\ new.last = h /\ new.from = w.from /\ new.blind = w.blind
       /\ new.sent = all /\ new.batch = rest /\ new.pc = label
  BY <1>0 DEF Watcher
<1>11. new \in Watcher
  <2>1. h \in 0..MaxEvents
    BY <1>5, MaxEventsAssumption
  <2>2. rest \in Seq(1..MaxEvents) /\ all \in Seq(1..MaxEvents)
    BY <1>5, <1>7
  <2> HIDE DEF label
  <2>3. QED
    BY <1>9, <2>1, <2>2 DEF Watcher
<1> HIDE DEF new
<1>12. BatchContinues(new)
  <2>1. h + Len(rest) <= events
    BY <1>1, <1>2, <1>3, <1>5, MaxEventsAssumption
  <2>2. \A i \in 1..Len(rest) : rest[i] = h + i
    BY <1>5
  <2>3. QED
    BY <1>10, <2>1, <2>2 DEF BatchContinues
<1>13. SentContiguously(new)
  <2>1. h - start = Len(all)
    BY <1>1, <1>3, <1>6, <1>7
  <2>2. Start(new) = start
    BY <1>0, <1>10 DEF Start
  <2>3. QED
    BY <1>7, <1>8, <1>10, <2>1, <2>2 DEF SentContiguously
<1>14. WatcherInv(new)
  BY <1>10, <1>11, <1>12, <1>13 DEF WatcherInv
<1>15. new = [w EXCEPT !.last = Head(w.batch), !.batch = Tail(w.batch),
                       !.sent = Append(w.sent, Head(w.batch)),
                       !.pc = IF Tail(w.batch) = <<>> THEN "poll" ELSE "emit"]
  BY <1>0, <1>4 DEF new
<1>16. QED
  BY <1>14, <1>15, Zenon

LEMMA WatcherStep ==
    ASSUME EventInv, NEW c \in EventClients, NEW w, PutWatcher(c, w), WatcherInv(w)
    PROVE  EventInv'
<1>1. events' = events /\ watcher' = [watcher EXCEPT ![c] = w]
  BY DEF PutWatcher
<1>2. \A d \in EventClients : watcher'[d] = IF d = c THEN w ELSE watcher[d]
  BY <1>1 DEF EventInv
<1>3. \A d \in EventClients : WatcherInv(watcher[d])'
  BY <1>1, <1>2 DEF EventInv, WatcherInv, BatchContinues, SentContiguously, Start
<1>4. QED
  BY <1>1, <1>3 DEF EventInv, WatcherInv

LEMMA AddEventInv == EventInv /\ AddEvent => EventInv'
<1> SUFFICES ASSUME EventInv, AddEvent
             PROVE  EventInv'
  OBVIOUS
<1>1. events' \in 0..MaxEvents /\ events' >= events /\ watcher' = watcher
  BY MaxEventsAssumption DEF EventInv, AddEvent
<1>2. ASSUME NEW c \in EventClients
      PROVE  WatcherInv(watcher[c])'
  <2>1. WatcherInv(watcher[c])
    BY DEF EventInv
  <2>2. watcher[c].last + Len(watcher[c].batch) <= events'
    BY <1>1, <2>1, MaxEventsAssumption DEF WatcherInv, Watcher, BatchContinues, EventInv
  <2>3. QED
    BY <1>1, <2>1, <2>2 DEF WatcherInv, BatchContinues, SentContiguously, Start
<1>3. QED
  BY <1>1, <1>2 DEF EventInv

LEMMA FollowerInv ==
    ASSUME EventInv, NEW c \in EventClients, EventStep(c)
    PROVE  EventInv'
<1> DEFINE w == watcher[c]
<1>1. w \in Watcher /\ WatcherInv(w) /\ events \in 0..MaxEvents
  BY DEF EventInv
<1>2. ASSUME NEW readable \in BOOLEAN, LastEvent(c, readable)
      PROVE  EventInv'
  <2> DEFINE id == IF readable THEN events ELSE 0
             new == [w EXCEPT !.pc = "poll", !.last = id, !.from = events, !.blind = ~readable]
  <2>1. PutWatcher(c, new) /\ w.pc = "new"
    BY <1>2 DEF LastEvent
  <2>2. id \in 0..MaxEvents /\ id <= events
    BY <1>1, MaxEventsAssumption
  <2>3. w.sent = <<>> /\ w.batch = <<>>
    BY <1>1, <2>1 DEF WatcherInv, BatchContinues
  <2> HIDE DEF id
  <2>4. /\ new \in Watcher /\ new.pc = "poll" /\ new.last = id
        /\ new.from = events /\ new.blind = ~readable
        /\ new.sent = <<>> /\ new.batch = <<>>
    BY <1>1, <2>2, <2>3 DEF Watcher
  <2>5. Start(new) = id
    BY <2>4 DEF Start, id
  <2> HIDE DEF new
  <2>6. WatcherInv(new)
    BY <2>2, <2>4, <2>5, MaxEventsAssumption DEF WatcherInv, BatchContinues, SentContiguously
  <2>7. QED
    BY <2>1, <2>6, WatcherStep
<1>3. CASE PollEvents(c)
  <2> DEFINE found == EventsSince(w.last)
             new == [w EXCEPT !.batch = found, !.pc = IF found = <<>> THEN "poll" ELSE "emit"]
  <2>1. PutWatcher(c, new) /\ w.pc = "poll"
    BY <1>3 DEF PollEvents
  <2>2. w.last \in 0..events
    BY <1>1, MaxEventsAssumption DEF WatcherInv, BatchContinues, Watcher
  <2>3. /\ found \in Seq(1..MaxEvents)
        /\ w.last + Len(found) <= events
        /\ \A i \in 1..Len(found) : found[i] = w.last + i
    BY <1>1, <2>2, EventsSinceFollows
  <2> HIDE DEF found
  <2>4. /\ new \in Watcher /\ new.last = w.last /\ new.from = w.from /\ new.blind = w.blind
        /\ new.sent = w.sent /\ new.batch = found
        /\ new.pc = IF found = <<>> THEN "poll" ELSE "emit"
    BY <1>1, <2>3 DEF Watcher
  <2> HIDE DEF new
  <2>5. WatcherInv(new)
    BY <1>1, <2>3, <2>4 DEF WatcherInv, BatchContinues, SentContiguously, Start
  <2>6. QED
    BY <2>1, <2>5, WatcherStep
<1>4. CASE Emit(c)
  <2> DEFINE label == IF Tail(w.batch) = <<>> THEN "poll" ELSE "emit"
             new == [w EXCEPT !.last = Head(w.batch), !.batch = Tail(w.batch),
                              !.sent = Append(w.sent, Head(w.batch)), !.pc = label]
  <2>1. PutWatcher(c, new) /\ w.pc = "emit"
    BY <1>4 DEF Emit
  <2>2. WatcherInv(new)
    BY <1>1, <2>1, EmitKeepsInv
  <2>3. QED
    BY <2>1, <2>2, WatcherStep
<1>5. QED
  BY <1>2, <1>3, <1>4 DEF EventStep

\* Whoever polls and whatever is recorded between two polls, what a client of
\* events_sse gets is consecutive and complete from its request on, and holds no
\* older event unless the registry could not be read when the stream opened.
THEOREM EventsStreamInOrder == StreamSpec => []EventsInOrder
<1>1. EventInv => EventsInOrder
  BY InOrderFromInv DEF EventInv, EventsInOrder
<1>2. EventInv /\ [StreamNext]_streamVars => EventInv'
  <2> SUFFICES ASSUME EventInv, [StreamNext]_streamVars
               PROVE  EventInv'
    OBVIOUS
  <2>1. CASE UNCHANGED eventVars
    BY <2>1 DEF EventInv, eventVars, WatcherInv, BatchContinues, SentContiguously, Start
  <2>2. CASE LogNext
    <3>1. UNCHANGED eventVars
      BY <2>2 DEF LogNext, Append2Log, Truncate, LogStep, FileLen, ReadTail, OpenLog,
                  ReadOn, Put
    <3>2. QED
      BY <2>1, <3>1
  <2>3. CASE EventNext
    BY <2>3, AddEventInv, FollowerInv DEF EventNext
  <2>4. QED
    BY <2>1, <2>2, <2>3 DEF StreamNext, streamVars
<1>3. QED
  BY <1>1, <1>2, InitEventInv, PTL DEF StreamSpec

-----------------------------------------------------------------------------
(***************************************************************************)
(* The log.  The file holds the latest pieces, without a gap, and what a   *)
(* follower's offset means depends on whether the file was truncated since *)
(* the follower last saw its length.                                       *)
(***************************************************************************)
LogTypes ==
    /\ log \in Seq(1..MaxPieces)
    /\ written \in 0..MaxPieces
    /\ reader \in [LogClients -> LogReader]

LatestPieces ==
    /\ Len(log) <= written
    /\ \A i \in 1..Len(log) : log[i] = written - Len(log) + i

\* Below its offset a follower has skipped nothing that came after its request.
Caught(r) == \A i \in 1..Len(log) : i <= r.offset /\ log[i] > r.from => log[i] \in r.shown

ReaderInv(r) ==
    ~r.regrown =>
        /\ r.pc # "len" => r.offset <= Len(log)
        /\ r.pc = "read" => r.len <= Len(log)
        /\ r.pc = "seed" => \A i \in 1..Len(log) : i <= r.offset => log[i] <= r.from
        /\ r.pc \in {"poll", "read"} => Caught(r)

LogInv ==
    /\ LogTypes
    /\ LatestPieces
    /\ \A c \in LogClients : ReaderInv(reader[c])

LEMMA InitLogInv == StreamInit => LogInv
  BY MaxPiecesAssumption
     DEF StreamInit, LogInv, LogTypes, LatestPieces, ReaderInv, Caught, LogReader

LEMMA WriteLogInv ==
    ASSUME LogInv, NEW valid \in BOOLEAN, Append2Log(valid)
    PROVE  LogInv'
<1>1. /\ log \in Seq(1..MaxPieces) /\ written \in 0..MaxPieces /\ Len(log) \in Nat
      /\ Len(log) <= written /\ written + 1 \in 1..MaxPieces
  BY LenProperties, MaxPiecesAssumption DEF LogInv, LogTypes, LatestPieces, Append2Log
<1>2. log' = Append(log, written + 1) /\ written' = written + 1 /\ reader' = reader
  BY DEF Append2Log
<1>3. /\ log' \in Seq(1..MaxPieces) /\ Len(log') = Len(log) + 1
      /\ \A i \in 1..Len(log) : log'[i] = log[i]
      /\ log'[Len(log) + 1] = written + 1
  BY <1>1, <1>2, AppendProperties
<1>4. LogTypes'
  BY <1>1, <1>2, <1>3, MaxPiecesAssumption DEF LogInv, LogTypes
<1>5. LatestPieces'
  <2>1. ASSUME NEW i \in 1..Len(log')
        PROVE  log'[i] = written' - Len(log') + i
    <3>1. i \in 1..Len(log) \/ i = Len(log) + 1
      BY <1>1, <1>3
    <3>2. QED
      BY <1>1, <1>2, <1>3, <3>1 DEF LogInv, LatestPieces
  <2>2. QED
    BY <1>1, <1>2, <1>3, <2>1 DEF LatestPieces
<1>6. ASSUME NEW c \in LogClients
      PROVE  ReaderInv(reader[c])'
  <2>1. reader[c] \in LogReader /\ ReaderInv(reader[c])
    BY DEF LogInv, LogTypes
  <2>2. reader[c].offset \in Nat /\ reader[c].len \in Nat
    BY <2>1 DEF LogReader
  <2>3. \A i \in 1..Len(log') : i <= Len(log) => i \in 1..Len(log) /\ log'[i] = log[i]
    BY <1>1, <1>3
  <2>4. QED
    BY <1>1, <1>2, <1>3, <2>1, <2>2, <2>3 DEF ReaderInv, Caught
<1>7. QED
  BY <1>4, <1>5, <1>6 DEF LogInv

LEMMA TruncateInv == LogInv /\ Truncate => LogInv'
<1> SUFFICES ASSUME LogInv, Truncate
             PROVE  LogInv'
  OBVIOUS
<1>1. log' = <<>> /\ Len(log') = 0 /\ written' = written
  BY DEF Truncate
<1>2. reader' = [c \in LogClients |-> [reader[c] EXCEPT !.regrown = @ \/ reader[c].pc # "len"]]
  BY DEF Truncate
<1>3. ASSUME NEW c \in LogClients
      PROVE  reader'[c] \in LogReader /\ (reader'[c].regrown \/ reader'[c].pc = "len")
  BY <1>2 DEF LogInv, LogTypes, LogReader
<1>4. LogTypes' /\ LatestPieces'
  <2>1. reader' \in [LogClients -> LogReader]
    BY <1>2, <1>3
  <2>2. log' \in Seq(1..MaxPieces) /\ written' \in 0..MaxPieces
    BY <1>1 DEF LogInv, LogTypes
  <2>3. Len(log') <= written' /\ 1..Len(log') = {}
    BY <1>1, <2>2, MaxPiecesAssumption
  <2>4. QED
    BY <2>1, <2>2, <2>3 DEF LogTypes, LatestPieces
<1>5. \A c \in LogClients : ReaderInv(reader[c])'
  BY <1>1, <1>3 DEF ReaderInv, Caught
<1>6. QED
  BY <1>4, <1>5 DEF LogInv

LEMMA ReaderStep ==
    ASSUME LogInv, NEW c \in LogClients, NEW r \in LogReader, Put(c, r), ReaderInv(r)
    PROVE  LogInv'
<1>1. log' = log /\ written' = written /\ reader' = [reader EXCEPT ![c] = r]
  BY DEF Put
<1>2. \A d \in LogClients : reader'[d] = IF d = c THEN r ELSE reader[d]
  BY <1>1 DEF LogInv, LogTypes
<1>3. \A d \in LogClients : ReaderInv(reader[d])'
  BY <1>1, <1>2 DEF LogInv, ReaderInv, Caught
<1>4. LogTypes' /\ LatestPieces'
  BY <1>1 DEF LogInv, LogTypes, LatestPieces
<1>5. QED
  BY <1>3, <1>4 DEF LogInv

LEMMA LogFollowerInv ==
    ASSUME LogInv, NEW c \in LogClients, LogStep(c)
    PROVE  LogInv'
<1>0. PICK r : r = reader[c]
  OBVIOUS
<1>1. /\ r \in LogReader /\ ReaderInv(r)
      /\ r.offset \in Nat /\ r.len \in Nat /\ r.from \in 0..MaxPieces
      /\ r.shown \in SUBSET (1..MaxPieces)
      /\ r = [pc |-> r.pc, offset |-> r.offset, len |-> r.len, shown |-> r.shown,
              from |-> r.from, regrown |-> r.regrown]
  <2>1. r \in LogReader /\ ReaderInv(r)
    BY <1>0 DEF LogInv, LogTypes
  <2>2. QED
    BY <2>1 DEF LogReader
<1>2. /\ log \in Seq(1..MaxPieces) /\ Len(log) \in Nat
      /\ written \in 0..MaxPieces /\ Len(log) <= written
      /\ \A i \in 1..Len(log) : log[i] \in 1..MaxPieces /\ log[i] = written - Len(log) + i
  BY LenProperties DEF LogInv, LogTypes, LatestPieces
<1>3. CASE FileLen(c)
  <2> DEFINE new == [r EXCEPT !.pc = "seed", !.offset = Len(log), !.from = written]
  <2>1. Put(c, new)
    BY <1>0, <1>3 DEF FileLen
  <2>2. /\ new \in LogReader
        /\ new.pc = "seed" /\ new.offset = Len(log) /\ new.from = written
    BY <1>1, <1>2 DEF LogReader
  <2> HIDE DEF new
  <2>3. ReaderInv(new)
    BY <1>2, <2>2, MaxPiecesAssumption DEF ReaderInv
  <2>4. QED
    BY <2>1, <2>2, <2>3, ReaderStep
<1>4. CASE ReadTail(c)
  <2> DEFINE new == [r EXCEPT !.pc = "poll", !.shown = @ \cup Pieces(TailStart, Len(log))]
  <2>1. Put(c, new) /\ r.pc = "seed"
    BY <1>0, <1>4 DEF ReadTail, At
  <2>2. Pieces(TailStart, Len(log)) \in SUBSET (1..MaxPieces)
    BY <1>2, WindowAssumption DEF Pieces, TailStart
  <2>3. /\ new \in LogReader
        /\ new.pc = "poll" /\ new.offset = r.offset /\ new.from = r.from
        /\ new.regrown = r.regrown
    BY <1>1, <2>2 DEF LogReader
  <2> HIDE DEF new
  <2>4. ReaderInv(new)
    BY <1>1, <1>2, <2>1, <2>3 DEF ReaderInv, Caught
  <2>5. QED
    BY <2>1, <2>3, <2>4, ReaderStep
<1>5. CASE OpenLog(c)
  <2> DEFINE shrunk == Len(log) < r.offset
             offset == IF shrunk THEN 0 ELSE r.offset
             label == IF Len(log) > offset THEN "read" ELSE "poll"
             new == [r EXCEPT !.regrown = @ /\ ~shrunk, !.offset = offset,
                              !.len = Len(log), !.pc = label]
  <2>1. Put(c, new) /\ r.pc = "poll"
    BY <1>0, <1>5 DEF OpenLog, At
  <2>2. offset \in Nat /\ label \in {"poll", "read"}
    BY <1>1
  <2>3. /\ new \in LogReader
        /\ new.pc = label /\ new.offset = offset /\ new.len = Len(log)
        /\ new.from = r.from /\ new.shown = r.shown
        /\ new.regrown <=> r.regrown /\ ~shrunk
    BY <1>1, <1>2, <2>2 DEF LogReader
  <2> HIDE DEF new, label
  <2>4. ReaderInv(new)
    <3>1. CASE shrunk
      BY <1>1, <1>2, <2>2, <2>3, <3>1 DEF ReaderInv, Caught
    <3>2. CASE ~shrunk
      BY <1>1, <1>2, <2>1, <2>2, <2>3, <3>2 DEF ReaderInv, Caught
    <3>3. QED
      BY <3>1, <3>2
  <2>5. QED
    BY <2>1, <2>3, <2>4, ReaderStep
<1>6. CASE ReadOn(c)
  <2> DEFINE found == Pieces(r.offset + 1, Len(log))
             read == [r EXCEPT !.pc = "poll", !.shown = @ \cup found, !.offset = r.len]
             failed == [r EXCEPT !.pc = "poll"]
  <2>1. (Put(c, read) \/ Put(c, failed)) /\ r.pc = "read"
    BY <1>0, <1>6 DEF ReadOn, At
  <2>2. CASE Put(c, read)
    <3>1. found \in SUBSET (1..MaxPieces)
      BY <1>1, <1>2 DEF Pieces
    <3>2. /\ read \in LogReader
          /\ read.pc = "poll" /\ read.offset = r.len /\ read.from = r.from
          /\ read.shown = r.shown \cup found /\ read.regrown = r.regrown
      BY <1>1, <3>1 DEF LogReader
    <3>3. \A i \in 1..Len(log) : i <= r.offset \/ log[i] \in found
      BY <1>1, <1>2 DEF Pieces
    <3> HIDE DEF read, found
    <3>4. ReaderInv(read)
      BY <1>1, <1>2, <2>1, <3>2, <3>3 DEF ReaderInv, Caught
    <3>5. QED
      BY <2>2, <3>2, <3>4, ReaderStep
  <2>3. CASE Put(c, failed)
    <3>1. /\ failed \in LogReader
          /\ failed.pc = "poll" /\ failed.offset = r.offset /\ failed.from = r.from
          /\ failed.shown = r.shown /\ failed.regrown = r.regrown
      BY <1>1 DEF LogReader
    <3> HIDE DEF failed
    <3>2. ReaderInv(failed)
      BY <1>1, <2>1, <3>1 DEF ReaderInv, Caught
    <3>3. QED
      BY <2>3, <3>1, <3>2, ReaderStep
  <2>4. QED
    BY <2>1, <2>2, <2>3
<1>7. QED
  BY <1>3, <1>4, <1>5, <1>6 DEF LogStep

\* A log follower skips nothing that was written after its request, although it
\* takes the length of the file before it reads, twice, and although the file
\* may be truncated at any time: only a file that has been truncated and has
\* grown again beyond the old offset before the next poll is misread.
THEOREM LogsSkipNothing == StreamSpec => []NothingSkipped
<1>1. LogInv => NothingSkipped
  BY DEF LogInv, NothingSkipped, ReaderInv, Caught
<1>2. LogInv /\ [StreamNext]_streamVars => LogInv'
  <2> SUFFICES ASSUME LogInv, [StreamNext]_streamVars
               PROVE  LogInv'
    OBVIOUS
  <2>1. CASE UNCHANGED logVars
    BY <2>1 DEF LogInv, logVars, LogTypes, LatestPieces, ReaderInv, Caught
  <2>2. CASE EventNext
    <3>1. UNCHANGED logVars
      BY <2>2 DEF EventNext, AddEvent, EventStep, PollEvents, Emit, LastEvent, PutWatcher
    <3>2. QED
      BY <2>1, <3>1
  <2>3. CASE LogNext
    BY <2>3, WriteLogInv, TruncateInv, LogFollowerInv DEF LogNext
  <2>4. QED
    BY <2>1, <2>2, <2>3 DEF StreamNext, streamVars
<1>3. QED
  BY <1>1, <1>2, InitLogInv, PTL DEF StreamSpec
=============================================================================
