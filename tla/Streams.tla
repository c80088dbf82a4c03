------------------------------ MODULE Streams ------------------------------
(***************************************************************************)
(* The two event streams of the dashboard (src/src/apiv1.rs): logs_sse     *)
(* follows the log file an app writes, events_sse the event table of the   *)
(* registry.  Both remember how far they have come and poll; a log is      *)
(* followed by its length, events by their id.                             *)
(*                                                                         *)
(* A log is a sequence of pieces, numbered as they are written; a piece is *)
(* what one write appends, and nothing is said of lines.  nockd never      *)
(* truncates a log, but the follower handles a file that has shrunk, so    *)
(* somebody may (external).  A missing file is an empty one.               *)
(***************************************************************************)
EXTENDS Naturals, Sequences

CONSTANTS
    LogClients,     \* dashboards that follow the log
    EventClients,   \* dashboards that follow the events
    Window,         \* pieces in the tail a log follower starts with
    Batch,          \* events fetched per poll
    MaxPieces,      \* bound: pieces written
    MaxTruncations, \* bound: times the log is truncated
    MaxEvents       \* bound: events recorded

ASSUME WindowAssumption == Window \in Nat
ASSUME BatchAssumption == Batch \in Nat \ {0}
ASSUME MaxPiecesAssumption == MaxPieces \in Nat
ASSUME MaxTruncationsAssumption == MaxTruncations \in Nat
ASSUME MaxEventsAssumption == MaxEvents \in Nat

VARIABLES
    log,         \* the pieces in the log file
    written,     \* pieces written so far
    raw,         \* the pieces that are not valid UTF-8
    truncations, \* truncations so far
    reader,      \* the log followers: where they are and what they have shown
    events,      \* the greatest id in the event table
    watcher      \* the event followers

logVars == <<log, written, raw, truncations, reader>>
eventVars == <<events, watcher>>
streamVars == <<logVars, eventVars>>

LogReader == [pc     : {"len", "seed", "poll", "read"},
              offset : Nat,               \* the follower's own
              len    : Nat,               \* file length the poll has found
              shown  : SUBSET (1..MaxPieces),
              from   : 0..MaxPieces,      \* auxiliary: written at subscription
              regrown : BOOLEAN]          \* auxiliary: truncated, not noticed

Watcher == [pc    : {"new", "poll", "emit"},
            last  : 0..MaxEvents,         \* last_id
            batch : Seq(1..MaxEvents),    \* fetched, not yet sent
            sent  : Seq(1..MaxEvents),
            from  : 0..MaxEvents,         \* auxiliary: greatest id at the request
            blind : BOOLEAN]              \* auxiliary: that id could not be read

StreamTypeOK ==
    /\ log \in Seq(1..MaxPieces)
    /\ written \in 0..MaxPieces
    /\ raw \in SUBSET (1..MaxPieces)
    /\ truncations \in 0..MaxTruncations
    /\ reader \in [LogClients -> LogReader]
    /\ events \in 0..MaxEvents
    /\ watcher \in [EventClients -> Watcher]

StreamInit ==
    /\ log = <<>> /\ written = 0 /\ raw = {} /\ truncations = 0
    /\ reader = [c \in LogClients |-> [pc |-> "len", offset |-> 0, len |-> 0,
                                       shown |-> {}, from |-> 0, regrown |-> FALSE]]
    /\ events = 0
    /\ watcher = [c \in EventClients |-> [pc |-> "new", last |-> 0, batch |-> <<>>,
                                          sent |-> <<>>, from |-> 0, blind |-> FALSE]]

-----------------------------------------------------------------------------
(***************************************************************************)
(* The log.                                                                *)
(***************************************************************************)
Pieces(first, last) == {log[i] : i \in first..last}

\* Apps write through a descriptor opened for appending.
Append2Log(valid) ==
    /\ written < MaxPieces
    /\ written' = written + 1
    /\ log' = Append(log, written + 1)
    /\ raw' = IF valid THEN raw ELSE raw \cup {written + 1}
    /\ UNCHANGED <<truncations, reader, eventVars>>

Truncate ==
    /\ truncations < MaxTruncations
    /\ log # <<>>
    /\ truncations' = truncations + 1
    /\ log' = <<>>
    /\ reader' = [c \in LogClients |-> [reader[c] EXCEPT !.regrown = @ \/ reader[c].pc # "len"]]
    /\ UNCHANGED <<written, raw, eventVars>>

At(c, pc) == c \in LogClients /\ reader[c].pc = pc

Put(c, r) ==
    /\ reader' = [reader EXCEPT ![c] = r]
    /\ UNCHANGED <<log, written, raw, truncations, eventVars>>

\* A new request: file_len() before the tail is read.
FileLen(c) ==
    /\ At(c, "len")
    /\ Put(c, [reader[c] EXCEPT !.pc = "seed", !.offset = Len(log), !.from = written])

TailStart == IF Len(log) > Window THEN Len(log) - Window + 1 ELSE 1

\* read_tail() shows what is not UTF-8 too, lossily.
ReadTail(c) ==
    /\ At(c, "seed")
    /\ Put(c, [reader[c] EXCEPT !.pc = "poll", !.shown = @ \cup Pieces(TailStart, Len(log))])

\* Faulty variant: a file that has shrunk is not looked at from its beginning.
OpenLogShrunk(c) ==
    /\ At(c, "poll")
    /\ Put(c, [reader[c] EXCEPT
                  !.regrown = @ /\ Len(log) >= reader[c].offset,
                  !.len = Len(log),
                  !.pc = IF Len(log) > reader[c].offset THEN "read" ELSE "poll"])

\* A poll opens the file; a length below the offset means that it was rotated.
OpenLog(c) ==
    LET shrunk == Len(log) < reader[c].offset
        offset == IF shrunk THEN 0 ELSE reader[c].offset
    IN  /\ At(c, "poll")
        /\ Put(c, [reader[c] EXCEPT
                      !.regrown = @ /\ ~shrunk,
                      !.offset = offset, !.len = Len(log),
                      !.pc = IF Len(log) > offset THEN "read" ELSE "poll"])

\* Faulty variant: what was appended since the length was found is not shown.
ReadToLen(c) ==
    LET new == {log[i] : i \in {j \in 1..Len(log) :
                    reader[c].offset < j /\ j <= reader[c].len}}
    IN  /\ At(c, "read")
        /\ IF new \cap raw = {}
           THEN Put(c, [reader[c] EXCEPT !.pc = "poll", !.shown = @ \cup new,
                                         !.offset = Len(log)])
           ELSE Put(c, [reader[c] EXCEPT !.pc = "poll"])

\* read_to_string() reads to the end of the file, which may be past the length
\* found before, and fails on a piece that is not UTF-8; then the offset stays.
ReadOn(c) ==
    LET new == Pieces(reader[c].offset + 1, Len(log))
    IN  /\ At(c, "read")
        /\ IF new \cap raw = {}
           THEN Put(c, [reader[c] EXCEPT !.pc = "poll", !.shown = @ \cup new,
                                         !.offset = reader[c].len])
           ELSE Put(c, [reader[c] EXCEPT !.pc = "poll"])

LogStep(c) == FileLen(c) \/ ReadTail(c) \/ OpenLog(c) \/ ReadOn(c)

LogNext ==
    \/ \E valid \in BOOLEAN : Append2Log(valid)
    \/ Truncate
    \/ \E c \in LogClients : LogStep(c)

-----------------------------------------------------------------------------
(***************************************************************************)
(* The events.  Rows are only ever added, with increasing ids.             *)
(***************************************************************************)
AddEvent ==
    /\ events < MaxEvents
    /\ events' = events + 1
    /\ UNCHANGED <<logVars, watcher>>

PutWatcher(c, w) ==
    /\ watcher' = [watcher EXCEPT ![c] = w]
    /\ UNCHANGED <<logVars, events>>

\* The greatest id so far, or 0 when the registry cannot be read.
LastEvent(c, readable) ==
    /\ c \in EventClients /\ watcher[c].pc = "new"
    /\ PutWatcher(c, [watcher[c] EXCEPT !.pc = "poll",
                                         !.last = IF readable THEN events ELSE 0,
                                         !.from = events, !.blind = ~readable])

AtMost(n, k) == IF n < k THEN n ELSE k

\* Faulty variant: the event with the given id is fetched again.
EventsFrom(after) == [i \in 1..AtMost(events - after, Batch) |->
                         IF after = 0 THEN i ELSE after + i - 1]

\* events_since(): the oldest events with a greater id, at most a batch.
EventsSince(after) == [i \in 1..AtMost(events - after, Batch) |-> after + i]

PollEvents(c) ==
    /\ c \in EventClients /\ watcher[c].pc = "poll"
    /\ LET found == EventsSince(watcher[c].last)
       IN  PutWatcher(c, [watcher[c] EXCEPT !.batch = found,
                                            !.pc = IF found = <<>> THEN "poll" ELSE "emit"])

\* Faulty variant: the follower goes on after the newest event there is.
EmitAndJump(c) ==
    /\ c \in EventClients /\ watcher[c].pc = "emit"
    /\ LET w == watcher[c]
           rest == Tail(w.batch)
       IN  PutWatcher(c, [w EXCEPT !.last = events, !.batch = rest,
                                   !.sent = Append(@, Head(w.batch)),
                                   !.pc = IF rest = <<>> THEN "poll" ELSE "emit"])

\* One event of the batch goes to the client.
Emit(c) ==
    /\ c \in EventClients /\ watcher[c].pc = "emit"
    /\ LET w == watcher[c]
           rest == Tail(w.batch)
       IN  PutWatcher(c, [w EXCEPT !.last = Head(w.batch), !.batch = rest,
                                   !.sent = Append(@, Head(w.batch)),
                                   !.pc = IF rest = <<>> THEN "poll" ELSE "emit"])

EventStep(c) == PollEvents(c) \/ Emit(c) \/ \E readable \in BOOLEAN : LastEvent(c, readable)

EventNext == AddEvent \/ \E c \in EventClients : EventStep(c)

-----------------------------------------------------------------------------
StreamNext == LogNext \/ EventNext

StreamSpec == StreamInit /\ [][StreamNext]_streamVars

\* A connected follower polls for ever; nobody need write anything.
StreamFairness ==
    /\ \A c \in LogClients : WF_streamVars(LogStep(c))
    /\ \A c \in EventClients : WF_streamVars(EventStep(c))

FairStreamSpec == StreamSpec /\ StreamFairness

-----------------------------------------------------------------------------
\* A log follower may show a piece twice (it takes the length before it reads),
\* but below its offset it has skipped nothing that was written since the
\* request, unless the file was truncated and had grown past the offset again
\* before the next poll.
NothingSkipped ==
    \A c \in LogClients :
        LET r == reader[c]
        IN  r.pc \in {"poll", "read"} /\ ~r.regrown =>
                \A i \in 1..Len(log) :
                    i <= r.offset /\ log[i] > r.from => log[i] \in r.shown

\* Whenever the writers pause, every piece written since the request is shown,
\* if the file is not truncated and nothing that is not UTF-8 has been written
\* since: one such piece stops the follower for good.
PiecesArrive ==
    \A c \in LogClients :
        []<>(\/ reader[c].pc = "len"
             \/ truncations > 0
             \/ \E i \in raw : i > reader[c].from
             \/ (reader[c].from + 1)..written \subseteq reader[c].shown)

\* However recording and polling interleave and however many batches it takes,
\* what events_sse has sent has no gap and no repetition and leaves out no event
\* recorded since the request up to the id it has reached.  It has sent no older
\* event either ("so we only stream genuinely new events"), with one exception:
\* a registry error when the stream opens counts as an empty table, and such a
\* stream sends the whole history, contrary to that comment.
EventsInOrder ==
    \A c \in EventClients :
        LET w == watcher[c]
        IN  /\ \A i \in 1..(Len(w.sent) - 1) : w.sent[i + 1] = w.sent[i] + 1
            /\ \A n \in (w.from + 1)..w.last :
                  \E i \in 1..Len(w.sent) : w.sent[i] = n
            /\ ~w.blind => \A i \in 1..Len(w.sent) : w.sent[i] > w.from

\* Whenever the recorders pause, every event is sent, even if more than a batch of
\* them was recorded between two polls.
EventsArrive ==
    \A c \in EventClients :
        []<>(\/ watcher[c].pc = "new"
             \/ \A n \in (watcher[c].from + 1)..events :
                   \E i \in 1..Len(watcher[c].sent) : watcher[c].sent[i] = n)
=============================================================================
