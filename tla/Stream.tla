------------------------------- MODULE Stream -------------------------------
(***************************************************************************)
(* One streamed turn of a Codex session, from the provider's process to    *)
(* the decision on what it said (Runner.run, streamObserver,               *)
(* deliverSessionResult).  Three things run at once:                       *)
(*                                                                         *)
(*   - the provider writes lines to a pty and exits, perhaps leaving a     *)
(*     child behind that keeps the pty open;                               *)
(*   - a reader goroutine takes the lines one at a time, keeps them for    *)
(*     the result and shows each event to the session (deliverStreamLine), *)
(*     which takes as long as Telegram does;                               *)
(*   - the handler waits for the process, gives the reader 100 ms, closes  *)
(*     the pty, waits for the reader, and goes over the kept output again. *)
(*                                                                         *)
(* The reader and the handler use one session value and take no lock.      *)
(* The deduper that keeps the second pass from showing an event twice      *)
(* knows an event by its delivery key (its item id, or the time at which   *)
(* its line was parsed) and, for the types that matter, by its text within *)
(* a run.                                                                  *)
(*                                                                         *)
(* Left out: lines that are no event, except those too long for            *)
(* bufio.Scanner; a line that the close of the pty cuts in two, which is   *)
(* no event either; the snapshot and the answer of support, which are      *)
(* SessionSupport's; the records of the turn, SessionLifecycle's.          *)
(***************************************************************************)
EXTENDS SessionSnapshot

CONSTANTS
  Ids,        \* item ids
  NoId,       \* the line has none (Codex's "message" lines)
  Lines,      \* the lines that are events: records [text, id]
  LongLine,   \* a line of 64 KB and more, which bufio.Scanner gives up on
  MaxLines    \* bound: lines the provider writes

ASSUME LinesAreRecords == Lines \subseteq [text : Texts, id : Ids \cup {NoId}]
ASSUME LongLineIsNoEvent == LongLine \notin Lines
ASSUME MaxLinesIsNatural == MaxLines \in Nat

VARIABLES
  how,        \* handler: the turn is a "start" or a "resume"
  written,    \* pty: the lines the provider has written
  proc,       \* provider: "running" or "exited"
  accepted,   \* provider: exit code 0 and a readable last-message file
  closed,     \* handler: the pty master is closed
  fetched,    \* reader: lines read from the pty (bufio buffers 4096 bytes)
  taken,      \* reader: lines of them kept for the result and passed to OnLine
  reader,     \* reader: "reading", "showing" a line or "done"
  streamErr,  \* observer: an error of OnLine
  seen,       \* deduper: the keys seen
  turn,       \* handler: where it is
  pos,        \* handler: how far the second pass has come
  outcome,    \* handler: how the turn ended
  shown,      \* history: what was shown, in order; at = 0 is the message file
  late        \* history: the reader was not done within the 100 ms

provider == <<written, proc>>
reading == <<fetched, taken, reader, streamErr>>
handling == <<turn, pos, outcome>>
streamVars == <<how, provider, accepted, closed, reading, seen, handling, shown, late>>

StreamInit ==
  /\ how \in {"start", "resume"}
  /\ written = <<>> /\ proc = "running" /\ accepted = FALSE
  /\ closed = FALSE /\ fetched = 0 /\ taken = 0 /\ reader = "reading" /\ streamErr = FALSE
  /\ seen = {} /\ turn = "waiting" /\ pos = 0 /\ outcome = "none"
  /\ shown = <<>> /\ late = FALSE

-----------------------------------------------------------------------------
(* Events and their keys.                                                  *)

IsEvent(p) == written[p] # LongLine
KindAt(p) == Kind[written[p].text]

SemanticTypes == ActionableTypes \cup {"blocker_resolved", "done", "failed"}

(* The run the events of a pass carry: a resume makes one run for the      *)
(* stream and another for the result.                                      *)
RunOf(pass) == IF pass = "result" /\ how = "resume" THEN "resumed" ELSE "streamed"

(* The keys of an event.  The delivery key of a line without id is made of *)
(* the time of its parse, which does not repeat, and is left out.          *)
Keys(p, pass) ==
  IF ~IsEvent(p) THEN {}
  ELSE {<<"delivery", KindAt(p), id>> : id \in {written[p].id} \ {NoId}}
       \cup {<<"semantic", kind, RunOf(pass), written[p].text>> :
               kind \in {KindAt(p)} \cap SemanticTypes}

(* Deduper.MarkIfNew.                                                      *)
IsNew(p, pass) == Keys(p, pass) \cap seen = {}
Mark(p, pass) == seen' = seen \cup Keys(p, pass)

Show(p, text) == shown' = Append(shown, [at |-> p, text |-> text])

-----------------------------------------------------------------------------
(* The provider.                                                           *)

(* An item is completed once: its id does not come back.                   *)
Fresh(l) == \A p \in DOMAIN written : IsEvent(p) /\ l.id # NoId => written[p].id # l.id

Writes(l) ==
  /\ proc = "running" /\ Len(written) < MaxLines
  /\ l # LongLine => Fresh(l)
  /\ written' = Append(written, l)
  /\ UNCHANGED <<how, proc, accepted, closed, reading, seen, handling, shown, late>>

Exits ==
  /\ proc = "running" /\ proc' = "exited"
  /\ UNCHANGED <<how, written, accepted, closed, reading, seen, handling, shown, late>>

-----------------------------------------------------------------------------
(* The reader.                                                             *)

(* The buffer holds no whole line and the pty has some.                    *)
Fetch ==
  /\ reader = "reading" /\ taken = fetched /\ ~closed
  /\ fetched' \in fetched + 1 .. Len(written)
  /\ UNCHANGED <<how, provider, accepted, closed, taken, reader, streamErr, seen, handling, shown, late>>

Take == reader = "reading" /\ taken < fetched /\ taken' = taken + 1

(* A line that is no event, or one that the deduper knows.                 *)
PassOver ==
  /\ Take
  /\ ~IsEvent(taken') \/ ~IsNew(taken', "stream")
  /\ UNCHANGED <<how, provider, accepted, closed, fetched, reader, streamErr, seen, handling, shown, late>>

(* The event is projected and sent; the reader is busy with it until       *)
(* LineShown.                                                              *)
ShowLine ==
  /\ Take
  /\ IsEvent(taken') /\ IsNew(taken', "stream") /\ Mark(taken', "stream")
  /\ Show(taken', written[taken'].text)
  /\ reader' = "showing"
  /\ UNCHANGED <<how, provider, accepted, closed, fetched, streamErr, handling, late>>

(* OnLine returns.  Its error is kept; the next line is shown all the same.*)
LineShown(ok) ==
  /\ reader = "showing" /\ reader' = "reading"
  /\ streamErr' = (streamErr \/ ~ok)
  /\ UNCHANGED <<how, provider, accepted, closed, fetched, taken, seen, handling, shown, late>>

(* Mutant: the pty is taken as drained as soon as the process is gone.     *)
EndsWithProcess ==
  /\ reader = "reading" /\ taken = fetched
  /\ closed \/ proc = "exited"
  /\ reader' = "done"
  /\ UNCHANGED <<how, provider, accepted, closed, fetched, taken, streamErr, seen, handling, shown, late>>

(* The read of the pty fails: the master is closed, or nobody has the      *)
(* slave open and all of it was read (EIO).  A child that outlives the     *)
(* process may have the slave open for as long as it likes.                *)
EndOfOutput ==
  /\ reader = "reading" /\ taken = fetched
  /\ closed \/ (proc = "exited" /\ fetched = Len(written))
  /\ reader' = "done"
  /\ UNCHANGED <<how, provider, accepted, closed, fetched, taken, streamErr, seen, handling, shown, late>>

-----------------------------------------------------------------------------
(* The handler in Runner.run.                                              *)

WaitReturns ==
  /\ turn = "waiting" /\ proc = "exited"
  /\ turn' = "grace"
  /\ UNCHANGED <<how, provider, accepted, closed, reading, seen, pos, outcome, shown, late>>

(* copyErrCh delivers, within the 100 ms or after the close.               *)
Joined ==
  /\ turn \in {"grace", "closing"} /\ reader = "done"
  /\ turn' = "joined" /\ closed' = TRUE
  /\ UNCHANGED <<how, provider, accepted, reading, seen, pos, outcome, shown, late>>

(* Mutant: the handler goes on without waiting for the reader.             *)
GraceEndsTurn ==
  /\ turn = "grace"
  /\ turn' = "joined" /\ closed' = TRUE /\ late' = (reader # "done")
  /\ UNCHANGED <<how, provider, accepted, reading, seen, pos, outcome, shown>>

(* Mutant: the handler waits for the reader but leaves the pty open.       *)
GraceLeavesOpen ==
  /\ turn = "grace"
  /\ turn' = "closing" /\ late' = (reader # "done")
  /\ UNCHANGED <<how, provider, accepted, closed, reading, seen, pos, outcome, shown>>

GraceExpires ==
  /\ turn = "grace"
  /\ turn' = "closing" /\ closed' = TRUE /\ late' = (reader # "done")
  /\ UNCHANGED <<how, provider, accepted, reading, seen, pos, outcome, shown>>

-----------------------------------------------------------------------------
(* The handler in deliverSessionResult.                                    *)

Ends(result) == turn' = "over" /\ outcome' = result

(* A start needs the thread id, which the first line of the output has; it *)
(* is missing if the pty was closed before that line was read.             *)
MayLackThread == how = "start" /\ late /\ taken = 0

TurnFails ==
  /\ turn = "joined" /\ accepted' \in BOOLEAN
  /\ ~accepted' \/ streamErr \/ MayLackThread
  /\ Ends("failed")
  /\ UNCHANGED <<how, provider, closed, reading, seen, pos, shown, late>>

(* The run, and after a resume the record, is saved before the delivery; a *)
(* save that fails ends the turn.                                          *)
TurnAccepted(ok) ==
  /\ turn = "joined" /\ accepted' = TRUE /\ ~streamErr
  /\ IF ok THEN turn' = "delivering" /\ UNCHANGED outcome ELSE Ends("broken")
  /\ UNCHANGED <<how, provider, closed, reading, seen, pos, shown, late>>

(* The scan of the whole output ends at the first line that is too long.   *)
Scanned == {p \in 1 .. taken : \A q \in 1 .. p : IsEvent(q)}

(* normalizedCodexTranscriptEvents, with a deduper of its own.             *)
Normalized ==
  {p \in Scanned : \A q \in Scanned : q < p => Keys(q, "result") \cap Keys(p, "result") = {}}

Unvisited == {p \in Normalized : pos < p}
IsNext(p) == p \in Unvisited /\ \A q \in Unvisited : p <= q

SkipResult(p) ==
  /\ turn = "delivering" /\ IsNext(p)
  /\ ~IsNew(p, "result")
  /\ pos' = p
  /\ UNCHANGED <<how, provider, accepted, closed, reading, seen, turn, outcome, shown, late>>

(* Mutant: an event of the result is not looked up in the deduper.         *)
ShowResultAgain(p) ==
  /\ turn = "delivering" /\ IsNext(p)
  /\ Mark(p, "result")
  /\ Show(p, written[p].text)
  /\ turn' = "showing" /\ pos' = p
  /\ UNCHANGED <<how, provider, accepted, closed, reading, outcome, late>>

ShowResult(p) ==
  /\ turn = "delivering" /\ IsNext(p)
  /\ IsNew(p, "result") /\ Mark(p, "result")
  /\ Show(p, written[p].text)
  /\ turn' = "showing" /\ pos' = p
  /\ UNCHANGED <<how, provider, accepted, closed, reading, outcome, late>>

ResultShown(ok) ==
  /\ turn = "showing"
  /\ IF ok THEN turn' = "delivering" /\ UNCHANGED outcome ELSE Ends("broken")
  /\ UNCHANGED <<how, provider, accepted, closed, reading, seen, pos, shown, late>>

(* Mutant: it is looked for among the events that are not shown yet.       *)
ActionableUnshown ==
  {p \in Normalized : /\ KindAt(p) \in ActionableTypes
                      /\ \A i \in 1 .. Len(shown) : shown[i].at # p}

(* firstActionableEvent finds one of these.                                *)
Actionable == {p \in Normalized : KindAt(p) \in ActionableTypes}

(* The message file holds the last thing the agent said, which may be      *)
(* none of the texts that ClassifyText knows.                              *)
Messages == {p \in DOMAIN written : IsEvent(p) /\ KindAt(p) \in MessageTypes}
LastMessage == {written[p].text : p \in {q \in Messages : \A r \in Messages : r <= q}}

(* A message that is an event speaks for an output that has none:          *)
(* maybeAutoReply projects it past the deduper before it acts.             *)
Decide ==
  /\ turn = "delivering" /\ Unvisited = {}
  /\ IF Normalized # {}
       THEN Ends(IF Actionable # {} THEN "acted" ELSE "quiet") /\ UNCHANGED shown
       ELSE \/ Ends("quiet") /\ UNCHANGED shown
            \/ \E m \in LastMessage :
                 /\ Ends(IF Kind[m] \in ActionableTypes THEN "acted" ELSE "quiet")
                 /\ Show(0, m)
  /\ UNCHANGED <<how, provider, accepted, closed, reading, seen, pos, late>>

-----------------------------------------------------------------------------
ProviderNext ==
  \/ \E l \in Lines \cup {LongLine} : Writes(l)
  \/ Exits

ReaderNext == Fetch \/ PassOver \/ EndOfOutput
HandlerNext ==
  \/ WaitReturns \/ Joined \/ GraceExpires \/ TurnFails \/ Decide
  \/ \E p \in 1 .. MaxLines : SkipResult(p)

(* The steps at which Telegram and the store are called.                   *)
Showing == ShowLine \/ \E p \in 1 .. MaxLines : ShowResult(p)
Shown(ok) == LineShown(ok) \/ ResultShown(ok)

StreamNext ==
  \/ ProviderNext \/ ReaderNext \/ HandlerNext
  \/ Showing
  \/ \E ok \in BOOLEAN : Shown(ok) \/ TurnAccepted(ok)

StreamSpec == StreamInit /\ [][StreamNext]_streamVars

-----------------------------------------------------------------------------
StreamTypeOK ==
  /\ how \in {"start", "resume"}
  /\ written \in Seq(Lines \cup {LongLine}) /\ Len(written) <= MaxLines
  /\ proc \in {"running", "exited"} /\ accepted \in BOOLEAN
  /\ closed \in BOOLEAN /\ late \in BOOLEAN /\ streamErr \in BOOLEAN
  /\ fetched \in 0 .. Len(written) /\ taken \in 0 .. fetched
  /\ reader \in {"reading", "showing", "done"}
  /\ turn \in {"waiting", "grace", "closing", "joined", "delivering", "showing", "over"}
  /\ pos \in 0 .. MaxLines
  /\ outcome \in {"none", "failed", "broken", "acted", "quiet"}
  /\ shown \in Seq([at : 0 .. MaxLines, text : Texts])

(* The handler touches the session only when the reader is done with it:   *)
(* the two share one session value and one deduper without a lock, and     *)
(* only the channel the handler waits on keeps them apart, also when the   *)
(* 100 ms run out while the reader is inside a Telegram call (Runner.run). *)
HandlerHasTheSession ==
  turn \in {"joined", "delivering", "showing", "over"} => reader = "done"

(* Two entries of the history are about the same news.                     *)
SameNews(i, j) ==
  \/ shown[i].at = shown[j].at
  \/ shown[i].text = shown[j].text /\ Kind[shown[i].text] \in SemanticTypes

Anonymous(p) == p # 0 /\ written[p].id = NoId

(* What was streamed is not shown again with the result, but for lines     *)
(* without an item id: a tool call of theirs has no semantic key, and the  *)
(* semantic keys of a resume's stream name another run than its result's.  *)
(* The other exception is a message that a line too long kept out of the   *)
(* second pass: maybeAutoReply shows it again (Deduper, handleSessionTopic,*)
(* deliverSessionResult).                                                  *)
ShownOnce ==
  \A i, j \in 1 .. Len(shown) :
    i < j /\ SameNews(i, j) =>
      \/ /\ Anonymous(shown[i].at)
         /\ how = "resume" \/ Kind[shown[i].text] \notin SemanticTypes
      \/ shown[j].at = 0 /\ \E p \in 1 .. taken : ~IsEvent(p)

(* Every event the provider wrote has been shown when a turn is delivered: *)
(* itself, or, for the types that matter, another one with its text.  Only *)
(* what the pty held when the 100 ms had run out is lost (copyOutput,      *)
(* Runner.run, Deduper).                                                   *)
NothingWrittenIsLost ==
  outcome \in {"acted", "quiet"} =>
    \A p \in 1 .. Len(written) :
      IsEvent(p) =>
        \/ \E i \in 1 .. Len(shown) :
             \/ shown[i].at = p
             \/ shown[i].text = written[p].text /\ KindAt(p) \in SemanticTypes
        \/ late /\ taken < p

(* A turn that ends quietly has left no question, blocker or request for   *)
(* approval in the topic: what the stream shows is what the second pass    *)
(* decides on, unless a line too long hides it from that pass              *)
(* (deliverSessionResult, firstActionableEvent).                           *)
ShownIsActedOn ==
  outcome = "quiet" /\ (\A p \in 1 .. taken : IsEvent(p)) =>
    \A i \in 1 .. Len(shown) : Kind[shown[i].text] \notin ActionableTypes
=============================================================================
