------------------------------ MODULE EventLog ------------------------------
(***************************************************************************)
(* The durable log of workflow events: transactions that append to it under *)
(* SQLite's write lock, and readers that catch up by pages and then follow  *)
(* one run over a stream that breaks and is resumed at a cursor.            *)
(***************************************************************************)
EXTENDS Integers, Sequences, FiniteSets
SequencesOf == INSTANCE SequencesExt
SetsOf == INSTANCE FiniteSetsExt

CONSTANTS
  Writers,    \* transactions of the worker, the handlers and the services
  Followers,  \* clients, each of one run
  LoggedRuns,
  PageLimit, BatchSize,  \* limit of a page, STREAM_BATCH_SIZE
  MaxEvents   \* bound: events in the log

ASSUME LogAssumption == {PageLimit, BatchSize} \subseteq Nat \ {0} /\ MaxEvents \in Nat

VARIABLES
  log,       \* the table: a set of rows [id, run, by, committed]
  removed,   \* runs deleted with their story
  follower   \* [Followers -> what the client knows, and the stream that serves it]

logVars == <<log, removed, follower>>

Disconnected == "disconnected"
Streaming == "streaming"

-----------------------------------------------------------------------------
(* Writers.  The id of a row is assigned by its INSERT; it is seen by the   *)
(* others when its transaction commits.                                     *)

MayWrite(w) == \A row \in log : row.committed \/ row.by = w
Writing(w) == \E row \in log : ~ row.committed /\ row.by = w

NextId == IF log = {} THEN 1 ELSE SetsOf!Max({row.id : row \in log}) + 1

(* Mutant: a row is inserted beside another transaction's.                  *)
AppendEventBeside(w) ==
  \E r \in LoggedRuns \ removed :
    /\ Cardinality(log) < MaxEvents
    /\ log' = log \cup {[id |-> NextId, run |-> r, by |-> w, committed |-> FALSE]}
    /\ UNCHANGED <<removed, follower>>
AppendEvent(w) ==
  \E r \in LoggedRuns \ removed :
    /\ Cardinality(log) < MaxEvents /\ MayWrite(w)
    /\ log' = log \cup {[id |-> NextId, run |-> r, by |-> w, committed |-> FALSE]}
    /\ UNCHANGED <<removed, follower>>

Commit(w) ==
  /\ Writing(w)
  /\ log' = {[row EXCEPT !.committed = @ \/ row.by = w] : row \in log}
  /\ UNCHANGED <<removed, follower>>

(* An exception in the transaction, or the loss of its process.             *)
Rollback(w) ==
  /\ Writing(w)
  /\ log' = {row \in log : row.committed \/ row.by # w}
  /\ UNCHANGED <<removed, follower>>

(* WorkspaceStore.delete_project, the one way rows leave the log; the ids   *)
(* at its end are assigned again.                                           *)
RemoveStory(w, r) ==
  /\ r \notin removed /\ MayWrite(w) /\ ~ Writing(w)
  /\ removed' = removed \cup {r}
  /\ log' = {row \in log : row.run # r}
  /\ UNCHANGED follower

-----------------------------------------------------------------------------
(* Readers.                                                                 *)
Committed(r) == {row.id : row \in {other \in log : other.committed /\ other.run = r}}

(* order_by(WorkflowEvent.id), limit(n).                                    *)
InOrder(ids) ==
  CHOOSE s \in [1 .. Cardinality(ids) -> ids] : \A j, k \in DOMAIN s : j < k => s[j] < s[k]
FirstRows(s, n) == SubSeq(s, 1, IF n < Len(s) THEN n ELSE Len(s))

(* list_after.                                                              *)
ListAfter(r, cursor, limit) == FirstRows(InOrder({id \in Committed(r) : id > cursor}), limit)

(* page_after: one row more than the page is read, to tell whether there is *)
(* more.                                                                    *)
EventPage(r, after) ==
  LET records == ListAfter(r, after, PageLimit + 1)
      events  == FirstRows(records, PageLimit)
  IN  [events |-> events, next_after |-> IF events = << >> THEN after ELSE SequencesOf!Last(events)]

(* A page; a response that is lost is asked for again.  A client asks for   *)
(* pages before it follows.                                                 *)
ListEvents(f) ==
  /\ follower[f].pc = Disconnected /\ follower[f].run \notin removed
  /\ follower[f].lastEvent <= follower[f].after
  /\ LET page == EventPage(follower[f].run, follower[f].after)
     IN  follower' = [follower EXCEPT ![f].after = page.next_after,
                                      ![f].seen = @ \o page.events]
  /\ UNCHANGED <<log, removed>>

(* The stream starts after the later of the cursors the client gives: where *)
(* its pages ended, and the last event of an earlier stream.                *)
StreamStart(after, lastEvent) == IF after > lastEvent THEN after ELSE lastEvent
Connect(f) ==
  /\ follower[f].pc = Disconnected /\ follower[f].run \notin removed
  /\ follower' = [follower EXCEPT
                    ![f].pc = Streaming,
                    ![f].cursor = StreamStart(follower[f].after, follower[f].lastEvent)]
  /\ UNCHANGED <<log, removed>>

(* stream_workflow_events: a batch is read when the one before is sent.     *)
Poll(f) ==
  /\ follower[f].pc = Streaming /\ follower[f].batch = << >>
  /\ LET records == ListAfter(follower[f].run, follower[f].cursor, BatchSize)
     IN  records # << >> /\ follower' = [follower EXCEPT ![f].batch = records]
  /\ UNCHANGED <<log, removed>>

Yield(f) ==
  /\ follower[f].pc = Streaming /\ follower[f].batch # << >>
  /\ follower' = [follower EXCEPT ![f].cursor = Head(follower[f].batch),
                                  ![f].batch = Tail(@),
                                  ![f].wire = Append(@, Head(follower[f].batch))]
  /\ UNCHANGED <<log, removed>>

Receive(f) ==
  /\ follower[f].wire # << >>
  /\ follower' = [follower EXCEPT ![f].wire = Tail(@),
                                  ![f].lastEvent = Head(follower[f].wire),
                                  ![f].seen = Append(@, Head(follower[f].wire))]
  /\ UNCHANGED <<log, removed>>

(* The connection, or the service, is lost with what was not received; with *)
(* follow=false the stream ends by itself.  A reloaded client goes on from  *)
(* the last event it has.                                                   *)
Disconnect(f) ==
  /\ follower[f].pc = Streaming
  /\ \E after \in {follower[f].after, follower[f].lastEvent} :
       /\ after >= follower[f].after
       /\ follower' = [follower EXCEPT ![f].pc = Disconnected, ![f].batch = << >>,
                         ![f].wire = << >>, ![f].cursor = 0, ![f].after = after]
  /\ UNCHANGED <<log, removed>>

FollowerOf(r) ==
  [run |-> r, pc |-> Disconnected, after |-> 0, lastEvent |-> 0, cursor |-> 0,
   batch |-> << >>, wire |-> << >>, seen |-> << >>]
LogInit ==
  /\ log = {} /\ removed = {}
  /\ follower \in [Followers -> {FollowerOf(r) : r \in LoggedRuns}]

LogNext ==
  \/ \E w \in Writers : \/ AppendEvent(w) \/ Commit(w) \/ Rollback(w)
                        \/ \E r \in LoggedRuns : RemoveStory(w, r)
  \/ \E f \in Followers : ListEvents(f) \/ Connect(f) \/ Poll(f) \/ Yield(f) \/ Receive(f)
                            \/ Disconnect(f)

LogSpec == LogInit /\ [][LogNext]_logVars

-----------------------------------------------------------------------------
LogTypeOK ==
  /\ removed \subseteq LoggedRuns
  /\ \A row \in log : row.id \in Nat \ {0} /\ row.run \in LoggedRuns \ removed /\ row.by \in Writers
  /\ \A row, other \in log : row.id = other.id => row = other
  /\ \A f \in Followers : follower[f].pc \in {Disconnected, Streaming}

(* The events of a run, as one reads them all at once.                      *)
Published(r) == InOrder(Committed(r))

(* "Clients catch up with a typed, exclusive cursor page.  They can then    *)
(* open the resumable SSE feed.  The feed first replays every missed event  *)
(* and then follows new rows" (apps/api/README.md:97-107): what a client of *)
(* a run has received is, at every moment, the beginning of the run's log,  *)
(* each event once and in order, whoever wrote to the log meanwhile, and    *)
(* wherever the stream broke.                                               *)
ReadersMissNothing ==
  \A f \in Followers : follower[f].run \notin removed =>
    SequencesOf!IsPrefix(follower[f].seen, Published(follower[f].run))

(* "Append-only, globally ordered event emitted by a workflow run"          *)
(* (models.py:711): the log implements EventFeed.  A commit never places an *)
(* event before one that was published, a reader's client never goes back,  *)
(* and the ids that are assigned again reach no reader of another run.      *)
(* What readers have is a beginning of the log in it, as above.             *)
Feed == INSTANCE EventFeed WITH
  Readers <- Followers, Runs <- LoggedRuns, closed <- removed,
  published <- [r \in LoggedRuns |-> Published(r)],
  follows <- [f \in Followers |-> follower[f].run],
  received <- [f \in Followers |->
                 IF follower[f].run \in removed THEN << >> ELSE follower[f].seen]
FeedSpec == Feed!FeedSpec
=============================================================================
