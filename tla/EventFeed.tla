----------------------------- MODULE EventFeed -----------------------------
(***************************************************************************)
(* What the event log promises to those who follow a run: the events of a   *)
(* run that are published stay where they are, those published later come   *)
(* after them, and what a reader has received is a beginning of them that   *)
(* only gets longer.  It lasts until the run is removed with its story.     *)
(***************************************************************************)
EXTENDS Integers, Sequences
Seqs == INSTANCE SequencesExt

CONSTANTS Readers, Runs

VARIABLES
  published,  \* [Runs -> the events of the run, in order]
  follows,    \* [Readers -> Runs]
  received,   \* [Readers -> the events the reader has]
  closed      \* the runs removed

feedVars == <<published, follows, received, closed>>

FeedInit ==
  /\ published = [r \in Runs |-> << >>] /\ closed = {}
  /\ follows \in [Readers -> Runs] /\ received = [f \in Readers |-> << >>]

Publish ==
  /\ \A r \in Runs : Seqs!IsPrefix(published[r], published'[r])
  /\ \A r \in closed : published'[r] = published[r]
  /\ UNCHANGED <<follows, received, closed>>

Receive(f) ==
  /\ \E n \in Len(received[f]) + 1 .. Len(published[follows[f]]) :
       received' = [received EXCEPT ![f] = SubSeq(published[follows[f]], 1, n)]
  /\ UNCHANGED <<published, follows, closed>>

Close(r) ==
  /\ closed' = closed \cup {r}
  /\ published' = [published EXCEPT ![r] = << >>]
  /\ received' = [f \in Readers |-> IF follows[f] = r THEN << >> ELSE received[f]]
  /\ UNCHANGED follows

FeedNext == Publish \/ (\E f \in Readers : Receive(f)) \/ (\E r \in Runs \ closed : Close(r))
FeedSpec == FeedInit /\ [][FeedNext]_feedVars
=============================================================================
