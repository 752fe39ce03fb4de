------------------------------ MODULE MCSettles ------------------------------
(* Ingest from three beginnings: a crowd, two workers on one post (the      *)
(* others were in the stream before there was a group, which skips them); one*)
(* worker alone, without faults, on the posts of cargos; the same on the post*)
(* of a truck.                                                              *)
EXTENDS MCIngest

Others == <<b20, b10, truck>>
Gone == [Resting EXCEPT !.step = "gone"]
Alone == worker[w2] = Gone

\* The posts of before are in the stream, and no group is made yet.
Begin(before, workers, used) ==
  /\ stream = [i \in DOMAIN before |-> Fresh(before[i])]
  /\ rows = [i \in DOMAIN before |-> "none"]
  /\ group = [made |-> FALSE, first |-> 0, last |-> 0]
  /\ pending = {} /\ keys = {} /\ trucks = {} /\ accepted = {}
  /\ worker = [w \in Worker |-> IF w \in workers THEN Resting ELSE Gone]
  /\ faults = used

SettlesInit ==
  \/ Begin(Others, {w1, w2}, 0)
  \/ Begin(<<truck>>, {w1}, MaxFaults)
  \/ Begin(<<a20, b20, b10>>, {w1}, MaxFaults)

\* The event loop of every worker runs on, and so does its container.
SettlesSpec ==
  /\ SettlesInit /\ [][Next]_vars
  /\ WF_vars(EnsureGroup) /\ \A w \in Worker : WF_vars(Work(w))

\* Every entry the group can see is dealt with in the end, if faults cease:
\* what a crashed worker leaves behind is claimed by another one (run).
EventuallySettled ==
  \A n \in 1..(MaxCopies * (MaxRetries + 1)) :
    LET e == Len(Others) + n IN (~Alone /\ Visible(e)) ~> Settled(e)

\* With one worker and no faults a post is dropped as a duplicate only when an
\* earlier entry, of a post linked to it, was sent or was spam (_process_message).
DuplicateIsLinked == Alone => DuplicatesHaveLinks
=============================================================================
