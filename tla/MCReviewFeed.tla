---------------------------- MODULE MCReviewFeed ----------------------------
(* Small instances of ReviewFeed: a channel of one event makes the session  *)
(* lag after two.                                                           *)
EXTENDS ReviewFeed

\* The session reads the events it has not read yet and nothing else of the
\* feed, and no step reads the answers.
Unread == IF link = "down" THEN <<>> ELSE SubSeq(feed, cursor + 1, Len(feed))
NoHistory == <<row, slot, pc, req, after, rx, opc, oreq, overd, faults, crashes,
               link, view, Unread>>
=============================================================================
