--------------------------- MODULE ClientsClaims ---------------------------
(***************************************************************************)
(* What gq's code says of gq update and does not do.                       *)
(***************************************************************************)
EXTENDS MCClients

\* "Never leave a live daemon paused because the update did not go ahead"
\* (cli.py:733): once an update has given up before it installed anything,
\* and so before it started a daemon, no daemon that serves is paused and
\* stays so. The clause that resumes the queue (732) catches CLIError only: a
\* pause, a list or a shutdown that is answered too late raises ProtocolError, and
\* a slow ping counts as no daemon. Ctrl-C at the request that pauses the queue
\* (703), at the refusal or at the stop (731) raises KeyboardInterrupt, which it
\* does not catch either; usage.md:375 promises that Ctrl-C resumes the queue.
NotLeftPaused ==
  \A c \in Client :
    Updating(c) /\ pc[c] = "failed" /\ step[c] = "unborn" /\ conns = {}
      => ~(paused /\ \E d \in Daemon : step[d] = "serving")
=============================================================================
