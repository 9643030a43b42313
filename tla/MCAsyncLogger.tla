----------------------------- MODULE MCAsyncLogger -----------------------------
(* AsyncLogger for TLC: two producers with three messages, a queue of two cells. *)
EXTENDS AsyncLogger, TLC

CONSTANTS p1, p2

MCProducers == {p1, p2}
MCQuota == p1 :> 2 @@ p2 :> 1
MCItems == {<<p, k>> \in MCProducers \X (1 .. 2) : k <= MCQuota[p]}

\* What meets a shutdown: producers, the writer and the threads that stop it.  Flushes, a Block
\* that times out and a failing file are in MCLogging.  The writer is detached before p2 logs.
MCNext ==
  \/ \E p \in Producers : Enqueue(p) \/ Produce(p)
  \/ Drive \/ WriterTimeout
  \/ RequestShutdown \/ Stop \/ Destroy
  \/ sent[p2] = 0 /\ Detach

MCSpec == Init /\ [][MCNext]_vars /\ Fairness
=============================================================================
