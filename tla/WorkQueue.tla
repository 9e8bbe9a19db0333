----------------------------- MODULE WorkQueue -----------------------------
(***************************************************************************)
(* The typed rate-limiting workqueue of client-go (a library) as the       *)
(* controllers of kube-applier use it: Add from informer handlers and      *)
(* tickers, Get / Done around one sync, AddRateLimited after a failed one. *)
(* Its internal FIFO holds exactly dirty \ processing; the order in which  *)
(* waiting keys are handed out is left open, so every order is explored.   *)
(* Delays (5 ms .. 1000 s of backoff) are left out: RetryDue may come at   *)
(* any time after the failure.                                             *)
(***************************************************************************)

VARIABLES
    dirty,        \* keys that need a sync
    processing,   \* keys a worker holds, between Get and Done
    retry         \* keys AddRateLimited put on the delaying heap

queueVars == <<dirty, processing, retry>>

QueueInit ==
    /\ dirty = {}
    /\ processing = {}
    /\ retry = {}

QueueTypeOK(K) ==
    /\ dirty \subseteq K
    /\ processing \subseteq K
    /\ retry \subseteq K

\* Add marks the key dirty; while it is processed it waits there for Done.
Add(k) == dirty' = dirty \cup {k}

\* A worker may be handed k: it is waiting and no other worker holds it.
Available(k) == k \in dirty \ processing

Get(k) ==
    /\ Available(k)
    /\ dirty' = dirty \ {k}
    /\ processing' = processing \cup {k}
    /\ UNCHANGED retry

\* Mutant: a failed sync is only logged.
DoneForget(k, failed) ==
    /\ processing' = processing \ {k}
    /\ UNCHANGED <<dirty, retry>>

\* processNext after SyncOnce: AddRateLimited on error, Forget otherwise, then Done.
Done(k, failed) ==
    /\ processing' = processing \ {k}
    /\ retry' = IF failed THEN retry \cup {k} ELSE retry
    /\ UNCHANGED dirty

\* The backoff of a failed key ends: the delaying queue Adds it.
RetryDue(k) ==
    /\ k \in retry
    /\ retry' = retry \ {k}
    /\ Add(k)
    /\ UNCHANGED processing

\* The process that owns the queue is gone.
QueueLost ==
    /\ dirty' = {}
    /\ processing' = {}
    /\ retry' = {}
=============================================================================
