--------------------------- MODULE MCWorkerStream ---------------------------
(* Instances of WorkerStream for TLC.                                       *)
EXTENDS WorkerStream, TLC

CONSTANTS qr, cred, list, code, s1, s2

\* A QR link and a friends call on two successive or overlapping connections.
LinkAndList == {qr, list}
\* Guarded link with its code, on one worker queue.
GuardedLink == {cred, code, list}
\* Two calls for a queue of one: the second waits in Send.
FillQueue == {list, cred}

KindOf(reqs) ==
  [r \in reqs |-> CASE r = qr -> "qr" [] r = cred -> "credentials"
                    [] r = list -> "friends" [] OTHER -> "code"]
LinkAndListKind == KindOf(LinkAndList)
GuardedLinkKind == KindOf(GuardedLink)
FillQueueKind == KindOf(FillQueue)

TwoStreams == {s1, s2}
OneStream == {s1}
=============================================================================
