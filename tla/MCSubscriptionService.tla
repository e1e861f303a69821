------------------------ MODULE MCSubscriptionService ------------------------
(***************************************************************************)
(* Small instances of SubscriptionService for TLC.                         *)
(***************************************************************************)
EXTENDS SubscriptionService, TLC

\* A lifetime longer than the keep-alive period, with which keep-alives are sent and
\* the subscription never expires, and one shorter, with which it expires before the
\* first keep-alive.
KeepAliveOrExpiry == {[LifetimeCount |-> 2, MaxKeepAliveCount |-> 0],
                      [LifetimeCount |-> 0, MaxKeepAliveCount |-> 1]}
LongLived == {[LifetimeCount |-> 1, MaxKeepAliveCount |-> 0]}

ThreadSymmetry == Permutations(IoThreads)
==============================================================================
