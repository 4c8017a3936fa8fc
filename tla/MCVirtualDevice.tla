--------------------------- MODULE MCVirtualDevice ---------------------------
EXTENDS VirtualDevice, TLC

\* All handlers in their order, as the tests mount them, or one by itself.
MCRoutes == {Handlers, <<"disconnect">>}

\* The requests that start or stop something, and one that is passed on.
MCTargets == {<<"own", "connect">>, <<"own", "disconnect">>, <<"other", "connect">>}

Symmetry == Permutations(Requests)
=============================================================================
