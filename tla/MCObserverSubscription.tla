----------------------- MODULE MCObserverSubscription -----------------------
EXTENDS ObserverSubscription
MCTopologies == {[observers |-> {"a"}, far |-> {}],
                 [observers |-> {"a", "b"}, far |-> {{"a", "v"}, {"b", "v"}}]}
=============================================================================
