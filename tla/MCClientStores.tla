--------------------------- MODULE MCClientStores ---------------------------
EXTENDS ClientStores

CONSTANTS p, q

Root == [segs |-> <<>>, dir |-> TRUE]
Admin == [segs |-> <<"admin">>, dir |-> TRUE]
Deep == [segs |-> <<"admin", "x">>, dir |-> FALSE]
MCScopes == {Root, Admin, Deep}
MCPaths == {<<"admin">>, <<"admin", "x">>}
=============================================================================
